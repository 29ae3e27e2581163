------------------------------- MODULE MCGcList -------------------------------
(* Two producers and two consumers over four addresses. *)
EXTENDS GcList, TLC

CONSTANTS p1, p2, c1, c2, a, b, n1, n2, n3, n4
MCProducers == {p1, p2}
MCConsumers == {c1, c2}
MCElements  == {a, b}
MCNodes     == {n1, n2, n3, n4}

(* Addresses and threads are alike; the properties are safety properties.   *)
Alike == Permutations(MCNodes) \cup Permutations(MCProducers) \cup Permutations(MCConsumers)
=============================================================================
