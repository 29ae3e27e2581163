----------------------------- MODULE MCCountedSeq -----------------------------
(* Two producers, two consumers and an observer on two slots. *)
EXTENDS CountedSeq

CONSTANTS p1, p2, c1, c2, o, a, b
MCProducers == {p1, p2}
MCConsumers == {c1, c2}
MCObservers == {o}
MCElements  == {a, b}
=============================================================================
