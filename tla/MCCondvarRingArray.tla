-------------------------- MODULE MCCondvarRingArray --------------------------
(* Two producers and three consumers on two slots; the indexes run over 0..3. *)
EXTENDS CondvarRingArray

CONSTANTS p1, p2, c1, c2, c3, a, b
MCProducers == {p1, p2}
MCConsumers == {c1, c2, c3}
MCElements  == {a, b}
=============================================================================
