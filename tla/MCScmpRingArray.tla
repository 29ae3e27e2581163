--------------------------- MODULE MCScmpRingArray ---------------------------
(* Model values for the producers and the consumer of ScmpRingArray. *)
EXTENDS ScmpRingArray

CONSTANTS p1, p2, p3, c

OneProducer    == {p1}
ThreeProducers == {p1, p2, p3}
=============================================================================
