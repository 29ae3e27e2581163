----------------------------- MODULE MCScmpQueue -----------------------------
(* Model values for the threads and the addresses of ScmpQueue. *)
EXTENDS ScmpQueue

CONSTANTS p1, p2, c, n1, n2, n3, n4, null

TwoProducers == {p1, p2}
FourNodes    == {n1, n2, n3, n4}
=============================================================================
