------------------------------ MODULE MCRingBar ------------------------------
(* Model values for the visitors and the master of RingBar. *)
EXTENDS RingBar

CONSTANTS v1, v2, m

TwoVisitors == {v1, v2}
=============================================================================
