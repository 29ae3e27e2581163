------------------------------ MODULE MCScmrPool ------------------------------
(* Model values for the threads of ScmrPool. *)
EXTENDS ScmrPool

CONSTANTS c, r1, r2

TwoReleasers == {r1, r2}
=============================================================================
