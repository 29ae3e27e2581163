-------------------------- MODULE MCLockedContainers --------------------------
(* Three threads on two slots; the indexes of RingArray run over 0..3.      *)
EXTENDS LockedContainers

CONSTANTS t1, t2, t3, a, b
MCThreads    == {t1, t2, t3}
MCElements   == {a, b}
MCContainers == {"Queue", "RingArray", "CondvarQueue"}
=============================================================================
