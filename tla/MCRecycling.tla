------------------------------ MODULE MCRecycling ------------------------------
(* Two releasers and four elements, in a program with each of the pools and *)
(* each of the rings.                                                       *)
EXTENDS Recycling, TLC

CONSTANTS c, null, n1, n2, n3, n4

MCNodes == {n1, n2, n3, n4}

MCPrograms ==
  {<<"ScmrOctopusPool", "ScspRingArray">>,
   <<"ScmrBufferPool", "ScspPtrRingArray">>,
   <<"ScmrRingPool", "ScspRingArray">>,
   <<"ScmrRingPool", "ScspPtrRingArray">>}

(* Three of the elements are the buffers of one pool, so that two releases  *)
(* to it can overlap; the other pool has a single one, which it never lends. *)
MCShares == [i \in {0, 1} |-> IF i = 0 THEN 3 ELSE 1]

(* Addresses are alike; the properties are safety properties.               *)
Alike == Permutations(MCNodes)
=============================================================================
