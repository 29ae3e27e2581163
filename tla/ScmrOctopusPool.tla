---------------------------- MODULE ScmrOctopusPool ----------------------------
(***************************************************************************)
(* concpool::ScmrOctopusPool (scmr_octopus_pool.h): a ScsrPool for each    *)
(* releaser, and one consumer that tries them in turn.  It goes on where   *)
(* the previous pop ended, and gives up after rcount_ tries.  With one     *)
(* releaser it is a ScsrPool.                                              *)
(***************************************************************************)
EXTENDS Integers, FiniteSets

CONSTANTS
  Consumer,    \* the thread that calls pop
  rcount,      \* rcount_; the releasers are the threads 0 .. rcount_ - 1
  Nodes,       \* the nodes init creates; their number is its count, and
               \* rcount at least
  CounterMod,  \* 2^w, the number of values of unsigned
  NoNode       \* nullptr

Pools == 0 .. rcount - 1

VARIABLES
  tail, head, next,   \* the pools (ScsrPool)
  cnum,               \* cnum_
  popping, end,       \* whether a pop is under way, and its local variable
  stocked,            \* history: some pool could lend when it began
  bypassed,           \* history: how many elements other pools lent while this
                      \* one could
  seen, rel           \* happens-before (MemoryOrder)

(* init deals the elements out, to each pool a share of what is left.       *)
Remaining[i \in 0 .. rcount] ==
  IF i = 0 THEN Cardinality(Nodes)
  ELSE Remaining[i - 1] - Remaining[i - 1] \div (rcount - (i - 1))

First == [i \in Pools |-> Cardinality(Nodes) - Remaining[i] + 1]
Last  == [i \in Pools |-> Cardinality(Nodes) - Remaining[i + 1]]

Arm == INSTANCE ScsrPool

TypeOK ==
  /\ Arm!TypeOK
  /\ cnum \in 0 .. CounterMod - 1
  /\ popping \in BOOLEAN
  /\ end \in 0 .. CounterMod - 1
  /\ stocked \in BOOLEAN
  /\ bypassed \in [Pools -> 0 .. rcount]

Init ==
  /\ Arm!Init
  /\ cnum = 0
  /\ popping = FALSE
  /\ end = 0
  /\ stocked = FALSE
  /\ bypassed = [i \in Pools |-> 0]

Inc(k)  == (k + 1) % CounterMod
Current == cnum % rcount              \* the pool whose turn it is
Found   == tail[Current]              \* what it would lend

-----------------------------------------------------------------------------
EndOneEarly == (cnum + rcount - 1) % CounterMod   \* mutant

End == (cnum + rcount) % CounterMod

PopBegin ==
  /\ ~popping
  /\ popping' = TRUE
  /\ end' = End
  /\ stocked' = \E i \in Pools : Arm!Lendable(i)
  /\ UNCHANGED <<tail, head, next, cnum, bypassed, seen, rel>>

NextTurnStuck == cnum                 \* mutant: the index moves on a miss only

(* cnum_++, whether the pool lends an element or not.                       *)
NextTurn == Inc(cnum)

(* A pool lends, and pop returns its element. *)
PopHit ==
  /\ popping
  /\ Arm!Pop(Current, Consumer)
  /\ cnum' = NextTurn
  /\ popping' = FALSE
  /\ end' = 0
  /\ stocked' = FALSE
  /\ bypassed' = [i \in Pools |->
                   IF i = Current \/ ~Arm!Lendable(i) THEN 0
                   ELSE IF bypassed[i] < rcount THEN bypassed[i] + 1 ELSE rcount]

(* The pool lends nothing: on to the next one, or return nullptr. *)
PopMiss ==
  /\ popping
  /\ ~Arm!Lendable(Current)
  /\ cnum' = Inc(cnum)
  /\ popping' = (Inc(cnum) # end)
  /\ end' = IF popping' THEN end ELSE 0
  /\ stocked' = (stocked /\ popping')
  /\ UNCHANGED <<tail, head, next, bypassed, seen, rel>>

(* release( rnum, ptr ), by releaser r *)
Release(r, n) ==
  /\ Arm!Release(r, n, r)
  /\ UNCHANGED <<cnum, popping, end, stocked, bypassed>>

(* What the destructors of the pools_ find.                                 *)
Destroyed == UNION {Arm!Chain(i) : i \in Pools}
=============================================================================
