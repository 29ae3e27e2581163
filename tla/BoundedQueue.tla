----------------------------- MODULE BoundedQueue -----------------------------
(***************************************************************************)
(* What the bounded containers promise: each call takes effect at one      *)
(* moment, elements leave in the order they came, no more than         *)
(* Capacity of them wait at a time.                                        *)
(***************************************************************************)
EXTENDS Naturals, Sequences

CONSTANTS
  Elements,
  Consumers,
  Capacity,   \* how many elements may wait
  Clearable,  \* whether there is an operation that drops them all
  Nothing     \* what a consumer has before its first element

VARIABLES
  queue,      \* the elements that wait, the oldest at the head
  got         \* the latest element each consumer obtained

vars == <<queue, got>>

Init ==
  /\ queue = << >>
  /\ got = [c \in Consumers |-> Nothing]

Put(e) ==
  /\ Len(queue) < Capacity
  /\ queue' = Append(queue, e)
  /\ UNCHANGED got

Get(c) ==
  /\ queue # << >>
  /\ got' = [got EXCEPT ![c] = Head(queue)]
  /\ queue' = Tail(queue)

Clear ==
  /\ Clearable
  /\ queue' = << >>
  /\ UNCHANGED got

Next ==
  \/ \E e \in Elements : Put(e)
  \/ \E c \in Consumers : Get(c)
  \/ Clear

Spec == Init /\ [][Next]_vars
=============================================================================
