-------------------------- MODULE ScspPtrRingArray --------------------------
(***************************************************************************)
(* concur::ScspPtrRingArray (scsp_ptr_ring_array.h), one ring for each     *)
(* channel: the ring of ScspRingArray for pointers, where the pointer      *)
(* itself tells whether the node is full.  Each call is one atomic step.   *)
(* A push that finds a pointer, and a pop that finds none, change nothing. *)
(***************************************************************************)
EXTENDS Integers, MemoryOrder

CONSTANTS
  Channels, Sender, Receiver, Elements, Nothing, Size, CounterMod  \* ScspRingArray

Slots == 0 .. Size - 1

VARIABLES
  data,        \* Node::data
  head, tail,  \* head_ and tail_
  out,         \* ptr of the latest pop
  seen, rel    \* happens-before (MemoryOrder)

PtrOf(ch, s) == <<"ptr", ch, s>>
Atomics      == {PtrOf(ch, s) : ch \in Channels, s \in Slots}

At(i)  == i % Size
Inc(i) == (i + 1) % CounterMod

PutRelaxed(ch, s) == rel                 \* mutant: memory_order_relaxed
PutOrder(ch, s) == RmwRelease(rel, PtrOf(ch, s), seen[Sender[ch]])

(* push: the node at head_ is empty, compare_exchange( nullptr, e, release ). *)
Put(ch, e) ==
  LET s == At(head[ch])
  IN  /\ data[ch][s] = Nothing
      /\ data' = [data EXCEPT ![ch][s] = e]
      /\ rel' = PutOrder(ch, s)
      /\ head' = [head EXCEPT ![ch] = Inc(@)]
      /\ UNCHANGED <<tail, out, seen>>

(* pop: exchange( nullptr, acquire ) of the node at tail_ returns a pointer. *)
(* What it acquired nobody else will, and the sender still has.             *)
Take(ch) ==
  LET s == At(tail[ch])
  IN  /\ data[ch][s] # Nothing
      /\ out' = [out EXCEPT ![ch] = data[ch][s]]
      /\ data' = [data EXCEPT ![ch][s] = Nothing]
      /\ seen' = Acquire(seen, Receiver[ch], rel[PtrOf(ch, s)])
      /\ rel' = StoreRelaxed(rel, PtrOf(ch, s), {})
      /\ tail' = [tail EXCEPT ![ch] = Inc(@)]
      /\ UNCHANGED head
=============================================================================
