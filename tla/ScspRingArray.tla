---------------------------- MODULE ScspRingArray ----------------------------
(***************************************************************************)
(* concur::ScspRingArray (scsp_ring_array.h), one ring for each channel: a *)
(* single thread pushes, a single thread pops, each with a counter of its  *)
(* own, and the flag of a node tells whose turn it is.                     *)
(*                                                                         *)
(* The module has the operations of a ring; the specification that uses it *)
(* says when the threads call them.  A call that finds the flag in the     *)
(* wrong state returns false and changes nothing: it has no action.        *)
(***************************************************************************)
EXTENDS Integers, MemoryOrder

CONSTANTS
  Channels,          \* the rings
  Sender, Receiver,  \* the thread on either side of each ring
  Elements, Nothing, \* the values pushed, and what Type( ) is
  Size,              \* the size given to init
  CounterMod         \* 2^w, the number of values of size_type

Slots == 0 .. Size - 1

VARIABLES
  flag, data,        \* Node::flag, Node::data
  head, tail,        \* head_ and tail_
  putting, taking,   \* the next step of a push and of a pop under way
  out,               \* dst of the latest pop
  seen, rel          \* happens-before (MemoryOrder)

SlotOf(ch, s) == <<"slot", ch, s>>
FlagOf(ch, s) == <<"flag", ch, s>>
Places  == {SlotOf(ch, s) : ch \in Channels, s \in Slots}
Atomics == {FlagOf(ch, s) : ch \in Channels, s \in Slots}

TypeOK ==
  /\ flag \in [Channels -> [Slots -> BOOLEAN]]
  /\ data \in [Channels -> [Slots -> Elements \cup {Nothing}]]
  /\ head \in [Channels -> 0 .. CounterMod - 1]
  /\ tail \in [Channels -> 0 .. CounterMod - 1]
  /\ putting \in [Channels -> {"no", "write", "publish"}]
  /\ taking \in [Channels -> {"no", "move", "clear"}]
  /\ out \in [Channels -> Elements \cup {Nothing}]

Init ==
  /\ flag = [ch \in Channels |-> [s \in Slots |-> FALSE]]
  /\ data = [ch \in Channels |-> [s \in Slots |-> Nothing]]
  /\ head = [ch \in Channels |-> 0]
  /\ tail = [ch \in Channels |-> 0]
  /\ putting = [ch \in Channels |-> "no"]
  /\ taking = [ch \in Channels |-> "no"]
  /\ out = [ch \in Channels |-> Nothing]

At(i)  == i % Size
Inc(i) == (i + 1) % CounterMod

-----------------------------------------------------------------------------
(* push *)

FreeUnchecked(ch) == TRUE          \* mutant

(* The node at head_ is free: flag.load( acquire ) is false. *)
Free(ch) == ~flag[ch][At(head[ch])]

PutCheck(ch) ==
  /\ putting[ch] = "no"
  /\ Free(ch)
  /\ putting' = [putting EXCEPT ![ch] = "write"]
  /\ seen' = Acquire(seen, Sender[ch], rel[FlagOf(ch, At(head[ch]))])
  /\ UNCHANGED <<flag, data, head, tail, taking, out, rel>>

PutWrite(ch, e) ==
  /\ putting[ch] = "write"
  /\ putting' = [putting EXCEPT ![ch] = "publish"]
  /\ data' = [data EXCEPT ![ch][At(head[ch])] = e]
  /\ seen' = Touch(seen, Sender[ch], SlotOf(ch, At(head[ch])))
  /\ rel' = Forget(rel, SlotOf(ch, At(head[ch])))
  /\ UNCHANGED <<flag, head, tail, taking, out>>

(* flag.store( true, release ), and head_, which only the sender looks at. *)
PutPublish(ch) ==
  /\ putting[ch] = "publish"
  /\ putting' = [putting EXCEPT ![ch] = "no"]
  /\ flag' = [flag EXCEPT ![ch][At(head[ch])] = TRUE]
  /\ rel' = StoreRelease(rel, FlagOf(ch, At(head[ch])), seen[Sender[ch]])
  /\ head' = [head EXCEPT ![ch] = Inc(@)]
  /\ UNCHANGED <<data, tail, taking, out, seen>>

-----------------------------------------------------------------------------
(* pop *)

(* The node at tail_ is full: flag.load( acquire ) is true. *)
TakeCheck(ch) ==
  /\ taking[ch] = "no"
  /\ flag[ch][At(tail[ch])]
  /\ taking' = [taking EXCEPT ![ch] = "move"]
  /\ seen' = Acquire(seen, Receiver[ch], rel[FlagOf(ch, At(tail[ch]))])
  /\ UNCHANGED <<flag, data, head, tail, putting, out, rel>>

OldestNext(ch) == data[ch][At(Inc(tail[ch]))]   \* mutant: tail_ incremented before
Oldest(ch)     == data[ch][At(tail[ch])]

(* std::move leaves nothing behind that counts. *)
TakeMove(ch) ==
  /\ taking[ch] = "move"
  /\ taking' = [taking EXCEPT ![ch] = "clear"]
  /\ out' = [out EXCEPT ![ch] = Oldest(ch)]
  /\ data' = [data EXCEPT ![ch][At(tail[ch])] = Nothing]
  /\ seen' = Touch(seen, Receiver[ch], SlotOf(ch, At(tail[ch])))
  /\ rel' = Forget(rel, SlotOf(ch, At(tail[ch])))
  /\ UNCHANGED <<flag, head, tail, putting>>

(* flag.store( false, release ), and tail_, which only the receiver looks at. *)
TakeClear(ch) ==
  /\ taking[ch] = "clear"
  /\ taking' = [taking EXCEPT ![ch] = "no"]
  /\ flag' = [flag EXCEPT ![ch][At(tail[ch])] = FALSE]
  /\ rel' = StoreRelease(rel, FlagOf(ch, At(tail[ch])), seen[Receiver[ch]])
  /\ tail' = [tail EXCEPT ![ch] = Inc(@)]
  /\ UNCHANGED <<data, head, putting, out, seen>>
=============================================================================
