--------------------------- MODULE CondvarRingArray ---------------------------
(***************************************************************************)
(* concur::CondvarRingArray (condvar_queue.h): a ring under one mutex, and *)
(* a condition variable for the timed pop.                                 *)
(*                                                                         *)
(* What a call does between lock and unlock is one step.  push unlocks     *)
(* before it notifies: two steps.  The wait of a timed pop releases the    *)
(* mutex; it ends by a notification, spuriously, or by the clock, and a    *)
(* waiter that was notified may still find that its time is over when it   *)
(* has the mutex again, and return false without a look at the ring.       *)
(***************************************************************************)
EXTENDS Integers, FiniteSets

CONSTANTS
  Producers, Consumers,   \* the threads
  Elements, Nothing,      \* the values pushed, and what is in a fresh slot
  Size,                   \* arr_size_
  SizeRange               \* the number of values of std::size_t, 2^64 in C++

(* The last conjunct is what the code needs when head_ and tail_ wrap.      *)
ASSUME ConstantsAssumption ==
  /\ IsFiniteSet(Producers)
  /\ IsFiniteSet(Consumers)
  /\ Producers \cap Consumers = {}
  /\ Nothing \notin Elements
  /\ Size \in Nat \ {0}
  /\ SizeRange \in Nat
  /\ SizeRange > Size
  /\ SizeRange % Size = 0

Slots == 0 .. Size - 1

VARIABLES
  arr,      \* arr_
  count,    \* count_
  head,     \* head_
  tail,     \* tail_
  pc,       \* where each thread is: a consumer that is asleep waits inside
            \* wait_for; one that is woken wants the mutex back
  got,      \* dst of the latest successful pop of each consumer
  lapsed    \* history: a woken consumer gave up, and what it was woken for
            \* is still there

vars == <<arr, count, head, tail, pc, got, lapsed>>

Asleep    == {c \in Consumers : pc[c] = "asleep"}
Woken     == {c \in Consumers : pc[c] = "woken"}
Notifying == {p \in Producers : pc[p] = "notify"}

(* A slot for every element, and head_ ahead of tail_ by the elements that  *)
(* wait (push fails on a full ring: put_element).                           *)
TypeOK ==
  /\ arr \in [Slots -> Elements \cup {Nothing}]
  /\ count \in 0 .. Size
  /\ head \in 0 .. SizeRange - 1
  /\ tail \in 0 .. SizeRange - 1
  /\ pc \in [Producers \cup Consumers -> {"idle", "notify", "asleep", "woken"}]
  /\ \A p \in Producers : pc[p] \in {"idle", "notify"}
  /\ \A c \in Consumers : pc[c] # "notify"
  /\ got \in [Consumers -> Elements \cup {Nothing}]
  /\ lapsed \in BOOLEAN
  /\ head = (tail + count) % SizeRange

Init ==
  /\ arr = [s \in Slots |-> Nothing]
  /\ count = 0
  /\ head = 0
  /\ tail = 0
  /\ pc = [t \in Producers \cup Consumers |-> "idle"]
  /\ got = [c \in Consumers |-> Nothing]
  /\ lapsed = FALSE

Goto(t, label) == pc' = [pc EXCEPT ![t] = label]
At(i)   == i % Size
Inc(i)  == (i + 1) % SizeRange

(* lapsed tells of elements that are still there.                           *)
Debt(more) == lapsed' = (count' > 0 /\ (lapsed \/ more))

-----------------------------------------------------------------------------
HasRoomOffByOne == count <= Size         \* mutant

(* put_element fails on a full ring, and push changes nothing then.         *)
HasRoom == count < Size

UnlockedIfEmpty(p) == Goto(p, IF count = 0 THEN "notify" ELSE "idle")   \* mutant
UnlockedSilently(p) == Goto(p, "idle")                                  \* mutant

(* push unlocks, and notifies next, after every element.                    *)
Unlocked(p) == Goto(p, "notify")

(* push, while it has the mutex. *)
Push(p, e) ==
  /\ pc[p] = "idle"
  /\ HasRoom
  /\ arr' = [arr EXCEPT ![At(head)] = e]
  /\ head' = Inc(head)
  /\ count' = count + 1
  /\ Unlocked(p)
  /\ Debt(FALSE)
  /\ UNCHANGED <<tail, got>>

(* notify_one wakes one waiter, if there is any. *)
NotifyOne(p) ==
  /\ pc[p] = "notify"
  /\ IF Asleep = {}
     THEN Goto(p, "idle")
     ELSE \E c \in Asleep : pc' = [pc EXCEPT ![p] = "idle", ![c] = "woken"]
  /\ UNCHANGED <<arr, count, head, tail, got, lapsed>>

-----------------------------------------------------------------------------
OldestPreIncrement == arr[At(Inc(tail))] \* mutant

Oldest == arr[At(tail)]            \* at( tail_++ )

(* get_element finds an element: both kinds of pop return true. *)
GetElement(c) ==
  /\ count > 0
  /\ got' = [got EXCEPT ![c] = Oldest]
  /\ tail' = Inc(tail)
  /\ count' = count - 1
  /\ Goto(c, "idle")
  /\ Debt(FALSE)
  /\ UNCHANGED <<arr, head>>

(* get_element finds nothing: a timed pop goes on waiting, which unlocks.   *)
GoToSleep(c) ==
  /\ count = 0
  /\ Goto(c, "asleep")
  /\ UNCHANGED <<arr, count, head, tail, got, lapsed>>

(* The first look of a pop, and the next one of a timed pop.                *)
Pop(c)      == pc[c] = "idle" /\ GetElement(c)
Wait(c)     == pc[c] = "idle" /\ GoToSleep(c)
PopAgain(c) == pc[c] = "woken" /\ GetElement(c)
WaitAgain(c) == pc[c] = "woken" /\ GoToSleep(c)

WakeSpuriously(c) ==
  /\ pc[c] = "asleep"
  /\ Goto(c, "woken")
  /\ UNCHANGED <<arr, count, head, tail, got, lapsed>>

(* wait_for returns cv_status::timeout: pop returns false.  Whether the     *)
(* clock or the notification came first does not matter: a woken waiter is  *)
(* late when the mutex comes to it after its time.                          *)
TimeOut(c) ==
  /\ pc[c] \in {"asleep", "woken"}
  /\ Goto(c, "idle")
  /\ UNCHANGED <<arr, count, head, tail, got>>
  /\ Debt(pc[c] = "woken")

(* clear, by any thread, of elements that need no destructor.               *)
Clear ==
  /\ count' = 0
  /\ head' = 0
  /\ tail' = 0
  /\ Debt(FALSE)
  /\ UNCHANGED <<arr, pc, got>>

Consume(c) == PopAgain(c) \/ WaitAgain(c)

Next ==
  \/ \E p \in Producers : NotifyOne(p) \/ \E e \in Elements : Push(p, e)
  \/ \E c \in Consumers : Pop(c) \/ Wait(c) \/ Consume(c) \/ WakeSpuriously(c) \/ TimeOut(c)
  \/ Clear

Spec == Init /\ [][Next]_vars

(* A thread that runs and wants the mutex goes on.  Nobody has to call push *)
(* or pop, and no clock has to run out.                                     *)
Fairness ==
  /\ \A p \in Producers : WF_vars(NotifyOne(p))
  /\ \A c \in Consumers : WF_vars(Consume(c))

FairSpec == Spec /\ Fairness

-----------------------------------------------------------------------------
(* Properties *)

(* No lost wakeup (condvar_queue.h:112-122, 132-140): as long as somebody   *)
(* sleeps in a timed pop, there is a wakeup, given or about to be given,    *)
(* for every element in the ring, although push notifies after it unlocked, *)
(* others pop in between and waiters wake for nothing.  The exception is    *)
(* the timeout of a waiter that had been notified.                          *)
WakeupsCover ==
  Asleep # {} /\ ~lapsed => count <= Cardinality(Woken) + Cardinality(Notifying)

(* The elements of the ring, from tail_ on. *)
Waiting == [i \in 1 .. count |-> arr[At((tail + i - 1) % SizeRange)]]

(* The ring is a queue (condvar_queue.h:176-194): elements leave in the     *)
(* order of the pushes, each once, unharmed by the laps of the indexes and  *)
(* by their wrap.                                                           *)
Line == INSTANCE BoundedQueue WITH
  Clearable <- TRUE,
  Capacity <- Size,
  queue <- Waiting

ImplementsBoundedQueue == Line!Spec

(* A timed pop does not sleep on beside an element (condvar_queue.h:132):   *)
(* it returns, or somebody takes the elements first, unless the clock       *)
(* swallowed a wakeup.                                                      *)
WaitersServed ==
  \A c \in Consumers :
    (pc[c] = "asleep" /\ count > 0) ~> (pc[c] = "idle" \/ count = 0 \/ lapsed)
=============================================================================
