--------------------------- MODULE LockedContainers ---------------------------
(***************************************************************************)
(* The containers with one mutex: concur::Queue and concur::RingArray      *)
(* (mt_containers.h), with the ContainerGrab (container_grab.h) that holds *)
(* the mutex for several calls, and concur::CondvarQueue (condvar_queue.h) *)
(* with its timed pop.                                                     *)
(*                                                                         *)
(* A call locks, does its work and unlocks: one step, taken when the mutex *)
(* is free.  A call that fails changes nothing: it has no action.  Queue   *)
(* and CondvarQueue are Limited ones; the others do not look at limit.     *)
(***************************************************************************)
EXTENDS Integers, Sequences, FiniteSets

CONSTANTS
  Threads, NoThread,      \* NoThread holds a mutex that is free
  Elements, Nothing,      \* the values, and what is in a fresh slot
  Capacity,               \* limit, arr_size_
  SizeRange,              \* the number of values of std::size_t
  Containers              \* the types to look at

(* The last conjunct is what RingArray needs when head_ and tail_ wrap.     *)
ASSUME ConstantsAssumption ==
  /\ IsFiniteSet(Threads)
  /\ NoThread \notin Threads
  /\ Nothing \notin Elements
  /\ Capacity \in Nat \ {0}
  /\ SizeRange \in Nat
  /\ Containers \subseteq {"Queue", "RingArray", "CondvarQueue"}
  /\ SizeRange > Capacity /\ SizeRange % Capacity = 0

Slots == 0 .. Capacity - 1
Grabs == {"first", "moved"}   \* the ContainerGrab objects of a thread

VARIABLES
  container,                \* the type; no step changes it
  queue,                    \* queue_ of Queue and CondvarQueue
  arr, count, head, tail,   \* RingArray
  holder,                   \* the thread that has locked mtx_
  alive,                    \* the grabs of each thread that exist
  cont,                     \* those of them whose cont_ is not nullptr
  known,                    \* history: what its grab leaves a thread to expect
  pc,                       \* of each thread: asleep in wait_for, or woken
  got,                      \* dst of the latest successful pop
  lapsed                    \* history, as in CondvarRingArray

ringVars == <<arr, count, head, tail>>
grabVars == <<holder, alive, cont, known>>
waitVars == <<pc, lapsed>>
vars     == <<container, queue, ringVars, grabVars, waitVars, got>>

TypeOK ==
  /\ container \in Containers
  /\ queue \in Seq(Elements) /\ Len(queue) <= Capacity
  /\ arr \in [Slots -> Elements \cup {Nothing}]
  /\ count \in 0 .. Capacity
  /\ head \in 0 .. SizeRange - 1
  /\ tail \in 0 .. SizeRange - 1
  /\ holder \in Threads \cup {NoThread}
  /\ alive \in [Threads -> SUBSET Grabs]
  /\ cont \in [Threads -> SUBSET Grabs]
  /\ \A t \in Threads : cont[t] \subseteq alive[t]
  /\ known \in [Threads -> Seq(Elements)]
  /\ pc \in [Threads -> {"idle", "asleep", "woken"}]
  /\ got \in [Threads -> Elements \cup {Nothing}]
  /\ lapsed \in BOOLEAN

Init ==
  /\ container \in Containers
  /\ queue = << >>
  /\ arr = [s \in Slots |-> Nothing]
  /\ count = 0 /\ head = 0 /\ tail = 0
  /\ holder = NoThread
  /\ alive = [t \in Threads |-> {}]
  /\ cont = [t \in Threads |-> {}]
  /\ known = [t \in Threads |-> << >>]
  /\ pc = [t \in Threads |-> "idle"]
  /\ got = [t \in Threads |-> Nothing]
  /\ lapsed = FALSE

At(i)  == i % Capacity
Inc(i) == (i + 1) % SizeRange

(* What is in the container, the oldest first. *)
Content ==
  IF container = "RingArray"
  THEN [i \in 1 .. count |-> arr[At((tail + i - 1) % SizeRange)]]
  ELSE queue

Asleep == {t \in Threads : pc[t] = "asleep"}
Woken  == {t \in Threads : pc[t] = "woken"}
Debt(more) == lapsed' = (queue' # << >> /\ (lapsed \/ more))

-----------------------------------------------------------------------------
(* What the calls do with the mutex locked *)

QueuePush(e) ==
  /\ Len(queue) < Capacity
  /\ queue' = Append(queue, e)
  /\ UNCHANGED ringVars

QueuePop(t) ==
  /\ queue # << >>
  /\ got' = [got EXCEPT ![t] = Head(queue)]
  /\ queue' = Tail(queue)
  /\ UNCHANGED ringVars

HasRoomOffByOne == count <= Capacity   \* mutant
HasRoom == count # Capacity            \* count_ == arr_size_ fails

RingPut(e) ==
  /\ HasRoom
  /\ arr' = [arr EXCEPT ![At(head)] = e]
  /\ head' = Inc(head)
  /\ count' = count + 1
  /\ UNCHANGED <<queue, tail>>

OldestPreIncrement == arr[At(Inc(tail))]   \* mutant
Oldest == arr[At(tail)]                    \* at( tail_++ )

RingGet(t) ==
  /\ count > 0
  /\ got' = [got EXCEPT ![t] = Oldest]
  /\ tail' = Inc(tail)
  /\ count' = count - 1
  /\ UNCHANGED <<queue, arr, head>>

PutElement(e) == IF container = "RingArray" THEN RingPut(e) ELSE QueuePush(e)
GetElement(t) == IF container = "RingArray" THEN RingGet(t) ELSE QueuePop(t)

-----------------------------------------------------------------------------
(* push, pop and clear: the thread is in no other call, and has no grab *)

Locks(t) == holder = NoThread /\ pc[t] = "idle" /\ alive[t] = {}

(* notify_one: a waiter wants the mutex again, and gets it after push ends. *)
NotifyNobody == pc' = pc               \* mutant
NotifyOne ==
  IF Asleep = {} THEN pc' = pc
  ELSE \E t \in Asleep : pc' = [pc EXCEPT ![t] = "woken"]

Push(t, e) ==
  /\ Locks(t)
  /\ PutElement(e)
  /\ IF container = "CondvarQueue" THEN NotifyOne ELSE pc' = pc
  /\ Debt(FALSE)
  /\ UNCHANGED <<container, grabVars, got>>

Pop(t) ==
  /\ Locks(t)
  /\ GetElement(t)
  /\ Debt(FALSE)
  /\ UNCHANGED <<container, grabVars, pc>>

(* RingArray::clear does nothing for elements without a destructor.         *)
Clear(t) ==
  /\ container # "RingArray"
  /\ Locks(t)
  /\ queue' = << >>
  /\ Debt(FALSE)
  /\ UNCHANGED <<container, ringVars, grabVars, pc, got>>

-----------------------------------------------------------------------------
(* The timed pop of CondvarQueue: the mutex is free while it waits *)

Sleep(t) ==
  /\ queue = << >>
  /\ pc' = [pc EXCEPT ![t] = "asleep"]
  /\ UNCHANGED <<container, queue, ringVars, grabVars, lapsed, got>>

Wait(t) == container = "CondvarQueue" /\ Locks(t) /\ Sleep(t)

PopAgain(t) ==
  /\ pc[t] = "woken"
  /\ QueuePop(t)
  /\ pc' = [pc EXCEPT ![t] = "idle"]
  /\ Debt(FALSE)
  /\ UNCHANGED <<container, grabVars>>

WaitAgain(t) == pc[t] = "woken" /\ Sleep(t)

WakeSpuriously(t) ==
  /\ pc[t] = "asleep"
  /\ pc' = [pc EXCEPT ![t] = "woken"]
  /\ UNCHANGED <<container, queue, ringVars, grabVars, lapsed, got>>

(* cv_status::timeout, of a waiter that was notified maybe: return false.   *)
TimeOut(t) ==
  /\ pc[t] # "idle"
  /\ pc' = [pc EXCEPT ![t] = "idle"]
  /\ UNCHANGED <<container, queue, ringVars, grabVars, got>>
  /\ Debt(pc[t] = "woken")

-----------------------------------------------------------------------------
(* ContainerGrab *)

Grab(t) ==
  /\ container # "CondvarQueue"
  /\ Locks(t)
  /\ holder' = t
  /\ alive' = [alive EXCEPT ![t] = {"first"}]
  /\ cont' = [cont EXCEPT ![t] = {"first"}]
  /\ known' = [known EXCEPT ![t] = Content]
  /\ UNCHANGED <<container, queue, ringVars, waitVars, got>>

MovedBoth(t) == {"first", "moved"}     \* mutant: x.cont_ = nullptr forgotten
Moved(t)     == {"moved"}

(* ContainerGrab( ContainerGrab&& x ): x has no container any more. *)
MoveGrab(t) ==
  /\ cont[t] = {"first"}
  /\ alive' = [alive EXCEPT ![t] = Grabs]
  /\ cont' = [cont EXCEPT ![t] = Moved(t)]
  /\ UNCHANGED <<container, queue, ringVars, holder, known, waitVars, got>>

(* ~ContainerGrab: the one that has the container unlocks it. *)
DropGrab(t, g) ==
  /\ g \in alive[t]
  /\ alive' = [alive EXCEPT ![t] = @ \ {g}]
  /\ cont' = [cont EXCEPT ![t] = @ \ {g}]
  /\ holder' = IF g \in cont[t] THEN NoThread ELSE holder
  /\ known' = IF cont'[t] = {} THEN [known EXCEPT ![t] = << >>] ELSE known
  /\ UNCHANGED <<container, queue, ringVars, waitVars, got>>

GrabPush(t, e) ==
  /\ cont[t] # {}
  /\ PutElement(e)
  /\ known' = [known EXCEPT ![t] = Append(@, e)]
  /\ UNCHANGED <<container, holder, alive, cont, waitVars, got>>

GrabPop(t) ==
  /\ cont[t] # {}
  /\ GetElement(t)
  /\ known' = [known EXCEPT ![t] = Tail(@)]
  /\ UNCHANGED <<container, holder, alive, cont, waitVars>>

-----------------------------------------------------------------------------
Call(t)  == Pop(t) \/ Clear(t) \/ \E e \in Elements : Push(t, e)
Timed(t) == Wait(t) \/ PopAgain(t) \/ WaitAgain(t) \/ WakeSpuriously(t) \/ TimeOut(t)
Grabbed(t) ==
  \/ Grab(t) \/ MoveGrab(t) \/ GrabPop(t)
  \/ \E g \in Grabs : DropGrab(t, g)
  \/ \E e \in Elements : GrabPush(t, e)

Next == \E t \in Threads : Call(t) \/ Timed(t) \/ Grabbed(t)

Spec == Init /\ [][Next]_vars

-----------------------------------------------------------------------------
(* Properties *)

(* "multiple times under the same lock" (container_grab.h:9-10): as long as *)
(* a thread has the container in a grab, moved or not, what is in there     *)
(* changes by its own calls only.                                           *)
GrabUndisturbed == \A t \in Threads : cont[t] # {} => Content = known[t]

(* No lost wakeup (condvar_queue.h:36-38, 54-58): push notifies before it   *)
(* unlocks, so that for every element a waiter is awake as long as another  *)
(* one sleeps, although clear and untimed pops take elements in between.    *)
(* The exception is the timeout of a waiter that had been notified.         *)
WakeupsCover ==
  Asleep # {} /\ ~lapsed => Len(queue) <= Cardinality(Woken)

(* Each container is a bounded queue (mt_containers.h:39-51, 127-138,       *)
(* condvar_queue.h:33-72), whether its calls lock one by one or through a   *)
(* grab, unharmed by the laps and the wrap of the indexes of RingArray.     *)
Line == INSTANCE BoundedQueue WITH
  Consumers <- Threads,
  Clearable <- TRUE,
  queue <- Content

ImplementsBoundedQueue == Line!Spec
=============================================================================
