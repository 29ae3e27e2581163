------------------------------ MODULE CountedSeq ------------------------------
(***************************************************************************)
(* MCMPSeq (mcmp_seq.h): an array of fQueueSize slots and two counters,    *)
(* of the elements read and of the elements written.  Writers share one    *)
(* mutex, readers another one; each side loads the counter of the other.   *)
(*                                                                         *)
(* SCMPSeq is the same code without the mutex of the consumers: this       *)
(* specification with one consumer.  SCSPSeq, without either, is ScspSeq.  *)
(***************************************************************************)
EXTENDS Integers, Sequences

CONSTANTS
  Producers, Consumers, Observers,  \* threads; an observer calls fillCount
  Elements, Nothing,                \* the values, and what is in a fresh slot
  NoThread,                         \* the holder of a mutex that is free
  Size,                             \* fQueueSize
  MaxCount,                         \* std::numeric_limits< int64_t >::max()
  WriteLimit                        \* bound: no element is written at this
                                    \* count; above MaxCount, no bound

ASSUME ConstantsAssumption ==
  /\ NoThread \notin Producers \cup Consumers
  /\ Producers \cap Consumers = {}
  /\ Observers \cap (Producers \cup Consumers) = {}
  /\ Size \in Nat \ {0}
  /\ MaxCount \in Nat
  /\ Size <= MaxCount
  /\ WriteLimit \in Nat

Threads == Producers \cup Consumers \cup Observers
Slots   == 0 .. Size - 1
Counts  == 0 .. MaxCount

VARIABLES
  seq,        \* fSeq
  reader,     \* fReader
  writer,     \* fWriter
  writeMutex, \* the holder of fWriteMutex
  readMutex,  \* the holder of fReadMutex
  pc,         \* where each thread is
  loaded,     \* the counter an observer loaded first
  answer,     \* what fillCount last returned to each observer
  out,        \* aOut of a consumer
  got         \* history: aOut of its latest successful call

vars == <<seq, reader, writer, writeMutex, readMutex, pc, loaded, answer, out, got>>

TypeOK ==
  /\ seq \in [Slots -> Elements \cup {Nothing}]
  /\ reader \in Counts
  /\ writer \in Counts
  /\ writer - reader \in 0 .. Size
  /\ writeMutex \in Producers \cup {NoThread}
  /\ readMutex \in Consumers \cup {NoThread}
  /\ pc \in [Threads -> {"idle", "construct", "publish", "move", "advance", "second"}]
  /\ loaded \in [Observers -> Counts]
  /\ answer \in [Observers -> -MaxCount .. MaxCount]
  /\ out \in [Consumers -> Elements \cup {Nothing}]
  /\ got \in [Consumers -> Elements \cup {Nothing}]

Init ==
  /\ seq = [s \in Slots |-> Nothing]
  /\ reader = 0
  /\ writer = 0
  /\ writeMutex = NoThread
  /\ readMutex = NoThread
  /\ pc = [t \in Threads |-> "idle"]
  /\ loaded = [o \in Observers |-> 0]
  /\ answer = [o \in Observers |-> 0]
  /\ out = [c \in Consumers |-> Nothing]
  /\ got = [c \in Consumers |-> Nothing]

Goto(t, label) == pc' = [pc EXCEPT ![t] = label]
Index(count)   == count % Size
Inc(count)     == IF count = MaxCount THEN 0 ELSE count + 1

-----------------------------------------------------------------------------
(* emplace *)

HasRoomOffByOne == writer - reader <= Size   \* mutant
HasRoom == writer - reader < Size

(* The mutex, and fill: fWriter only changes under this mutex, so that the  *)
(* load of fReader decides.  A full seq makes no step.                      *)
FindRoom(p) ==
  /\ pc[p] = "idle"
  /\ writeMutex = NoThread
  /\ writer < WriteLimit
  /\ HasRoom
  /\ writeMutex' = p
  /\ Goto(p, "construct")
  /\ UNCHANGED <<seq, reader, writer, readMutex, loaded, answer, out, got>>

Construct(p, e) ==
  /\ pc[p] = "construct"
  /\ seq' = [seq EXCEPT ![Index(writer)] = e]
  /\ Goto(p, "publish")
  /\ UNCHANGED <<reader, writer, writeMutex, readMutex, loaded, answer, out, got>>

Publish(p) ==
  /\ pc[p] = "publish"
  /\ writer' = Inc(writer)
  /\ writeMutex' = NoThread
  /\ Goto(p, "idle")
  /\ UNCHANGED <<seq, reader, readMutex, loaded, answer, out, got>>

-----------------------------------------------------------------------------
(* consume *)

MayReadUnlocked == TRUE                      \* mutant: the mutex forgotten
MayRead == readMutex = NoThread

(* The mutex, and fill: the load of fWriter decides. *)
FindElement(c) ==
  /\ pc[c] = "idle"
  /\ MayRead
  /\ writer - reader > 0
  /\ readMutex' = c
  /\ Goto(c, "move")
  /\ UNCHANGED <<seq, reader, writer, writeMutex, loaded, answer, out, got>>

MoveOut(c) ==
  /\ pc[c] = "move"
  /\ out' = [out EXCEPT ![c] = seq[Index(reader)]]
  /\ Goto(c, "advance")
  /\ UNCHANGED <<seq, reader, writer, writeMutex, readMutex, loaded, answer, got>>

(* fReader moves on after the data is out: the slot may be written again.   *)
Advance(c) ==
  /\ pc[c] = "advance"
  /\ reader' = Inc(reader)
  /\ got' = [got EXCEPT ![c] = out[c]]
  /\ out' = [out EXCEPT ![c] = Nothing]
  /\ readMutex' = NoThread
  /\ Goto(c, "idle")
  /\ UNCHANGED <<seq, writer, writeMutex, loaded, answer>>

-----------------------------------------------------------------------------
(* fillCount, isFull and isEmpty, by a thread without a mutex *)

WriterFirst == FALSE                         \* mutant

(* fill loads fReader, then fWriter.                                        *)
ReaderFirst == TRUE

LoadFirst(o) ==
  /\ pc[o] = "idle"
  /\ loaded' = [loaded EXCEPT ![o] = IF ReaderFirst THEN reader ELSE writer]
  /\ Goto(o, "second")
  /\ UNCHANGED <<seq, reader, writer, writeMutex, readMutex, answer, out, got>>

LoadSecond(o) ==
  /\ pc[o] = "second"
  /\ answer' = [answer EXCEPT ![o] =
                  IF ReaderFirst THEN writer - loaded[o] ELSE loaded[o] - reader]
  /\ loaded' = [loaded EXCEPT ![o] = 0]
  /\ Goto(o, "idle")
  /\ UNCHANGED <<seq, reader, writer, writeMutex, readMutex, out, got>>

Emplace(p) == FindRoom(p) \/ (\E e \in Elements : Construct(p, e)) \/ Publish(p)
Consume(c) == FindElement(c) \/ MoveOut(c) \/ Advance(c)
Fill(o)    == LoadFirst(o) \/ LoadSecond(o)

Next ==
  \/ \E p \in Producers : Emplace(p)
  \/ \E c \in Consumers : Consume(c)
  \/ \E o \in Observers : Fill(o)

Spec == Init /\ [][Next]_vars

-----------------------------------------------------------------------------
(* Properties *)

(* The seq is a bounded queue (mcmp_seq.h:29-73; test_mcmp_seq main.cpp     *)
(* checks it for one thread): an element is there from the store of fWriter *)
(* to the store of fReader, its slot is not written meanwhile, and elements *)
(* are consumed once each, in order.                                        *)
Line == INSTANCE BoundedQueue WITH
  Capacity <- Size,
  Clearable <- FALSE,
  queue <- [i \in 1 .. writer - reader |-> seq[Index(reader + i - 1)]]

ImplementsBoundedSeq == Line!Spec

(* The two mutexes make the threads of a side one (mcmp_seq.h:28-73): the   *)
(* seq does what SCSPSeq does, whose producer is the thread that holds      *)
(* fWriteMutex, and whose consumer the one that holds fReadMutex.           *)
Single == INSTANCE ScspSeq WITH
  producing <- IF writeMutex = NoThread THEN "idle" ELSE pc[writeMutex],
  consuming <- IF readMutex = NoThread THEN "idle" ELSE pc[readMutex],
  out       <- IF readMutex = NoThread THEN Nothing ELSE out[readMutex]

ImplementsScspSeq == Single!Spec

(* fillCount (mcmp_seq.h:87-98) takes its two counters at two moments, yet  *)
(* it is never below what is in the seq when it returns: isEmpty does not   *)
(* deny elements that are there, and no answer is negative.                 *)
FillNeverShort ==
  [][\A o \in Observers : LoadSecond(o) => answer'[o] >= writer - reader]_vars
=============================================================================
