------------------------------- MODULE ScspSeq -------------------------------
(***************************************************************************)
(* SCSPSeq (scsp_seq.h): the seq of CountedSeq for one thread that         *)
(* produces and one that consumes, without any mutex.  What MCMPSeq and    *)
(* SCMPSeq add to it are the mutexes that make many threads one.           *)
(***************************************************************************)
EXTENDS Integers

CONSTANTS
  Elements, Nothing,      \* the values, and what is in a fresh slot
  Size,                   \* fQueueSize
  MaxCount,               \* std::numeric_limits< int64_t >::max()
  WriteLimit              \* bound, as in CountedSeq

VARIABLES
  seq,        \* fSeq
  reader,     \* fReader
  writer,     \* fWriter
  producing,  \* where the producer is
  consuming,  \* where the consumer is
  out         \* aOut of the call of consume under way

vars == <<seq, reader, writer, producing, consuming, out>>

Init ==
  /\ seq = [s \in 0 .. Size - 1 |-> Nothing]
  /\ reader = 0
  /\ writer = 0
  /\ producing = "idle"
  /\ consuming = "idle"
  /\ out = Nothing

Index(count) == count % Size
Inc(count)   == IF count = MaxCount THEN 0 ELSE count + 1
fill         == writer - reader

-----------------------------------------------------------------------------
FindRoom ==
  /\ producing = "idle"
  /\ writer < WriteLimit
  /\ fill < Size
  /\ producing' = "construct"
  /\ UNCHANGED <<seq, reader, writer, consuming, out>>

Construct(e) ==
  /\ producing = "construct"
  /\ seq' = [seq EXCEPT ![Index(writer)] = e]
  /\ producing' = "publish"
  /\ UNCHANGED <<reader, writer, consuming, out>>

Publish ==
  /\ producing = "publish"
  /\ writer' = Inc(writer)
  /\ producing' = "idle"
  /\ UNCHANGED <<seq, reader, consuming, out>>

FindElement ==
  /\ consuming = "idle"
  /\ fill > 0
  /\ consuming' = "move"
  /\ UNCHANGED <<seq, reader, writer, producing, out>>

MoveOut ==
  /\ consuming = "move"
  /\ out' = seq[Index(reader)]
  /\ consuming' = "advance"
  /\ UNCHANGED <<seq, reader, writer, producing>>

Advance ==
  /\ consuming = "advance"
  /\ reader' = Inc(reader)
  /\ out' = Nothing
  /\ consuming' = "idle"
  /\ UNCHANGED <<seq, writer, producing>>

emplace == FindRoom \/ (\E e \in Elements : Construct(e)) \/ Publish
consume == FindElement \/ MoveOut \/ Advance

Next == emplace \/ consume

Spec == Init /\ [][Next]_vars
=============================================================================
