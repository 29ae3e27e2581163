--------------------------- MODULE CountedSeqProofs ---------------------------
(***************************************************************************)
(* Theorems about CountedSeq, for any threads, elements, size and range of *)
(* the counters:                                                           *)
(*                                                                         *)
(*   SeqImplementsScspSeq   the mutexes make it a SCSPSeq                  *)
(*   TypeCorrect            the fill stays within the size                 *)
(*   FillIsNeverShort       fillCount is not below the fill at its return  *)
(*   SeqImplementsBoundedQueue   it is a first-in first-out queue          *)
(*                                                                         *)
(* All but the first need that no counter wraps: WriteLimit <= MaxCount.   *)
(***************************************************************************)
EXTENDS CountedSeq, SequenceTheorems, TLAPS

-----------------------------------------------------------------------------
(* Slots of counters.                                                       *)

(* The quotient and the remainder that % and \div stand for. *)
LEMMA DivMod ==
  ASSUME NEW a \in Nat, NEW n \in Nat \ {0}
  PROVE  /\ a \div n \in Nat
         /\ a % n \in 0 .. n - 1
         /\ a = n * (a \div n) + (a % n)
  BY Z3

(* Two multiples of n that are less than n apart are the same one. *)
LEMMA QuotientUnique ==
  ASSUME NEW n \in Nat \ {0}, NEW q \in Int, NEW r \in Int,
         n * q - n * r < n, n * r - n * q < n
  PROVE  q = r
<1>1. n * q - n * r = n * (q - r) /\ n * r - n * q = n * (r - q)
  OBVIOUS
<1>2. CASE q > r
  <2>1. n * (q - r) >= n
    BY <1>2
  <2> QED
    BY <1>1, <2>1
<1>3. CASE r > q
  <2>1. n * (r - q) >= n
    BY <1>3
  <2> QED
    BY <1>1, <2>1
<1> QED
  BY <1>2, <1>3

(* Different tickets less than n apart use different slots. *)
LEMMA SlotsDiffer ==
  ASSUME NEW i \in Nat, NEW j \in Nat, NEW n \in Nat \ {0}, i < j, j < i + n
  PROVE  i % n # j % n
<1> DEFINE q == i \div n
           r == j \div n
           d == i % n
           e == j % n
<1>1. q \in Nat /\ r \in Nat /\ d \in Nat /\ e \in Nat /\ i = n * q + d /\ j = n * r + e
  BY DivMod
<1> HIDE DEF q, r, d, e
<1>2. ASSUME d = e
      PROVE  FALSE
  <2>1. n * r - n * q = j - i /\ n * q - n * r = i - j
    BY <1>1, <1>2
  <2>2. q = r
    BY <1>1, <2>1, QuotientUnique
  <2> QED
    BY <1>1, <1>2, <2>2
<1> QED
  BY <1>2 DEF d, e

-----------------------------------------------------------------------------
(* Mutual exclusion *)

Labels == {"idle", "construct", "publish", "move", "advance", "second"}

(* A thread of a side is busy exactly as long as it has the mutex of the    *)
(* side, and aOut is empty but between the two steps of consume.            *)
Exclusive ==
  /\ writeMutex \in Producers \cup {NoThread}
  /\ readMutex \in Consumers \cup {NoThread}
  /\ pc \in [Threads -> Labels]
  /\ reader \in Counts /\ writer \in Counts
  /\ seq \in [Slots -> Elements \cup {Nothing}]
  /\ out \in [Consumers -> Elements \cup {Nothing}]
  /\ \A p \in Producers : /\ pc[p] \in {"idle", "construct", "publish"}
                          /\ pc[p] # "idle" <=> writeMutex = p
  /\ \A c \in Consumers : /\ pc[c] \in {"idle", "move", "advance"}
                          /\ pc[c] # "idle" <=> readMutex = c
                          /\ pc[c] # "advance" => out[c] = Nothing
  /\ \A o \in Observers : pc[o] \in {"idle", "second"}

LEMMA InitExclusive == Init => Exclusive
  BY ConstantsAssumption DEF Init, Exclusive, Labels, Threads, Counts

LEMMA IndexInSlots ==
  ASSUME NEW n \in Nat
  PROVE  Index(n) \in Slots
<1>1. Size \in Nat \ {0}
  BY ConstantsAssumption
<1>2. n % Size \in 0 .. Size - 1
  BY <1>1, Z3
<1> QED
  BY <1>2 DEF Index, Slots

LEMMA IncInCounts ==
  ASSUME NEW n \in Counts
  PROVE  Inc(n) \in Counts
  BY ConstantsAssumption DEF Inc, Counts

LEMMA NextExclusive ==
  ASSUME Exclusive, [Next]_vars
  PROVE  Exclusive'
<1> USE ConstantsAssumption DEF Exclusive, Labels, Threads, Goto
<1>1. ASSUME NEW p \in Producers, FindRoom(p)
      PROVE  Exclusive'
  BY <1>1 DEF FindRoom
<1>2. ASSUME NEW p \in Producers, NEW e \in Elements, Construct(p, e)
      PROVE  Exclusive'
  BY <1>2 DEF Construct
<1>3. ASSUME NEW p \in Producers, Publish(p)
      PROVE  Exclusive'
  <2>1. writer' \in Counts
    BY <1>3, IncInCounts DEF Publish
  <2> QED
    BY <1>3, <2>1 DEF Publish
<1>4. ASSUME NEW c \in Consumers, FindElement(c)
      PROVE  Exclusive'
  BY <1>4 DEF FindElement, MayRead
<1>5. ASSUME NEW c \in Consumers, MoveOut(c)
      PROVE  Exclusive'
  <2>1. seq[Index(reader)] \in Elements \cup {Nothing}
    <3>1. reader \in Nat
      BY DEF Counts
    <3> QED
      BY <3>1, IndexInSlots
  <2> QED
    BY <1>5, <2>1 DEF MoveOut
<1>6. ASSUME NEW c \in Consumers, Advance(c)
      PROVE  Exclusive'
  <2>1. reader' \in Counts
    BY <1>6, IncInCounts DEF Advance
  <2> QED
    BY <1>6, <2>1 DEF Advance
<1>7. ASSUME NEW o \in Observers, LoadFirst(o) \/ LoadSecond(o)
      PROVE  Exclusive'
  BY <1>7 DEF LoadFirst, LoadSecond
<1>8. ASSUME UNCHANGED vars
      PROVE  Exclusive'
  BY <1>8 DEF vars
<1> QED
  BY <1>1, <1>2, <1>3, <1>4, <1>5, <1>6, <1>7, <1>8 DEF Next, Emplace, Consume, Fill

-----------------------------------------------------------------------------
(* Refinement *)

(* Where the abstract producer and consumer are, in either direction. *)
LEMMA HolderIsBusy ==
  ASSUME Exclusive
  PROVE  /\ \A p \in Producers : /\ p # NoThread
                                /\ pc[p] # "idle" => writeMutex = p
         /\ \A c \in Consumers : /\ c # NoThread
                                /\ pc[c] # "idle" => readMutex = c
  BY ConstantsAssumption DEF Exclusive

LEMMA InitRefines == Init => Single!Init
  BY DEF Init, Single!Init, Slots

LEMMA EmplaceRefines ==
  ASSUME Exclusive, NEW p \in Producers, Emplace(p)
  PROVE  Single!emplace
<1> DEFINE consuming == IF readMutex = NoThread THEN "idle" ELSE pc[readMutex]
           taken     == IF readMutex = NoThread THEN Nothing ELSE out[readMutex]
<1> USE ConstantsAssumption DEF Exclusive, Threads, Goto
<1>1. ASSUME UNCHANGED <<readMutex, out>>, \A c \in Consumers : pc'[c] = pc[c]
      PROVE  UNCHANGED <<consuming, taken>>
  BY <1>1
<1>2. ASSUME FindRoom(p)
      PROVE  Single!FindRoom
  <2>1. UNCHANGED <<consuming, taken>>
    BY <1>1, <1>2 DEF FindRoom
  <2> QED
    BY <1>2, <2>1 DEF FindRoom, HasRoom, Single!FindRoom, Single!fill
<1>3. ASSUME NEW e \in Elements, Construct(p, e)
      PROVE  Single!Construct(e)
  <2>1. UNCHANGED <<consuming, taken>>
    BY <1>1, <1>3 DEF Construct
  <2>2. writeMutex = p
    BY <1>3, HolderIsBusy DEF Construct
  <2> QED
    BY <1>3, <2>1, <2>2 DEF Construct, Index, Single!Construct, Single!Index
<1>4. ASSUME Publish(p)
      PROVE  Single!Publish
  <2>1. UNCHANGED <<consuming, taken>>
    BY <1>1, <1>4 DEF Publish
  <2>2. writeMutex = p
    BY <1>4, HolderIsBusy DEF Publish
  <2> QED
    BY <1>4, <2>1, <2>2 DEF Publish, Inc, Single!Publish, Single!Inc
<1> QED
  BY <1>2, <1>3, <1>4 DEF Emplace, Single!emplace

LEMMA ConsumeRefines ==
  ASSUME Exclusive, NEW c \in Consumers, Consume(c)
  PROVE  Single!consume
<1> DEFINE producing == IF writeMutex = NoThread THEN "idle" ELSE pc[writeMutex]
<1> USE ConstantsAssumption DEF Exclusive, Threads, Goto
<1>1. ASSUME UNCHANGED writeMutex, \A p \in Producers : pc'[p] = pc[p]
      PROVE  UNCHANGED producing
  BY <1>1
<1>2. ASSUME FindElement(c)
      PROVE  Single!FindElement
  <2>1. UNCHANGED producing
    BY <1>1, <1>2 DEF FindElement
  <2> QED
    BY <1>2, <2>1 DEF FindElement, MayRead, Single!FindElement, Single!fill
<1>3. ASSUME MoveOut(c)
      PROVE  Single!MoveOut
  <2>1. UNCHANGED producing
    BY <1>1, <1>3 DEF MoveOut
  <2>2. readMutex = c
    BY <1>3, HolderIsBusy DEF MoveOut
  <2> QED
    BY <1>3, <2>1, <2>2 DEF MoveOut, Index, Single!MoveOut, Single!Index
<1>4. ASSUME Advance(c)
      PROVE  Single!Advance
  <2>1. UNCHANGED producing
    BY <1>1, <1>4 DEF Advance
  <2>2. readMutex = c
    BY <1>4, HolderIsBusy DEF Advance
  <2> QED
    BY <1>4, <2>1, <2>2 DEF Advance, Inc, Single!Advance, Single!Inc
<1> QED
  BY <1>2, <1>3, <1>4 DEF Consume, Single!consume

LEMMA NextRefines ==
  ASSUME Exclusive, [Next]_vars
  PROVE  [Single!Next]_(Single!vars)
<1>1. ASSUME NEW o \in Observers, Fill(o)
      PROVE  UNCHANGED Single!vars
  <2>1. UNCHANGED <<seq, reader, writer, writeMutex, readMutex, out>>
    BY <1>1 DEF Fill, LoadFirst, LoadSecond
  <2>2. \A t \in Producers \cup Consumers : pc'[t] = pc[t]
    BY <1>1, ConstantsAssumption DEF Fill, LoadFirst, LoadSecond, Goto, Exclusive, Threads
  <2> QED
    BY <2>1, <2>2 DEF Single!vars, Exclusive
<1>2. ASSUME UNCHANGED vars
      PROVE  UNCHANGED Single!vars
  BY <1>2 DEF vars, Single!vars
<1> QED
  BY <1>1, <1>2, EmplaceRefines, ConsumeRefines DEF Next, Single!Next

(* Many threads behind the two mutexes do what one producer and one         *)
(* consumer do without them (mcmp_seq.h:28-73, scsp_seq.h:29-69), also      *)
(* where the counters wrap.                                                 *)
THEOREM SeqImplementsScspSeq == Spec => ImplementsScspSeq
<1>1. Exclusive /\ [Next]_vars => Exclusive' /\ [Single!Next]_(Single!vars)
  BY NextExclusive, NextRefines
<1> QED
  BY <1>1, InitExclusive, InitRefines, PTL DEF Spec, ImplementsScspSeq, Single!Spec

-----------------------------------------------------------------------------
(* The fill *)

NoWrap == WriteLimit <= MaxCount

(* A producer inside has a slot that is free, and a consumer inside an      *)
(* element that is there: the other side can only add to either.            *)
Filled ==
  /\ Exclusive
  /\ loaded \in [Observers -> Counts]
  /\ answer \in [Observers -> -MaxCount .. MaxCount]
  /\ got \in [Consumers -> Elements \cup {Nothing}]
  /\ reader <= writer /\ writer - reader <= Size /\ writer <= WriteLimit
  /\ \A p \in Producers : pc[p] # "idle" => /\ writer - reader < Size
                                            /\ writer < WriteLimit
  /\ \A c \in Consumers : pc[c] # "idle" => reader < writer
  /\ \A o \in Observers : loaded[o] <= reader

LEMMA InitFilled == NoWrap /\ Init => Filled
  BY InitExclusive, ConstantsAssumption DEF NoWrap, Init, Filled, Counts, Threads

(* No counter is at its end, so each of them just counts. *)
LEMMA IncAdds ==
  ASSUME NEW n \in Nat, n < MaxCount
  PROVE  Inc(n) = n + 1
  BY ConstantsAssumption DEF Inc

LEMMA NextFilled ==
  ASSUME NoWrap, Filled, [Next]_vars
  PROVE  Filled'
<1> USE ConstantsAssumption DEF NoWrap, Filled, Exclusive, Labels, Threads, Counts, Goto
<1>0. Exclusive'
  BY NextExclusive
<1>1. ASSUME NEW p \in Producers, FindRoom(p)
      PROVE  Filled'
  BY <1>0, <1>1 DEF FindRoom, HasRoom
<1>2. ASSUME NEW p \in Producers, NEW e \in Elements, Construct(p, e)
      PROVE  Filled'
  BY <1>0, <1>2 DEF Construct
<1>3. ASSUME NEW p \in Producers, Publish(p)
      PROVE  Filled'
  <2>1. writer' = writer + 1 /\ reader' = reader
    BY <1>3, IncAdds DEF Publish
  <2>2. \A q \in Producers : pc'[q] = "idle"
    BY <1>3 DEF Publish
  <2> QED
    BY <1>0, <1>3, <2>1, <2>2 DEF Publish
<1>4. ASSUME NEW c \in Consumers, FindElement(c)
      PROVE  Filled'
  BY <1>0, <1>4 DEF FindElement, MayRead
<1>5. ASSUME NEW c \in Consumers, MoveOut(c)
      PROVE  Filled'
  BY <1>0, <1>5 DEF MoveOut
<1>6. ASSUME NEW c \in Consumers, Advance(c)
      PROVE  Filled'
  <2>1. reader' = reader + 1 /\ writer' = writer
    BY <1>6, IncAdds DEF Advance
  <2>2. \A d \in Consumers : pc'[d] = "idle"
    BY <1>6 DEF Advance
  <2>3. got' \in [Consumers -> Elements \cup {Nothing}]
    BY <1>6 DEF Advance
  <2> QED
    BY <1>0, <1>6, <2>1, <2>2, <2>3 DEF Advance
<1>7. ASSUME NEW o \in Observers, LoadFirst(o)
      PROVE  Filled'
  BY <1>0, <1>7 DEF LoadFirst, ReaderFirst
<1>8. ASSUME NEW o \in Observers, LoadSecond(o)
      PROVE  Filled'
  BY <1>0, <1>8 DEF LoadSecond, ReaderFirst
<1>9. ASSUME UNCHANGED vars
      PROVE  Filled'
  BY <1>0, <1>9 DEF vars
<1> QED
  BY <1>1, <1>2, <1>3, <1>4, <1>5, <1>6, <1>7, <1>8, <1>9
  DEF Next, Emplace, Consume, Fill

LEMMA FilledAlways == NoWrap => (Spec => []Filled)
<1>1. NoWrap => NoWrap'
  BY DEF NoWrap
<1> QED
  BY <1>1, InitFilled, NextFilled, PTL DEF Spec

(* Below the largest count (mcmp_seq.h:28-50) no interleaving of the two    *)
(* sides, each with a mutex of its own, brings the fill under 0 or over the *)
(* size, though neither side holds the other's counter still.               *)
THEOREM TypeCorrect == NoWrap => (Spec => []TypeOK)
<1>1. Filled => TypeOK
  BY ConstantsAssumption DEF Filled, Exclusive, Labels, TypeOK, Counts
<1> QED
  BY <1>1, FilledAlways, PTL

(* fillCount (mcmp_seq.h:87-98) never returns less than what is in the seq  *)
(* at that moment, whatever happens between its two loads.                  *)
THEOREM FillIsNeverShort == NoWrap => (Spec => FillNeverShort)
<1>1. ASSUME Filled, NEW o \in Observers, LoadSecond(o)
      PROVE  answer'[o] >= writer - reader
  BY <1>1 DEF LoadSecond, ReaderFirst, Filled, Exclusive, Counts
<1>2. Filled /\ [Next]_vars =>
        [\A o \in Observers : LoadSecond(o) => answer'[o] >= writer - reader]_vars
  BY <1>1
<1> QED
  BY <1>2, FilledAlways, PTL DEF Spec, FillNeverShort

-----------------------------------------------------------------------------
(* The queue *)

(* The elements of s at the counts from a on. *)
Slice(s, a, n) == [i \in 1 .. n |-> s[Index(a + i - 1)]]
Waiting        == Slice(seq, reader, writer - reader)

Arrays == [Slots -> Elements \cup {Nothing}]

LEMMA SliceFacts ==
  ASSUME NEW s \in Arrays, NEW a \in Nat, NEW n \in Nat
  PROVE  /\ Slice(s, a, n) \in Seq(Elements \cup {Nothing})
         /\ Len(Slice(s, a, n)) = n
         /\ \A i \in 1 .. n : Slice(s, a, n)[i] = s[Index(a + i - 1)]
<1>1. ASSUME NEW i \in 1 .. n
      PROVE  s[Index(a + i - 1)] \in Elements \cup {Nothing}
  <2>1. a + i - 1 \in Nat
    OBVIOUS
  <2>2. Index(a + i - 1) \in Slots
    BY <2>1, IndexInSlots
  <2> QED
    BY <2>2 DEF Arrays
<1>2. Slice(s, a, n) \in [1 .. n -> Elements \cup {Nothing}]
  BY <1>1 DEF Slice
<1>3. Slice(s, a, n) \in Seq(Elements \cup {Nothing}) /\ Len(Slice(s, a, n)) = n
  BY <1>2
<1> QED
  BY <1>3 DEF Slice

LEMMA SliceAppend ==
  ASSUME NEW s \in Arrays, NEW a \in Nat, NEW n \in Nat
  PROVE  Slice(s, a, n + 1) = Append(Slice(s, a, n), s[Index(a + n)])
<1> DEFINE e == s[Index(a + n)]
           w == Slice(s, a, n)
           v == Slice(s, a, n + 1)
<1>1. /\ w \in Seq(Elements \cup {Nothing}) /\ Len(w) = n
      /\ \A i \in 1 .. n : w[i] = s[Index(a + i - 1)]
  BY SliceFacts
<1>2. /\ v \in Seq(Elements \cup {Nothing}) /\ Len(v) = n + 1
      /\ \A i \in 1 .. n + 1 : v[i] = s[Index(a + i - 1)]
  <2>1. n + 1 \in Nat
    OBVIOUS
  <2> QED
    BY <2>1, SliceFacts
<1>3. e \in Elements \cup {Nothing}
  <2>1. Index(a + n) \in Slots
    BY IndexInSlots
  <2> QED
    BY <2>1 DEF Arrays
<1>4. v[n + 1] = e
  <2>1. a + (n + 1) - 1 = a + n
    OBVIOUS
  <2> QED
    BY <1>2, <2>1
<1> HIDE DEF e, w, v
<1>5. /\ Append(w, e) \in Seq(Elements \cup {Nothing}) /\ Len(Append(w, e)) = n + 1
      /\ \A i \in 1 .. n : Append(w, e)[i] = w[i]
      /\ Append(w, e)[n + 1] = e
  BY <1>1, <1>3, AppendProperties
<1>6. \A i \in 1 .. n + 1 : i \in 1 .. n \/ i = n + 1
  OBVIOUS
<1>7. \A i \in 1 .. n + 1 : v[i] = Append(w, e)[i]
  BY <1>1, <1>2, <1>4, <1>5, <1>6
<1>8. v = Append(w, e)
  BY <1>2, <1>5, <1>7, SeqEqual
<1> QED
  BY <1>8 DEF e, w, v

LEMMA SliceTail ==
  ASSUME NEW s \in Arrays, NEW a \in Nat, NEW n \in Nat
  PROVE  /\ Slice(s, a, n + 1) # << >>
         /\ Head(Slice(s, a, n + 1)) = s[Index(a)]
         /\ Tail(Slice(s, a, n + 1)) = Slice(s, a + 1, n)
<1> DEFINE v == Slice(s, a, n + 1)
           w == Slice(s, a + 1, n)
<1>1. /\ w \in Seq(Elements \cup {Nothing}) /\ Len(w) = n
      /\ \A i \in 1 .. n : w[i] = s[Index((a + 1) + i - 1)]
  <2>1. a + 1 \in Nat
    OBVIOUS
  <2> QED
    BY <2>1, SliceFacts
<1>2. /\ v \in Seq(Elements \cup {Nothing}) /\ Len(v) = n + 1
      /\ \A i \in 1 .. n + 1 : v[i] = s[Index(a + i - 1)]
  <2>1. n + 1 \in Nat
    OBVIOUS
  <2> QED
    BY <2>1, SliceFacts
<1>3. v[1] = s[Index(a)]
  <2>1. a + 1 - 1 = a /\ 1 \in 1 .. n + 1
    OBVIOUS
  <2> QED
    BY <1>2, <2>1
<1> HIDE DEF v, w
<1>4. v # << >> /\ Head(v) = v[1]
  BY <1>2
<1>5. /\ Tail(v) \in Seq(Elements \cup {Nothing}) /\ Len(Tail(v)) = n
      /\ \A i \in 1 .. n : Tail(v)[i] = v[i + 1]
  BY <1>2, <1>4, HeadTailProperties
<1>6. \A i \in 1 .. n : Tail(v)[i] = w[i]
  <2>1. \A i \in 1 .. n : i + 1 \in 1 .. n + 1 /\ a + (i + 1) - 1 = (a + 1) + i - 1
    OBVIOUS
  <2> QED
    BY <1>1, <1>2, <1>5, <2>1
<1>7. Tail(v) = w
  BY <1>1, <1>5, <1>6, SeqEqual
<1> QED
  BY <1>3, <1>4, <1>7 DEF v, w

(* What a producer is about to publish, and what a consumer has moved out.  *)
Queued ==
  /\ Filled
  /\ \A p \in Producers : pc[p] = "publish" => seq[Index(writer)] \in Elements
  /\ \A c \in Consumers : pc[c] = "advance" => out[c] = seq[Index(reader)]

LEMMA FillFacts ==
  ASSUME Filled
  PROVE  /\ reader \in Nat /\ writer \in Nat /\ reader <= writer
         /\ writer - reader \in Nat /\ writer - reader <= Size
         /\ Size \in Nat \ {0}
         /\ seq \in Arrays
  BY ConstantsAssumption DEF Filled, Exclusive, Counts, Arrays

(* A producer writes to a slot that no element in the seq has.              *)
LEMMA ConstructKeeps ==
  ASSUME Filled, NEW p \in Producers, NEW e \in Elements, Construct(p, e)
  PROVE  /\ Waiting' = Waiting
         /\ \A c \in Consumers : pc[c] = "advance" => seq'[Index(reader)] = seq[Index(reader)]
<1>0. /\ reader \in Nat /\ writer \in Nat /\ reader <= writer /\ Size \in Nat \ {0}
      /\ writer - reader \in Nat
      /\ seq \in Arrays
  BY FillFacts
<1>1. /\ reader' = reader /\ writer' = writer
      /\ seq' = [seq EXCEPT ![Index(writer)] = e]
      /\ writer - reader < Size
  BY DEF Construct, Filled
<1>2. ASSUME NEW n \in Nat, reader <= n, n < writer
      PROVE  seq'[Index(n)] = seq[Index(n)]
  <2>1. n % Size # writer % Size
    <3>1. writer < n + Size
      BY <1>0, <1>1, <1>2
    <3> QED
      BY <1>0, <1>2, <3>1, SlotsDiffer
  <2>2. Index(n) \in Slots /\ Index(n) # Index(writer)
    BY <2>1, IndexInSlots DEF Index
  <2> QED
    BY <1>0, <1>1, <2>2 DEF Arrays
<1>3. Waiting' = Waiting
  <2>1. ASSUME NEW i \in 1 .. writer - reader
        PROVE  seq'[Index(reader + i - 1)] = seq[Index(reader + i - 1)]
    <3>1. reader + i - 1 \in Nat /\ reader <= reader + i - 1 /\ reader + i - 1 < writer
      BY <1>0
    <3> QED
      BY <1>2, <3>1
  <2>2. Waiting' = [i \in 1 .. writer - reader |-> seq'[Index(reader + i - 1)]]
    BY <1>1 DEF Waiting, Slice, Index
  <2> QED
    BY <2>1, <2>2 DEF Waiting, Slice
<1>4. ASSUME NEW c \in Consumers, pc[c] = "advance"
      PROVE  seq'[Index(reader)] = seq[Index(reader)]
  <2>1. reader < writer
    BY <1>4 DEF Filled
  <2> QED
    BY <1>0, <1>2, <2>1
<1> QED
  BY <1>3, <1>4

LEMMA InitQueued == NoWrap /\ Init => Queued
<1> SUFFICES ASSUME NoWrap, Init
             PROVE  Queued
  OBVIOUS
<1>1. \A t \in Producers \cup Consumers : pc[t] = "idle"
  BY DEF Init, Threads
<1> QED
  BY <1>1, InitFilled DEF Queued

LEMMA NextQueued ==
  ASSUME NoWrap, Queued, [Next]_vars
  PROVE  Queued'
<1> USE ConstantsAssumption DEF Queued, Goto
<1>0. Filled /\ Filled'
  BY NextFilled
<1>t. /\ pc \in [Threads -> Labels]
      /\ Producers \subseteq Threads /\ Consumers \subseteq Threads
      /\ Observers \subseteq Threads
      /\ out \in [Consumers -> Elements \cup {Nothing}]
  BY <1>0 DEF Filled, Exclusive, Threads
<1>1. ASSUME NEW p \in Producers, FindRoom(p)
      PROVE  Queued'
  BY <1>0, <1>t, <1>1 DEF FindRoom, Index
<1>2. ASSUME NEW p \in Producers, NEW e \in Elements, Construct(p, e)
      PROVE  Queued'
  <2>1. seq'[Index(writer)] = e
    <3>1. Index(writer) \in Slots /\ seq \in [Slots -> Elements \cup {Nothing}]
      BY <1>0, FillFacts, IndexInSlots DEF Arrays
    <3> QED
      BY <1>2, <3>1 DEF Construct
  <2>2. UNCHANGED <<reader, writer, out>> /\ \A c \in Consumers : pc'[c] = pc[c]
    BY <1>t, <1>2 DEF Construct
  <2> QED
    BY <1>0, <1>2, <2>1, <2>2, ConstructKeeps DEF Index
<1>3. ASSUME NEW p \in Producers, Publish(p)
      PROVE  Queued'
  <2>1. \A q \in Producers : pc'[q] = "idle"
    BY <1>0, <1>t, <1>3 DEF Publish, Filled, Exclusive
  <2>2. UNCHANGED <<seq, reader, out>> /\ \A c \in Consumers : pc'[c] = pc[c]
    BY <1>t, <1>3 DEF Publish
  <2> QED
    BY <1>0, <2>1, <2>2 DEF Index
<1>4. ASSUME NEW c \in Consumers, FindElement(c)
      PROVE  Queued'
  BY <1>0, <1>t, <1>4 DEF FindElement, Index
<1>5. ASSUME NEW c \in Consumers, MoveOut(c)
      PROVE  Queued'
  BY <1>0, <1>t, <1>5 DEF MoveOut, Index
<1>6. ASSUME NEW c \in Consumers, Advance(c)
      PROVE  Queued'
  <2>1. \A d \in Consumers : pc'[d] = "idle"
    BY <1>0, <1>t, <1>6 DEF Advance, Filled, Exclusive
  <2>2. UNCHANGED <<seq, writer>> /\ \A p \in Producers : pc'[p] = pc[p]
    BY <1>t, <1>6 DEF Advance
  <2> QED
    BY <1>0, <2>1, <2>2 DEF Index
<1>7. ASSUME NEW o \in Observers, LoadFirst(o) \/ LoadSecond(o)
      PROVE  Queued'
  BY <1>0, <1>t, <1>7 DEF LoadFirst, LoadSecond, Index
<1>8. ASSUME UNCHANGED vars
      PROVE  Queued'
  BY <1>0, <1>8 DEF vars, Index
<1> QED
  BY <1>1, <1>2, <1>3, <1>4, <1>5, <1>6, <1>7, <1>8 DEF Next, Emplace, Consume, Fill

(* The store of fWriter appends the element in its slot.                    *)
LEMMA PublishPuts ==
  ASSUME NoWrap, Queued, NEW p \in Producers, Publish(p)
  PROVE  Line!Put(seq[Index(writer)]) /\ seq[Index(writer)] \in Elements
<1> DEFINE n == writer - reader
<1>1. reader \in Nat /\ writer \in Nat /\ n \in Nat /\ seq \in Arrays
  BY FillFacts DEF Queued
<1>2. n < Size /\ writer < WriteLimit /\ seq[Index(writer)] \in Elements
  BY DEF Queued, Filled, Publish
<1>3. reader' = reader /\ writer' = writer + 1 /\ UNCHANGED <<seq, got>>
  BY <1>1, <1>2, IncAdds, ConstantsAssumption DEF Publish, NoWrap
<1>4. Waiting' = Slice(seq, reader, n + 1)
  <2>1. writer' - reader' = n + 1
    BY <1>1, <1>3
  <2> QED
    BY <1>3, <2>1 DEF Waiting, Slice, Index
<1>5. Waiting' = Append(Waiting, seq[Index(writer)])
  <2>1. reader + n = writer
    BY <1>1
  <2> QED
    BY <1>1, <1>4, <2>1, SliceAppend DEF Waiting
<1>6. Len(Waiting) < Size
  BY <1>1, <1>2, SliceFacts DEF Waiting
<1> QED
  BY <1>2, <1>3, <1>5, <1>6 DEF Line!Put, Waiting, Slice

(* The store of fReader takes the oldest one, which is in aOut already.     *)
LEMMA AdvanceGets ==
  ASSUME NoWrap, Queued, NEW c \in Consumers, Advance(c)
  PROVE  Line!Get(c)
<1> DEFINE n == writer - reader - 1
<1>1. reader \in Nat /\ writer \in Nat /\ seq \in Arrays
  BY FillFacts DEF Queued
<1>2. reader < writer /\ writer <= WriteLimit /\ out[c] = seq[Index(reader)]
  BY DEF Queued, Filled, Advance
<1>3. /\ reader' = reader + 1 /\ UNCHANGED <<seq, writer>>
      /\ got' = [got EXCEPT ![c] = seq[Index(reader)]]
  BY <1>1, <1>2, IncAdds, ConstantsAssumption DEF Advance, NoWrap
<1>4. n \in Nat /\ writer - reader = n + 1 /\ writer' - reader' = n
  BY <1>1, <1>2, <1>3
<1> HIDE DEF n
<1>5. Waiting' = Slice(seq, reader + 1, n)
  BY <1>3, <1>4 DEF Waiting, Slice, Index
<1>6. /\ Waiting # << >> /\ Head(Waiting) = seq[Index(reader)]
      /\ Tail(Waiting) = Slice(seq, reader + 1, n)
  <2>1. Waiting = Slice(seq, reader, n + 1)
    BY <1>4 DEF Waiting
  <2> QED
    BY <1>1, <1>4, <2>1, SliceTail
<1> QED
  BY <1>3, <1>5, <1>6 DEF Line!Get, Waiting, Slice

LEMMA InitLine == Init => Line!Init
  BY DEF Init, Line!Init

LEMMA NextLine ==
  ASSUME NoWrap, Queued, [Next]_vars
  PROVE  [Line!Next]_(Line!vars)
<1>1. ASSUME NEW p \in Producers, Publish(p)
      PROVE  Line!Next
  BY <1>1, PublishPuts DEF Line!Next
<1>2. ASSUME NEW c \in Consumers, Advance(c)
      PROVE  Line!Next
  BY <1>2, AdvanceGets DEF Line!Next
<1>3. ASSUME Waiting' = Waiting, got' = got
      PROVE  UNCHANGED Line!vars
  BY <1>3 DEF Line!vars, Waiting, Slice
<1>4. ASSUME UNCHANGED <<seq, reader, writer, got>>
      PROVE  UNCHANGED Line!vars
  BY <1>3, <1>4 DEF Waiting, Slice, Index
<1>5. ASSUME NEW p \in Producers, NEW e \in Elements, Construct(p, e)
      PROVE  UNCHANGED Line!vars
  BY <1>3, <1>5, ConstructKeeps DEF Construct, Queued
<1>6. ASSUME NEW p \in Producers, FindRoom(p)
      PROVE  UNCHANGED Line!vars
  BY <1>4, <1>6 DEF FindRoom
<1>7. ASSUME NEW c \in Consumers, FindElement(c) \/ MoveOut(c)
      PROVE  UNCHANGED Line!vars
  BY <1>4, <1>7 DEF FindElement, MoveOut
<1>8. ASSUME NEW o \in Observers, LoadFirst(o) \/ LoadSecond(o)
      PROVE  UNCHANGED Line!vars
  BY <1>4, <1>8 DEF LoadFirst, LoadSecond
<1>9. ASSUME UNCHANGED vars
      PROVE  UNCHANGED Line!vars
  BY <1>4, <1>9 DEF vars
<1> QED
  BY <1>1, <1>2, <1>5, <1>6, <1>7, <1>8, <1>9 DEF Next, Emplace, Consume, Fill

(* Below the largest count the seq is a bounded queue (mcmp_seq.h:28-73):   *)
(* elements are consumed once each, in the order of the stores of fWriter,  *)
(* and no slot is written to while its element waits or is moved out.       *)
THEOREM SeqImplementsBoundedQueue == NoWrap => (Spec => ImplementsBoundedSeq)
<1>1. NoWrap /\ Queued /\ [Next]_vars => Queued' /\ [Line!Next]_(Line!vars)
  BY NextQueued, NextLine
<1>2. NoWrap => NoWrap'
  BY DEF NoWrap
<1> QED
  BY <1>1, <1>2, InitQueued, InitLine, PTL DEF Spec, ImplementsBoundedSeq, Line!Spec
=============================================================================
