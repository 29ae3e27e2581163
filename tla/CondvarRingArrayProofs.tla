----------------------- MODULE CondvarRingArrayProofs ------------------------
(***************************************************************************)
(* Theorems about CondvarRingArray, for any finite sets of threads, any    *)
(* elements, and any size that divides the range of std::size_t:           *)
(*                                                                         *)
(*   TypeCorrect              the counters keep their ranges and relation  *)
(*   WakeupsAreCovered        no wakeup is lost but by a timeout           *)
(*   RingImplementsBoundedQueue  a first-in first-out queue of capacity    *)
(*                            Size, through laps and wraps                 *)
(***************************************************************************)
EXTENDS CondvarRingArray, FiniteSetTheorems, SequenceTheorems, TLAPS

-----------------------------------------------------------------------------
(* Slots of counters that wrap at a multiple of the number of slots.        *)

(* The quotient and the remainder that % and \div stand for. *)
LEMMA DivMod ==
  ASSUME NEW a \in Nat, NEW n \in Nat \ {0}
  PROVE  /\ a \div n \in Nat
         /\ a % n \in 0 .. n - 1
         /\ a = n * (a \div n) + (a % n)
  BY Z3

(* Two multiples of n that are less than n apart are the same one. *)
LEMMA QuotientUnique ==
  ASSUME NEW n \in Nat \ {0}, NEW q \in Int, NEW r \in Int,
         n * q - n * r < n, n * r - n * q < n
  PROVE  q = r
<1>1. n * q - n * r = n * (q - r) /\ n * r - n * q = n * (r - q)
  OBVIOUS
<1>2. CASE q > r
  <2>1. n * (q - r) >= n
    BY <1>2
  <2> QED
    BY <1>1, <2>1
<1>3. CASE r > q
  <2>1. n * (r - q) >= n
    BY <1>3
  <2> QED
    BY <1>1, <2>1
<1> QED
  BY <1>2, <1>3

(* The slot of a ticket, and the lap it is in, when the counter wraps at a  *)
(* multiple m of the number n of slots.                                     *)
LEMMA SlotEquation ==
  ASSUME NEW i \in Nat, NEW n \in Nat \ {0}, NEW m \in Nat \ {0}, m % n = 0
  PROVE  \E k \in Int : i = n * k + ((i % m) % n)
<1> DEFINE t == m \div n
           q == i \div m
           r == i % m
           u == r \div n
           v == r % n
<1>1. t \in Nat /\ m = n * t
  BY DivMod
<1>2. q \in Nat /\ r \in Nat /\ i = m * q + r
  BY DivMod
<1>3. u \in Nat /\ v \in Nat /\ r = n * u + v
  BY <1>2, DivMod
<1> HIDE DEF t, q, r, u, v
<1>4. t * q \in Nat /\ (n * t) * q = n * (t * q)
  BY <1>1, <1>2
<1>5. n * (t * q) + n * u = n * (t * q + u)
  BY <1>3, <1>4
<1>6. i = n * (t * q + u) + v
  BY <1>1, <1>2, <1>3, <1>4, <1>5
<1>7. t * q + u \in Int
  BY <1>3, <1>4
<1> QED
  BY <1>6, <1>7 DEF v, r

LEMMA WrappedSlot ==
  ASSUME NEW i \in Nat, NEW n \in Nat \ {0}, NEW m \in Nat \ {0}
  PROVE  (i % m) % n \in 0 .. n - 1
  BY DivMod

(* Slots of tickets less than n apart differ. *)
LEMMA WrappedSlotsDiffer ==
  ASSUME NEW i \in Nat, NEW j \in Nat, NEW n \in Nat \ {0}, NEW m \in Nat \ {0},
         m % n = 0, i # j, i < j + n, j < i + n
  PROVE  (i % m) % n # (j % m) % n
<1> DEFINE v == (i % m) % n
           w == (j % m) % n
<1>1. v \in 0 .. n - 1 /\ w \in 0 .. n - 1
  BY WrappedSlot
<1>2. PICK k \in Int : i = n * k + v
  BY SlotEquation
<1>3. PICK l \in Int : j = n * l + w
  BY SlotEquation
<1> HIDE DEF v, w
<1>4. ASSUME v = w
      PROVE  FALSE
  <2>1. n * k - n * l = i - j /\ n * l - n * k = j - i
    BY <1>1, <1>2, <1>3, <1>4
  <2>2. k = l
    BY <2>1, QuotientUnique
  <2> QED
    BY <1>2, <1>3, <1>4, <2>2
<1> QED
  BY <1>4 DEF v, w

(* A sum may be reduced before the last term is added. *)
LEMMA ModAdd ==
  ASSUME NEW a \in Nat, NEW b \in Nat, NEW n \in Nat \ {0}
  PROVE  ((a % n) + b) % n = (a + b) % n
<1> DEFINE r == a % n
           v == (r + b) % n
           w == (a + b) % n
           q == a \div n
           u == (r + b) \div n
           l == (a + b) \div n
<1>1. q \in Nat /\ r \in Nat /\ a = n * q + r
  BY DivMod
<1>2. u \in Nat /\ v \in 0 .. n - 1 /\ r + b = n * u + v
  <2>1. r + b \in Nat
    BY <1>1
  <2> QED
    BY <2>1, DivMod
<1>3. l \in Nat /\ w \in 0 .. n - 1 /\ a + b = n * l + w
  <2>1. a + b \in Nat
    OBVIOUS
  <2> QED
    BY <2>1, DivMod
<1> HIDE DEF q, r, u, v, l, w
<1>4. n * (q + u) = n * q + n * u
  BY <1>1, <1>2
<1>5. n * (q + u) - n * l = w - v /\ n * l - n * (q + u) = v - w
  BY <1>1, <1>2, <1>3, <1>4
<1>6. q + u = l
  BY <1>1, <1>2, <1>3, <1>5, QuotientUnique
<1>7. v = w
  BY <1>2, <1>3, <1>5, <1>6
<1> QED
  BY <1>7 DEF v, w, r

(* Reducing twice is reducing once. *)
LEMMA ModSmall ==
  ASSUME NEW n \in Nat \ {0}, NEW a \in 0 .. n - 1
  PROVE  a % n = a
  BY Z3

-----------------------------------------------------------------------------
(* Types *)

LEMMA CounterFacts ==
  ASSUME TypeOK
  PROVE  /\ Size \in Nat \ {0} /\ SizeRange \in Nat \ {0} /\ SizeRange > Size
         /\ count \in Nat /\ head \in Nat /\ tail \in Nat
         /\ Slots = 0 .. Size - 1
         /\ At(head) \in Slots /\ At(tail) \in Slots
<1>1. /\ Size \in Nat \ {0} /\ SizeRange \in Nat \ {0} /\ SizeRange > Size
      /\ count \in Nat /\ head \in Nat /\ tail \in Nat
  BY ConstantsAssumption DEF TypeOK
<1>2. head % Size \in 0 .. Size - 1 /\ tail % Size \in 0 .. Size - 1
  BY <1>1, DivMod
<1> QED
  BY <1>1, <1>2 DEF Slots, At

(* One more element behind the others ...                                   *)
LEMMA HeadAdvances ==
  ASSUME TypeOK
  PROVE  /\ Inc(head) \in 0 .. SizeRange - 1
         /\ Inc(head) = (tail + (count + 1)) % SizeRange
<1>1. SizeRange \in Nat \ {0} /\ count \in Nat /\ head \in Nat /\ tail \in Nat
  BY CounterFacts
<1>2. head = (tail + count) % SizeRange
  BY DEF TypeOK
<1>3. tail + count \in Nat /\ 1 \in Nat /\ head + 1 \in Nat
  BY <1>1
<1>4. (((tail + count) % SizeRange) + 1) % SizeRange = ((tail + count) + 1) % SizeRange
  BY <1>1, <1>3, ModAdd
<1>5. (tail + count) + 1 = tail + (count + 1)
  BY <1>1
<1>6. (head + 1) % SizeRange \in 0 .. SizeRange - 1
  BY <1>1, <1>3, DivMod
<1> QED
  BY <1>2, <1>4, <1>5, <1>6 DEF Inc

(* ... and the k-th element from the second one on, seen from either end.   *)
LEMMA TailAdvances ==
  ASSUME TypeOK, NEW k \in Nat
  PROVE  /\ Inc(tail) \in 0 .. SizeRange - 1
         /\ (Inc(tail) + k) % SizeRange = (tail + (k + 1)) % SizeRange
<1>1. SizeRange \in Nat \ {0} /\ tail \in Nat
  BY CounterFacts
<1>2. tail + 1 \in Nat
  BY <1>1
<1>3. (((tail + 1) % SizeRange) + k) % SizeRange = ((tail + 1) + k) % SizeRange
  BY <1>1, <1>2, ModAdd
<1>4. (tail + 1) + k = tail + (k + 1)
  BY <1>1
<1>5. (tail + 1) % SizeRange \in 0 .. SizeRange - 1
  BY <1>1, <1>2, DivMod
<1> QED
  BY <1>3, <1>4, <1>5 DEF Inc

LEMMA InitTypes == Init => TypeOK
<1> SUFFICES ASSUME Init
             PROVE  TypeOK
  OBVIOUS
<1>1. Size \in Nat \ {0} /\ SizeRange \in Nat \ {0} /\ SizeRange > Size
  BY ConstantsAssumption
<1>2. 0 \in 0 .. SizeRange - 1
  BY <1>1
<1>3. 0 % SizeRange = 0
  BY <1>1, <1>2, ModSmall
<1>4. head = (tail + count) % SizeRange
  BY <1>3 DEF Init
<1>5. /\ count \in 0 .. Size /\ head \in 0 .. SizeRange - 1
      /\ tail \in 0 .. SizeRange - 1
  BY <1>1, <1>2 DEF Init
<1> QED
  BY <1>4, <1>5 DEF Init, TypeOK

LEMMA NextTypes == TypeOK /\ [Next]_vars => TypeOK'
<1> SUFFICES ASSUME TypeOK, [Next]_vars
             PROVE  TypeOK'
  OBVIOUS
<1>0. /\ Size \in Nat \ {0} /\ SizeRange \in Nat \ {0} /\ SizeRange > Size
      /\ count \in Nat /\ head \in Nat /\ tail \in Nat
      /\ At(head) \in Slots /\ At(tail) \in Slots
  BY CounterFacts
<1>1. ASSUME NEW p \in Producers, NEW e \in Elements, Push(p, e)
      PROVE  TypeOK'
  <2>1. count' \in 0 .. Size
    BY <1>0, <1>1 DEF Push, HasRoom, TypeOK
  <2>2. head' \in 0 .. SizeRange - 1 /\ head' = (tail' + count') % SizeRange
    BY <1>1, HeadAdvances DEF Push
  <2>3. arr' \in [Slots -> Elements \cup {Nothing}]
    BY <1>1 DEF Push, TypeOK
  <2>4. pc' \in [Producers \cup Consumers -> {"idle", "notify", "asleep", "woken"}]
    BY <1>1 DEF Push, Unlocked, Goto, TypeOK
  <2>5. /\ \A q \in Producers : pc'[q] \in {"idle", "notify"}
        /\ \A c \in Consumers : pc'[c] # "notify"
    BY <1>1, ConstantsAssumption DEF Push, Unlocked, Goto, TypeOK
  <2>6. lapsed' \in BOOLEAN
    BY <1>1 DEF Push, Debt
  <2> QED
    BY <1>1, <2>1, <2>2, <2>3, <2>4, <2>5, <2>6 DEF Push, TypeOK
<1>2. ASSUME NEW p \in Producers, NotifyOne(p)
      PROVE  TypeOK'
  BY <1>2, ConstantsAssumption DEF NotifyOne, Asleep, Goto, TypeOK
<1>3. ASSUME NEW c \in Consumers, GetElement(c)
      PROVE  TypeOK'
  <2>1. count' \in 0 .. Size /\ count' \in Nat /\ count = count' + 1
    BY <1>0, <1>3 DEF GetElement, TypeOK
  <2>2. tail' \in 0 .. SizeRange - 1 /\ (tail' + count') % SizeRange = (tail + count) % SizeRange
    BY <1>3, <2>1, TailAdvances DEF GetElement
  <2>3. head' = (tail' + count') % SizeRange
    BY <1>3, <2>2 DEF GetElement, TypeOK
  <2>4. got' \in [Consumers -> Elements \cup {Nothing}]
    BY <1>0, <1>3 DEF GetElement, Oldest, TypeOK
  <2>5. pc' \in [Producers \cup Consumers -> {"idle", "notify", "asleep", "woken"}]
    BY <1>3 DEF GetElement, Goto, TypeOK
  <2>6. /\ \A q \in Producers : pc'[q] \in {"idle", "notify"}
        /\ \A d \in Consumers : pc'[d] # "notify"
    BY <1>3, ConstantsAssumption DEF GetElement, Goto, TypeOK
  <2>7. lapsed' \in BOOLEAN
    BY <1>3 DEF GetElement, Debt
  <2> QED
    BY <1>3, <2>1, <2>2, <2>3, <2>4, <2>5, <2>6, <2>7 DEF GetElement, TypeOK
<1>4. ASSUME NEW c \in Consumers, GoToSleep(c)
      PROVE  TypeOK'
  BY <1>4, ConstantsAssumption DEF GoToSleep, Goto, TypeOK
<1>5. ASSUME NEW c \in Consumers, WakeSpuriously(c)
      PROVE  TypeOK'
  BY <1>5, ConstantsAssumption DEF WakeSpuriously, Goto, TypeOK
<1>6. ASSUME NEW c \in Consumers, TimeOut(c)
      PROVE  TypeOK'
  <2>1. lapsed' \in BOOLEAN
    BY <1>6 DEF TimeOut, Debt
  <2> QED
    BY <1>6, <2>1, ConstantsAssumption DEF TimeOut, Goto, TypeOK
<1>7. ASSUME Clear
      PROVE  TypeOK'
  <2>1. 0 \in 0 .. SizeRange - 1 /\ 0 \in 0 .. Size
    BY <1>0
  <2>2. 0 % SizeRange = 0
    BY <1>0, <2>1, ModSmall
  <2>3. lapsed' \in BOOLEAN
    BY <1>7 DEF Clear, Debt
  <2>4. count' = 0 /\ head' = 0 /\ tail' = 0 /\ head' = (tail' + count') % SizeRange
    BY <1>7, <2>2 DEF Clear
  <2> QED
    BY <1>7, <2>1, <2>3, <2>4 DEF Clear, TypeOK
<1>8. ASSUME UNCHANGED vars
      PROVE  TypeOK'
  BY <1>8 DEF vars, TypeOK
<1> QED
  BY <1>1, <1>2, <1>3, <1>4, <1>5, <1>6, <1>7, <1>8
  DEF Next, Pop, Wait, Consume, PopAgain, WaitAgain

(* The ring keeps at most Size elements, and head_ stays count_ elements    *)
(* ahead of tail_ through a wrap, if Size divides the range of std::size_t  *)
(* (condvar_queue.h:148-189).                                               *)
THEOREM TypeCorrect == Spec => []TypeOK
  BY InitTypes, NextTypes, PTL DEF Spec

-----------------------------------------------------------------------------
(* Wakeups *)

LEMMA Sizes ==
  /\ IsFiniteSet(Woken) /\ Cardinality(Woken) \in Nat
  /\ IsFiniteSet(Notifying) /\ Cardinality(Notifying) \in Nat
<1>1. Woken \subseteq Consumers /\ Notifying \subseteq Producers
  BY DEF Woken, Notifying
<1>2. IsFiniteSet(Woken) /\ IsFiniteSet(Notifying)
  BY <1>1, ConstantsAssumption, FS_Subset
<1> QED
  BY <1>2, FS_CardinalityType

(* The same for the state after a step. *)
LEMMA SizesAfter ==
  /\ IsFiniteSet(Woken') /\ Cardinality(Woken') \in Nat
  /\ IsFiniteSet(Notifying') /\ Cardinality(Notifying') \in Nat
<1>1. Woken' \subseteq Consumers /\ Notifying' \subseteq Producers
  BY DEF Woken, Notifying
<1>2. IsFiniteSet(Woken') /\ IsFiniteSet(Notifying')
  BY <1>1, ConstantsAssumption, FS_Subset
<1> QED
  BY <1>2, FS_CardinalityType

(* Without a debt afterwards there is nothing left, or there was none.      *)
LEMMA NoDebt ==
  ASSUME NEW more, Debt(more), ~lapsed', count' \in Nat
  PROVE  count' = 0 \/ (~lapsed /\ ~more)
<1>1. ~(count' > 0 /\ (lapsed \/ more))
  BY Zenon DEF Debt
<1>2. count' = 0 \/ count' > 0
  OBVIOUS
<1> QED
  BY <1>1, <1>2, Zenon

LEMMA InitWakeups == Init => WakeupsCover
  BY Sizes DEF Init, WakeupsCover, Asleep

LEMMA NextWakeups == TypeOK /\ WakeupsCover /\ [Next]_vars => WakeupsCover'
<1> SUFFICES ASSUME TypeOK, WakeupsCover, [Next]_vars, Asleep' # {}, ~lapsed'
             PROVE  count' <= Cardinality(Woken') + Cardinality(Notifying')
  BY DEF WakeupsCover
<1>0. /\ Cardinality(Woken) \in Nat /\ Cardinality(Notifying) \in Nat
      /\ Cardinality(Woken') \in Nat /\ Cardinality(Notifying') \in Nat
      /\ count \in Nat
      /\ Producers \cap Consumers = {}
  BY Sizes, SizesAfter, CounterFacts, ConstantsAssumption
(* Where there was a sleeper and no debt, the wakeups sufficed.             *)
<1>00. Asleep # {} /\ ~lapsed => count <= Cardinality(Woken) + Cardinality(Notifying)
  BY DEF WakeupsCover
<1>1. ASSUME NEW p \in Producers, NEW e \in Elements, Push(p, e)
      PROVE  count' <= Cardinality(Woken') + Cardinality(Notifying')
  <2>0. Debt(FALSE)
    BY <1>1, Zenon DEF Push
  <2>1. \A t \in Producers \cup Consumers : pc'[t] = IF t = p THEN "notify" ELSE pc[t]
    BY <1>1 DEF Push, Unlocked, Goto, TypeOK
  <2>2. Woken' = Woken /\ Asleep' = Asleep
    BY <1>0, <2>1 DEF Woken, Asleep
  <2>3. Notifying' = Notifying \cup {p} /\ p \notin Notifying
    BY <1>1, <2>1 DEF Notifying, Push
  <2>4. Cardinality(Notifying') = Cardinality(Notifying) + 1
    BY <2>3, Sizes, FS_AddElement
  <2>5. count' = count + 1 /\ count' \in Nat
    BY <1>0, <1>1 DEF Push
  <2>6. count' = 0 \/ ~lapsed
    BY <2>0, <2>5, NoDebt, Zenon
  <2> QED
    BY <1>0, <1>00, <2>2, <2>4, <2>5, <2>6
<1>2. ASSUME NEW p \in Producers, NotifyOne(p)
      PROVE  count' <= Cardinality(Woken') + Cardinality(Notifying')
  <2>1. Asleep # {}
    <3>1. SUFFICES ASSUME Asleep = {}
                   PROVE  FALSE
      OBVIOUS
    <3>2. \A c \in Consumers : pc'[c] = pc[c]
      BY <1>0, <1>2, <3>1 DEF NotifyOne, Goto, TypeOK
    <3> QED
      BY <3>1, <3>2 DEF Asleep
  <2>2. PICK c \in Asleep : pc' = [pc EXCEPT ![p] = "idle", ![c] = "woken"]
    BY <1>2, <2>1 DEF NotifyOne
  <2>3. c \in Consumers /\ pc[c] = "asleep" /\ c # p
    BY <1>0 DEF Asleep
  <2>4. \A t \in Producers \cup Consumers :
          pc'[t] = IF t = c THEN "woken" ELSE IF t = p THEN "idle" ELSE pc[t]
    BY <2>2, <2>3 DEF TypeOK
  <2>5. Woken' = Woken \cup {c} /\ c \notin Woken
    BY <1>0, <2>3, <2>4 DEF Woken
  <2>6. Notifying' = Notifying \ {p} /\ p \in Notifying
    BY <1>0, <1>2, <2>3, <2>4 DEF Notifying, NotifyOne
  <2>7. /\ Cardinality(Woken') = Cardinality(Woken) + 1
        /\ Cardinality(Notifying') = Cardinality(Notifying) - 1
    BY <2>5, <2>6, Sizes, FS_AddElement, FS_RemoveElement
  <2>8. count' = count /\ lapsed' = lapsed
    BY <1>2 DEF NotifyOne
  <2> QED
    BY <1>0, <1>00, <2>1, <2>7, <2>8
<1>3. ASSUME NEW c \in Consumers, Pop(c)
      PROVE  count' <= Cardinality(Woken') + Cardinality(Notifying')
  <2>0. Debt(FALSE)
    BY <1>3, Zenon DEF Pop, GetElement
  <2>1. \A t \in Producers \cup Consumers : pc'[t] = pc[t]
    BY <1>3 DEF Pop, GetElement, Goto, TypeOK
  <2>2. Woken' = Woken /\ Asleep' = Asleep /\ Notifying' = Notifying
    BY <2>1 DEF Woken, Asleep, Notifying
  <2>3. count' = count - 1 /\ count' \in Nat
    BY <1>0, <1>3 DEF Pop, GetElement
  <2>4. count' = 0 \/ ~lapsed
    BY <2>0, <2>3, NoDebt, Zenon
  <2> QED
    BY <1>0, <1>00, <2>2, <2>3, <2>4
<1>4. ASSUME NEW c \in Consumers, PopAgain(c)
      PROVE  count' <= Cardinality(Woken') + Cardinality(Notifying')
  <2>0. Debt(FALSE)
    BY <1>4, Zenon DEF PopAgain, GetElement
  <2>1. \A t \in Producers \cup Consumers : pc'[t] = IF t = c THEN "idle" ELSE pc[t]
    BY <1>4 DEF PopAgain, GetElement, Goto, TypeOK
  <2>2. Woken' = Woken \ {c} /\ c \in Woken
    BY <1>4, <2>1 DEF Woken, PopAgain
  <2>3. Asleep' = Asleep /\ Notifying' = Notifying
    BY <1>0, <1>4, <2>1 DEF Asleep, Notifying, PopAgain
  <2>4. Cardinality(Woken') = Cardinality(Woken) - 1
    BY <2>2, Sizes, FS_RemoveElement
  <2>5. count' = count - 1 /\ count' \in Nat
    BY <1>0, <1>4 DEF PopAgain, GetElement
  <2>6. count' = 0 \/ ~lapsed
    BY <2>0, <2>5, NoDebt, Zenon
  <2> QED
    BY <1>0, <1>00, <2>3, <2>4, <2>5, <2>6
<1>5. ASSUME NEW c \in Consumers, GoToSleep(c)
      PROVE  count' <= Cardinality(Woken') + Cardinality(Notifying')
  <2>1. count' = 0
    BY <1>5 DEF GoToSleep
  <2> QED
    BY <1>0, <2>1
<1>6. ASSUME NEW c \in Consumers, WakeSpuriously(c)
      PROVE  count' <= Cardinality(Woken') + Cardinality(Notifying')
  <2>1. \A t \in Producers \cup Consumers : pc'[t] = IF t = c THEN "woken" ELSE pc[t]
    BY <1>6 DEF WakeSpuriously, Goto, TypeOK
  <2>2. Woken' = Woken \cup {c} /\ c \notin Woken /\ Asleep # {}
    BY <1>6, <2>1 DEF Woken, Asleep, WakeSpuriously
  <2>3. Notifying' = Notifying
    BY <1>0, <2>1 DEF Notifying
  <2>4. Cardinality(Woken') = Cardinality(Woken) + 1
    BY <2>2, Sizes, FS_AddElement
  <2>5. count' = count /\ lapsed' = lapsed
    BY <1>6 DEF WakeSpuriously
  <2> QED
    BY <1>0, <1>00, <2>2, <2>3, <2>4, <2>5
<1>7. ASSUME NEW c \in Consumers, TimeOut(c)
      PROVE  count' <= Cardinality(Woken') + Cardinality(Notifying')
  <2>1. \A t \in Producers \cup Consumers : pc'[t] = IF t = c THEN "idle" ELSE pc[t]
    BY <1>7 DEF TimeOut, Goto, TypeOK
  <2>2. count' = count /\ Debt(pc[c] = "woken")
    BY <1>7 DEF TimeOut
  <2>3. count' = 0 \/ (~lapsed /\ ~(pc[c] = "woken"))
    BY <1>0, <2>2, NoDebt
  <2>4. CASE count' = 0
    BY <1>0, <2>4
  <2>5. CASE ~lapsed /\ ~(pc[c] = "woken")
    <3>1. pc[c] = "asleep"
      BY <1>7, <2>5 DEF TimeOut
    <3>2. Woken' = Woken /\ Notifying' = Notifying /\ Asleep # {}
      BY <1>0, <2>1, <3>1 DEF Woken, Notifying, Asleep
    <3> QED
      BY <1>0, <1>00, <2>2, <2>5, <3>2
  <2> QED
    BY <2>3, <2>4, <2>5
<1>8. ASSUME Clear
      PROVE  count' <= Cardinality(Woken') + Cardinality(Notifying')
  <2>1. count' = 0
    BY <1>8 DEF Clear
  <2> QED
    BY <1>0, <2>1
<1>9. ASSUME UNCHANGED vars
      PROVE  count' <= Cardinality(Woken') + Cardinality(Notifying')
  <2>1. Woken' = Woken /\ Notifying' = Notifying /\ Asleep' = Asleep
    BY <1>9 DEF vars, Woken, Notifying, Asleep
  <2>2. count' = count /\ lapsed' = lapsed
    BY <1>9 DEF vars
  <2> QED
    BY <1>00, <2>1, <2>2
<1> QED
  BY <1>1, <1>2, <1>3, <1>4, <1>5, <1>6, <1>7, <1>8, <1>9 DEF Next, Wait, Consume, WaitAgain

(* No wakeup is lost but by a timeout, whatever the number of threads       *)
(* (condvar_queue.h:112-122, 132-140).                                      *)
THEOREM WakeupsAreCovered == Spec => []WakeupsCover
  BY InitTypes, NextTypes, InitWakeups, NextWakeups, PTL DEF Spec
-----------------------------------------------------------------------------
(* Refinement *)

WaitingSlot(i) == At((tail + i - 1) % SizeRange)

(* Distinct waiting elements, and the place of the next one, have slots of  *)
(* their own: Size divides SizeRange.                                       *)
LEMMA WaitingFacts ==
  ASSUME TypeOK
  PROVE  /\ Waiting \in Seq(Elements \cup {Nothing})
         /\ Len(Waiting) = count
         /\ \A i \in 1 .. count : Waiting[i] = arr[WaitingSlot(i)]
         /\ \A i \in 1 .. Size : WaitingSlot(i) \in Slots
<1>0. /\ Size \in Nat \ {0} /\ SizeRange \in Nat \ {0} /\ count \in 0 .. Size /\ tail \in Nat
      /\ arr \in [Slots -> Elements \cup {Nothing}]
  BY CounterFacts DEF TypeOK
<1>1. ASSUME NEW i \in 1 .. Size
      PROVE  WaitingSlot(i) \in Slots
  <2>1. tail + i - 1 \in Nat
    BY <1>0
  <2> QED
    BY <1>0, <2>1, WrappedSlot DEF WaitingSlot, At, Slots
<1>2. \A i \in 1 .. count : i \in 1 .. Size
  BY <1>0
<1>3. Waiting = [i \in 1 .. count |-> arr[WaitingSlot(i)]]
  BY DEF Waiting, WaitingSlot
<1>4. \A i \in 1 .. count : arr[WaitingSlot(i)] \in Elements \cup {Nothing}
  BY <1>0, <1>1, <1>2
<1>5. Waiting \in [1 .. count -> Elements \cup {Nothing}] /\ count \in Nat
  BY <1>0, <1>3, <1>4
<1>6. Waiting \in Seq(Elements \cup {Nothing}) /\ Len(Waiting) = count
  BY <1>5
<1> QED
  BY <1>1, <1>3, <1>6

(* A push appends its element and leaves the others where they are.         *)
LEMMA PushRefines ==
  ASSUME TypeOK, TypeOK', NEW p \in Producers, NEW e \in Elements, Push(p, e)
  PROVE  Line!Put(e)
<1>0. /\ Size \in Nat \ {0} /\ SizeRange \in Nat \ {0} /\ SizeRange % Size = 0
      /\ count \in 0 .. Size /\ count < Size /\ count' = count + 1
      /\ tail \in Nat /\ tail' = tail
      /\ arr \in [Slots -> Elements \cup {Nothing}] /\ got' = got
      /\ head = (tail + count) % SizeRange
      /\ arr' = [arr EXCEPT ![At(head)] = e] /\ At(head) \in Slots
  BY CounterFacts, ConstantsAssumption DEF TypeOK, Push, HasRoom
<1>1. \A i \in Nat : WaitingSlot(i)' = WaitingSlot(i)
  BY <1>0 DEF WaitingSlot, At
<1>2. /\ Waiting \in Seq(Elements \cup {Nothing}) /\ Len(Waiting) = count
      /\ \A i \in 1 .. count : Waiting[i] = arr[WaitingSlot(i)]
      /\ \A i \in 1 .. Size : WaitingSlot(i) \in Slots
  BY WaitingFacts
<1>3. /\ Waiting' \in Seq(Elements \cup {Nothing}) /\ Len(Waiting') = count + 1
      /\ \A i \in 1 .. count + 1 : Waiting'[i] = arr'[WaitingSlot(i)]
  <2>1. Waiting' = [i \in 1 .. count' |-> arr'[WaitingSlot(i)']]
    BY DEF Waiting, WaitingSlot
  <2>2. Waiting' = [i \in 1 .. count + 1 |-> arr'[WaitingSlot(i)]]
    BY <1>0, <1>1, <2>1
  <2>3. \A i \in 1 .. count + 1 : arr'[WaitingSlot(i)] \in Elements \cup {Nothing}
    BY <1>0, <1>2
  <2>4. Waiting' \in [1 .. count + 1 -> Elements \cup {Nothing}] /\ count + 1 \in Nat
    BY <1>0, <2>2, <2>3
  <2> QED
    BY <2>2, <2>4
<1>4. ASSUME NEW i \in 1 .. count
      PROVE  Waiting'[i] = Waiting[i]
  <2>1. WaitingSlot(i) # At(head)
    <3>1. /\ tail + i - 1 \in Nat /\ tail + count \in Nat
          /\ tail + i - 1 # tail + count
          /\ tail + i - 1 < (tail + count) + Size /\ tail + count < (tail + i - 1) + Size
      BY <1>0
    <3>2. ((tail + i - 1) % SizeRange) % Size # ((tail + count) % SizeRange) % Size
      BY <1>0, <3>1, WrappedSlotsDiffer
    <3> QED
      BY <1>0, <3>2 DEF WaitingSlot, At
  <2>2. arr'[WaitingSlot(i)] = arr[WaitingSlot(i)]
    BY <1>0, <1>2, <2>1
  <2> QED
    BY <1>0, <1>2, <1>3, <2>2
<1>5. Waiting'[count + 1] = e
  <2>1. tail + (count + 1) - 1 = tail + count
    BY <1>0
  <2>2. WaitingSlot(count + 1) = At(head)
    BY <1>0, <2>1 DEF WaitingSlot
  <2> QED
    BY <1>0, <1>3, <2>2
<1>6. Waiting' = Append(Waiting, e)
  <2>1. /\ Append(Waiting, e) \in Seq(Elements \cup {Nothing})
        /\ Len(Append(Waiting, e)) = count + 1
        /\ \A i \in 1 .. count : Append(Waiting, e)[i] = Waiting[i]
        /\ Append(Waiting, e)[count + 1] = e
    BY <1>2, AppendProperties
  <2>2. \A i \in 1 .. count + 1 : i \in 1 .. count \/ i = count + 1
    BY <1>0
  <2>3. \A i \in 1 .. count + 1 : Waiting'[i] = Append(Waiting, e)[i]
    BY <1>4, <1>5, <2>1, <2>2
  <2> QED
    BY <1>3, <2>1, <2>3, SeqEqual
<1> QED
  BY <1>0, <1>2, <1>6 DEF Line!Put

(* A pop takes the oldest element, and the others move up by one.           *)
LEMMA GetRefines ==
  ASSUME TypeOK, TypeOK', NEW c \in Consumers, GetElement(c)
  PROVE  Line!Get(c)
<1>0. /\ count \in Nat /\ count > 0 /\ count' = count - 1 /\ count <= Size
      /\ Size \in Nat \ {0} /\ SizeRange \in Nat \ {0}
      /\ tail \in 0 .. SizeRange - 1 /\ tail' = Inc(tail)
      /\ arr' = arr /\ got' = [got EXCEPT ![c] = arr[At(tail)]]
  BY CounterFacts DEF TypeOK, GetElement, Oldest
<1>1. /\ Waiting \in Seq(Elements \cup {Nothing}) /\ Len(Waiting) = count
      /\ \A i \in 1 .. count : Waiting[i] = arr[WaitingSlot(i)]
  BY WaitingFacts
<1>2. /\ Waiting' \in Seq(Elements \cup {Nothing}) /\ Len(Waiting') = count - 1
      /\ \A i \in 1 .. count - 1 : Waiting'[i] = arr[At((Inc(tail) + i - 1) % SizeRange)]
  <2>1. Waiting' = [i \in 1 .. count - 1 |-> arr[At((Inc(tail) + i - 1) % SizeRange)]]
    BY <1>0 DEF Waiting, At
  <2>2. /\ arr \in [Slots -> Elements \cup {Nothing}] /\ Inc(tail) \in Nat
    BY <1>0, TailAdvances DEF TypeOK
  <2>3. ASSUME NEW i \in 1 .. count - 1
        PROVE  arr[At((Inc(tail) + i - 1) % SizeRange)] \in Elements \cup {Nothing}
    <3>1. Inc(tail) + i - 1 \in Nat
      BY <1>0, <2>2
    <3>2. At((Inc(tail) + i - 1) % SizeRange) \in Slots
      BY <1>0, <3>1, WrappedSlot DEF At, Slots
    <3> QED
      BY <2>2, <3>2
  <2>4. Waiting' \in [1 .. count - 1 -> Elements \cup {Nothing}] /\ count - 1 \in Nat
    BY <1>0, <2>1, <2>3
  <2> QED
    BY <2>1, <2>4
<1>3. Waiting # << >> /\ Head(Waiting) = arr[At(tail)]
  <2>1. tail + 1 - 1 = tail /\ tail % SizeRange = tail
    BY <1>0, ModSmall
  <2>2. Waiting[1] = arr[At(tail)]
    BY <1>0, <1>1, <2>1 DEF WaitingSlot
  <2> QED
    BY <1>0, <1>1, <2>2
<1>4. ASSUME NEW i \in 1 .. count - 1
      PROVE  Waiting'[i] = Waiting[i + 1]
  <2>1. (Inc(tail) + (i - 1)) % SizeRange = (tail + ((i - 1) + 1)) % SizeRange
    <3>1. i - 1 \in Nat
      BY <1>0
    <3> QED
      BY <3>1, TailAdvances
  <2>2. Inc(tail) \in Nat
    BY <1>0, TailAdvances
  <2>3. /\ Inc(tail) + (i - 1) = Inc(tail) + i - 1
        /\ tail + ((i - 1) + 1) = tail + (i + 1) - 1
    BY <1>0, <2>2
  <2>4. (Inc(tail) + i - 1) % SizeRange = (tail + (i + 1) - 1) % SizeRange
    BY <2>1, <2>3
  <2>5. i + 1 \in 1 .. count
    BY <1>0
  <2> QED
    BY <1>1, <1>2, <2>4, <2>5 DEF WaitingSlot
<1>5. Waiting' = Tail(Waiting)
  <2>1. /\ Tail(Waiting) \in Seq(Elements \cup {Nothing})
        /\ Len(Tail(Waiting)) = count - 1
        /\ \A i \in 1 .. count - 1 : Tail(Waiting)[i] = Waiting[i + 1]
    BY <1>1, <1>3, HeadTailProperties
  <2>2. \A i \in 1 .. count - 1 : Waiting'[i] = Tail(Waiting)[i]
    BY <1>4, <2>1
  <2> QED
    BY <1>2, <2>1, <2>2, SeqEqual
<1> QED
  BY <1>0, <1>3, <1>5 DEF Line!Get

LEMMA InitRefines == Init => Line!Init
  BY DEF Init, Line!Init, Waiting

LEMMA NextRefines ==
  ASSUME TypeOK, TypeOK', [Next]_vars
  PROVE  [Line!Next]_(Line!vars)
<1>1. ASSUME NEW p \in Producers, NEW e \in Elements, Push(p, e)
      PROVE  Line!Next
  BY <1>1, PushRefines DEF Line!Next
<1>2. ASSUME NEW c \in Consumers, GetElement(c)
      PROVE  Line!Next
  BY <1>2, GetRefines DEF Line!Next
<1>3. ASSUME Clear
      PROVE  Line!Next
  <2>1. Waiting' = << >>
    BY <1>3 DEF Clear, Waiting
  <2> QED
    BY <1>3, <2>1 DEF Clear, Line!Next, Line!Clear
<1>4. ASSUME UNCHANGED <<arr, count, tail, got>>
      PROVE  UNCHANGED Line!vars
  BY <1>4 DEF Line!vars, Waiting, At
<1>5. ASSUME NEW p \in Producers, NotifyOne(p)
      PROVE  UNCHANGED Line!vars
  BY <1>4, <1>5 DEF NotifyOne
<1>6. ASSUME NEW c \in Consumers, GoToSleep(c) \/ WakeSpuriously(c) \/ TimeOut(c)
      PROVE  UNCHANGED Line!vars
  BY <1>4, <1>6 DEF GoToSleep, WakeSpuriously, TimeOut
<1>7. ASSUME UNCHANGED vars
      PROVE  UNCHANGED Line!vars
  BY <1>4, <1>7 DEF vars
<1> QED
  BY <1>1, <1>2, <1>3, <1>5, <1>6, <1>7
  DEF Next, Pop, Wait, Consume, PopAgain, WaitAgain

(* The ring is a bounded queue: elements leave in the order of the pushes,  *)
(* each once, through the laps of the ring and the wraps of head_ and       *)
(* tail_, provided Size divides the range of std::size_t, as                *)
(* ConstantsAssumption says (condvar_queue.h:148-194).                      *)
THEOREM RingImplementsBoundedQueue == Spec => ImplementsBoundedQueue
<1>1. TypeOK /\ [Next]_vars => TypeOK' /\ [Line!Next]_(Line!vars)
  BY NextTypes, NextRefines
<1> QED
  BY <1>1, InitTypes, InitRefines, PTL DEF Spec, ImplementsBoundedQueue, Line!Spec
=============================================================================
