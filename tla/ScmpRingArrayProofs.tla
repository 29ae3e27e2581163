------------------------- MODULE ScmpRingArrayProofs -------------------------
(***************************************************************************)
(* Proofs about ScmpRingArray, for any number of producers, any size and   *)
(* any number of pushes.                                                   *)
(***************************************************************************)
EXTENDS ScmpRingArray, FiniteSetTheorems, SequenceTheorems, TLAPS

-----------------------------------------------------------------------------
(* Slots of counters that wrap at a multiple of the number of slots.        *)

(* The quotient and the remainder that % and \div stand for. *)
LEMMA DivMod ==
  ASSUME NEW a \in Nat, NEW n \in Nat \ {0}
  PROVE  /\ a \div n \in Nat
         /\ a % n \in 0 .. n - 1
         /\ a = n * (a \div n) + (a % n)
  BY Z3

(* Two multiples of n that are less than n apart are the same one. *)
LEMMA QuotientUnique ==
  ASSUME NEW n \in Nat \ {0}, NEW q \in Int, NEW r \in Int,
         n * q - n * r < n, n * r - n * q < n
  PROVE  q = r
<1>1. n * q - n * r = n * (q - r) /\ n * r - n * q = n * (r - q)
  OBVIOUS
<1>2. CASE q > r
  <2>1. n * (q - r) >= n
    BY <1>2
  <2> QED
    BY <1>1, <2>1
<1>3. CASE r > q
  <2>1. n * (r - q) >= n
    BY <1>3
  <2> QED
    BY <1>1, <2>1
<1> QED
  BY <1>2, <1>3

(* The slot of a ticket, and the lap it is in, when the counter wraps at a  *)
(* multiple m of the number n of slots.                                     *)
LEMMA SlotEquation ==
  ASSUME NEW i \in Nat, NEW n \in Nat \ {0}, NEW m \in Nat \ {0}, m % n = 0
  PROVE  \E k \in Int : i = n * k + ((i % m) % n)
<1> DEFINE t == m \div n
           q == i \div m
           r == i % m
           u == r \div n
           v == r % n
<1>1. t \in Nat /\ m = n * t
  BY DivMod
<1>2. q \in Nat /\ r \in Nat /\ i = m * q + r
  BY DivMod
<1>3. u \in Nat /\ v \in Nat /\ r = n * u + v
  BY <1>2, DivMod
<1> HIDE DEF t, q, r, u, v
<1>4. t * q \in Nat /\ (n * t) * q = n * (t * q)
  BY <1>1, <1>2
<1>5. n * (t * q) + n * u = n * (t * q + u)
  BY <1>3, <1>4
<1>6. i = n * (t * q + u) + v
  BY <1>1, <1>2, <1>3, <1>4, <1>5
<1>7. t * q + u \in Int
  BY <1>3, <1>4
<1> QED
  BY <1>6, <1>7 DEF v, r

LEMMA WrappedSlot ==
  ASSUME NEW i \in Nat, NEW n \in Nat \ {0}, NEW m \in Nat \ {0}
  PROVE  (i % m) % n \in 0 .. n - 1
  BY DivMod

(* Slots of tickets less than n apart differ. *)
LEMMA WrappedSlotsDiffer ==
  ASSUME NEW i \in Nat, NEW j \in Nat, NEW n \in Nat \ {0}, NEW m \in Nat \ {0},
         m % n = 0, i # j, i < j + n, j < i + n
  PROVE  (i % m) % n # (j % m) % n
<1> DEFINE v == (i % m) % n
           w == (j % m) % n
<1>1. v \in 0 .. n - 1 /\ w \in 0 .. n - 1
  BY WrappedSlot
<1>2. PICK k \in Int : i = n * k + v
  BY SlotEquation
<1>3. PICK l \in Int : j = n * l + w
  BY SlotEquation
<1> HIDE DEF v, w
<1>4. ASSUME v = w
      PROVE  FALSE
  <2>1. n * k - n * l = i - j /\ n * l - n * k = j - i
    BY <1>1, <1>2, <1>3, <1>4
  <2>2. k = l
    BY <2>1, QuotientUnique
  <2> QED
    BY <1>2, <1>3, <1>4, <2>2
<1> QED
  BY <1>4 DEF v, w

(* One lap later a counter is at the same slot. *)
LEMMA NextLap ==
  ASSUME NEW i \in Nat, NEW n \in Nat \ {0}, NEW m \in Nat \ {0}, m % n = 0
  PROVE  ((i + n) % m) % n = (i % m) % n
<1> DEFINE j == i + n
           v == (i % m) % n
           w == (j % m) % n
<1>1. j \in Nat /\ v \in 0 .. n - 1 /\ w \in 0 .. n - 1
  BY WrappedSlot
<1>2. PICK k \in Int : i = n * k + v
  BY SlotEquation
<1> HIDE DEF j
<1>3. PICK l \in Int : j = n * l + w
  BY <1>1, SlotEquation
<1> HIDE DEF v, w
<1>4. n * (k + 1) = n * k + n /\ j = i + n
  BY DEF j
<1>5. n * (k + 1) - n * l = w - v /\ n * l - n * (k + 1) = v - w
  BY <1>1, <1>2, <1>3, <1>4
<1>6. k + 1 = l
  BY <1>1, <1>5, QuotientUnique
<1>7. w = v
  BY <1>1, <1>5, <1>6
<1> QED
  BY <1>7 DEF v, w, j

-----------------------------------------------------------------------------
(* Types *)

(* A producer inside a call still has an element to push. *)
Quota == \A p \in Producers : pc[p] # "idle" => pushed[p] < MaxPush

TypeInv == TypeOK /\ Quota

LEMMA AtType ==
  ASSUME NEW i \in Nat
  PROVE  At(i) \in Slots
BY ConstantsAssumption, WrappedSlot DEF At, Slots

LEMMA InitType == Init => TypeInv
BY ConstantsAssumption
DEF Init, TypeInv, TypeOK, Quota, Threads, Atomics, Elements, NoData, Slots

LEMMA ElementType ==
  ASSUME TypeInv, NEW p \in Producers, pc[p] # "idle"
  PROVE  NextElement(p) \in Elements
BY ConstantsAssumption DEF TypeInv, TypeOK, Quota, NextElement, Elements

(* Each step of a thread keeps the types of every variable. *)
LEMMA NextType == TypeInv /\ [Next]_vars => TypeInv'
<1> SUFFICES ASSUME TypeInv, [Next]_vars
             PROVE  TypeInv'
  OBVIOUS
<1> USE DEF Threads
<1>1. ASSUME NEW p \in Producers, TakeToken(p), Goto(p, "claim") \/ Goto(p, "undo")
      PROVE  TypeInv'
  <2>1. rel[Pcounter] \in SUBSET Slots
    BY DEF TypeInv, TypeOK, Atomics
  <2>2. seen' \in [Threads -> SUBSET Slots]
    BY <1>1, <2>1 DEF TypeInv, TypeOK, TakeToken, Acquire
  <2>3. CASE Goto(p, "claim")
    BY <1>1, <2>2, <2>3, ConstantsAssumption DEF TypeInv, TypeOK, Quota, TakeToken, Goto
  <2>4. CASE Goto(p, "undo")
    BY <1>1, <2>2, <2>4, ConstantsAssumption DEF TypeInv, TypeOK, Quota, TakeToken, Goto
  <2> QED
    BY <1>1, <2>3, <2>4
<1>2. ASSUME NEW p \in Producers, PushUndo(p)
      PROVE  TypeInv'
  BY <1>2, ConstantsAssumption DEF TypeInv, TypeOK, Quota, PushUndo, Goto
<1>3. ASSUME NEW p \in Producers, PushClaim(p)
      PROVE  TypeInv'
  <2>1. NextElement(p) \in Elements
    BY <1>3, ElementType DEF PushClaim
  <2> QED
    BY <1>3, <2>1, ConstantsAssumption DEF TypeInv, TypeOK, Quota, PushClaim, Goto
<1>4. ASSUME NEW p \in Producers, PushWrite(p)
      PROVE  TypeInv'
  <2>1. NextElement(p) \in Elements
    BY <1>4, ElementType DEF PushWrite
  <2>2. At(index[p]) \in Slots
    BY AtType DEF TypeInv, TypeOK
  <2>3. seen' \in [Threads -> SUBSET Slots]
    BY <1>4, <2>2 DEF TypeInv, TypeOK, PushWrite, Touch
  <2>4. rel' \in [Atomics -> SUBSET Slots]
    BY <1>4 DEF TypeInv, TypeOK, PushWrite, Forget
  <2> QED
    BY <1>4, <2>1, <2>2, <2>3, <2>4, ConstantsAssumption
    DEF TypeInv, TypeOK, Quota, PushWrite, Goto
<1>5. ASSUME NEW p \in Producers, PushPublish(p)
      PROVE  TypeInv'
  <2>1. pushed[p] + 1 \in 0 .. MaxPush
    <3>1. pushed[p] \in 0 .. MaxPush /\ MaxPush \in Nat
      BY ConstantsAssumption DEF TypeInv, TypeOK
    <3>2. pushed[p] < MaxPush
      BY <1>5 DEF TypeInv, Quota, PushPublish, FlagStore
    <3> QED
      BY <3>1, <3>2
  <2>2. rel' \in [Atomics -> SUBSET Slots]
    BY <1>5 DEF TypeInv, TypeOK, PushPublish, FlagStore, StoreRelease
  <2> QED
    BY <1>5, <2>1, <2>2, AtType, ConstantsAssumption
    DEF TypeInv, TypeOK, Quota, PushPublish, FlagStore, Goto
<1>6. ASSUME PopTake
      PROVE  TypeInv'
  <2>1. At(tail) \in Slots
    BY AtType DEF TypeInv, TypeOK
  <2>2. rel[FlagOf(At(tail))] \in SUBSET Slots
    BY <2>1 DEF TypeInv, TypeOK, Atomics
  <2> QED
    BY <1>6, <2>1, <2>2, ConstantsAssumption
    DEF TypeInv, TypeOK, Quota, PopTake, Goto, Acquire
<1>7. ASSUME PopMove
      PROVE  TypeInv'
  <2>1. At(tail) \in Slots
    BY AtType DEF TypeInv, TypeOK
  <2>2. seen' \in [Threads -> SUBSET Slots]
    BY <1>7, <2>1 DEF TypeInv, TypeOK, PopMove, Touch
  <2>3. rel' \in [Atomics -> SUBSET Slots]
    BY <1>7 DEF TypeInv, TypeOK, PopMove, Forget
  <2> QED
    BY <1>7, <2>1, <2>2, <2>3, ConstantsAssumption
    DEF TypeInv, TypeOK, Quota, PopMove, Goto
<1>8. ASSUME PopReturn
      PROVE  TypeInv'
  <2>1. rel' \in [Atomics -> SUBSET Slots]
    BY <1>8 DEF TypeInv, TypeOK, PopReturn, ReturnToken, TokenAdd, RmwRelease
  <2> QED
    BY <1>8, <2>1, ConstantsAssumption
    DEF TypeInv, TypeOK, Quota, PopReturn, ReturnToken, TokenAdd, Goto
<1>9. CASE UNCHANGED vars
  BY <1>9 DEF vars, TypeInv, TypeOK, Quota
<1> QED
  BY <1>1, <1>2, <1>3, <1>4, <1>5, <1>6, <1>7, <1>8, <1>9
  DEF Next, Attempt, PushReserve, PushReject, Finish, Pop, Terminating

(* Every variable keeps its type. *)
THEOREM TypeCorrect == Spec => []TypeOK
<1>1. TypeInv => TypeOK
  BY DEF TypeInv
<1> QED
  BY <1>1, InitType, NextType, PTL DEF Spec

-----------------------------------------------------------------------------
(* Tokens: TokensConserved is inductive once the types are known. *)

LEMMA CountType ==
  ASSUME NEW l
  PROVE  /\ IsFiniteSet(AtLabel(l))
         /\ Cardinality(AtLabel(l)) \in Nat
<1>1. AtLabel(l) \in SUBSET Producers /\ IsFiniteSet(Producers)
  BY ConstantsAssumption DEF AtLabel
<1> QED
  BY <1>1, FS_Subset, FS_CardinalityType

(* A producer that moves from one label to another changes two counts by 1. *)
LEMMA CountStep ==
  ASSUME TypeInv, NEW p \in Producers, NEW to, Goto(p, to), pc[p] # to, NEW l
  PROVE  Cardinality(AtLabel(l)') = Cardinality(AtLabel(l))
                                     + (IF l = to THEN 1 ELSE 0)
                                     - (IF l = pc[p] THEN 1 ELSE 0)
<1>1. \A q \in Producers : pc'[q] = IF q = p THEN to ELSE pc[q]
  BY DEF TypeInv, TypeOK, Goto, Threads
<1>2. CASE l = to
  <2>1. AtLabel(l)' = AtLabel(l) \cup {p} /\ p \notin AtLabel(l)
    BY <1>1, <1>2 DEF AtLabel
  <2>2. Cardinality(AtLabel(l) \cup {p}) = Cardinality(AtLabel(l)) + 1
    BY <2>1, CountType, FS_AddElement
  <2> QED
    BY <1>2, <2>1, <2>2, CountType
<1>3. CASE l = pc[p]
  <2>1. AtLabel(l)' = AtLabel(l) \ {p} /\ p \in AtLabel(l)
    BY <1>1, <1>3 DEF AtLabel
  <2>2. Cardinality(AtLabel(l) \ {p}) = Cardinality(AtLabel(l)) - 1
    BY <2>1, CountType, FS_RemoveElement
  <2> QED
    BY <1>3, <2>1, <2>2, CountType
<1>4. CASE l # to /\ l # pc[p]
  <2>1. AtLabel(l)' = AtLabel(l)
    BY <1>1, <1>4 DEF AtLabel
  <2> QED
    BY <1>4, <2>1, CountType
<1> QED
  BY <1>2, <1>3, <1>4

LEMMA CountSame ==
  ASSUME NEW l, \A p \in Producers : pc'[p] = pc[p]
  PROVE  AtLabel(l)' = AtLabel(l)
BY DEF AtLabel

LEMMA InitTokens == Init => TokensConserved
<1> SUFFICES ASSUME Init
             PROVE  TokensConserved
  OBVIOUS
<1>1. AtLabel("undo") = {} /\ AtLabel("claim") = {}
  BY DEF Init, AtLabel, Threads
<1>2. Cardinality(AtLabel("undo")) = 0 /\ Cardinality(AtLabel("claim")) = 0
  BY <1>1, FS_EmptySet
<1> QED
  BY <1>2, ConstantsAssumption DEF Init, TokensConserved, Undoing, Claiming

LEMMA NextTokens == TypeInv /\ TokensConserved /\ [Next]_vars => TokensConserved'
<1> SUFFICES ASSUME TypeInv, TokensConserved, [Next]_vars
             PROVE  TokensConserved'
  OBVIOUS
<1>0. /\ Undoing \in Nat /\ Claiming \in Nat /\ pcounter \in Int /\ head \in Nat /\ tail \in Nat
      /\ Size \in Nat
      /\ pcounter + Undoing >= 0
      /\ pcounter + Undoing + Claiming + (head - tail) = Size
  BY CountType, ConstantsAssumption DEF Undoing, Claiming, TypeInv, TypeOK, TokensConserved
<1>00. TokensConserved' <=> /\ pcounter' + Undoing' >= 0
                            /\ pcounter' + Undoing' + Claiming' + (head' - tail') = Size
  BY DEF TokensConserved
<1>1. ASSUME NEW p \in Producers, PushReserve(p)
      PROVE  TokensConserved'
  <2>1. Undoing' = Undoing /\ Claiming' = Claiming + 1
    BY <1>0, <1>1, CountStep DEF Undoing, Claiming, PushReserve, TakeToken
  <2> QED
    BY <1>0, <1>00, <1>1, <2>1 DEF PushReserve, TakeToken, NoToken
<1>2. ASSUME NEW p \in Producers, PushReject(p)
      PROVE  TokensConserved'
  <2>1. Undoing' = Undoing + 1 /\ Claiming' = Claiming
    BY <1>0, <1>2, CountStep DEF Undoing, Claiming, PushReject, TakeToken
  <2> QED
    BY <1>0, <1>00, <1>2, <2>1 DEF PushReject, TakeToken
<1>3. ASSUME NEW p \in Producers, PushUndo(p)
      PROVE  TokensConserved'
  <2>1. Undoing' = Undoing - 1 /\ Claiming' = Claiming
    BY <1>0, <1>3, CountStep DEF Undoing, Claiming, PushUndo
  <2> QED
    BY <1>0, <1>00, <1>3, <2>1 DEF PushUndo
<1>4. ASSUME NEW p \in Producers, PushClaim(p)
      PROVE  TokensConserved'
  <2>1. Undoing' = Undoing /\ Claiming' = Claiming - 1
    <3>1. pc[p] = "claim" /\ Goto(p, "write")
      BY <1>4 DEF PushClaim
    <3> QED
      BY <1>0, <3>1, CountStep DEF Undoing, Claiming
  <2> QED
    BY <1>0, <1>00, <1>4, <2>1 DEF PushClaim
<1>5. ASSUME NEW p \in Producers, PushWrite(p) \/ PushPublish(p)
      PROVE  TokensConserved'
  <2>1. Undoing' = Undoing /\ Claiming' = Claiming
    <3>1. CASE PushWrite(p)
      BY <1>0, <3>1, CountStep DEF Undoing, Claiming, PushWrite
    <3>2. CASE PushPublish(p)
      BY <1>0, <3>2, CountStep DEF Undoing, Claiming, PushPublish, FlagStore
    <3> QED
      BY <1>5, <3>1, <3>2
  <2> QED
    BY <1>0, <1>00, <1>5, <2>1 DEF PushWrite, PushPublish, FlagStore
<1>6. ASSUME \A p \in Producers : pc'[p] = pc[p]
      PROVE  Undoing' = Undoing /\ Claiming' = Claiming
  BY <1>6, CountSame DEF Undoing, Claiming
<1>7. CASE PopTake \/ PopMove \/ UNCHANGED vars
  <2>1. \A p \in Producers : pc'[p] = pc[p]
    BY <1>7, ConstantsAssumption DEF TypeInv, TypeOK, Threads, PopTake, PopMove, Goto, vars
  <2>2. pcounter' = pcounter /\ head' = head /\ tail' = tail
    BY <1>7 DEF PopTake, PopMove, vars
  <2> QED
    BY <1>0, <1>00, <1>6, <2>1, <2>2
<1>8. CASE PopReturn
  <2>1. \A p \in Producers : pc'[p] = pc[p]
    BY <1>8, ConstantsAssumption DEF TypeInv, TypeOK, Threads, PopReturn, ReturnToken, TokenAdd, Goto
  <2>2. pcounter' = pcounter + 1 /\ head' = head /\ tail' = tail + 1
    BY <1>8 DEF PopReturn, ReturnToken, TokenAdd
  <2> QED
    BY <1>0, <1>00, <1>6, <2>1, <2>2
<1> QED
  BY <1>1, <1>2, <1>3, <1>4, <1>5, <1>7, <1>8
  DEF Next, Attempt, Finish, Pop, Terminating

(* pcounter_ and the tickets account for every node of the ring, whatever   *)
(* the number of producers that fail a push at the same time.               *)
THEOREM TokensAreConserved == Spec => []TokensConserved
<1>1. Init => TypeInv /\ TokensConserved
  BY InitType, InitTokens
<1>2. TypeInv /\ TokensConserved /\ [Next]_vars => (TypeInv /\ TokensConserved)'
  BY NextType, NextTokens
<1> QED
  BY <1>1, <1>2, PTL DEF Spec

-----------------------------------------------------------------------------
(* Tickets.  From here on the counters wrap at a multiple of the size:      *)
(* without it the slots of two tickets in use may be the same one.          *)

WrapSafe == CounterMod % Size = 0

(* The oldest ticket the consumer has not taken. *)
Low == IF pc[Consumer] = "idle" THEN tail ELSE tail + 1

Owned(k) == \E p \in Working : index[p] = k

(* Every ticket not taken belongs to one producer, or its flag is set; and  *)
(* no other flag is.                                                        *)
SlotInv ==
  /\ Low <= head
  /\ \A p \in Working : index[p] \in Low .. head - 1
  /\ \A p, q \in Working : index[p] = index[q] => p = q
  /\ \A k \in Low .. head - 1 : flag[At(k)] <=> ~Owned(k)
  /\ \A s \in Slots : flag[s] => \E k \in Low .. head - 1 : s = At(k)

(* What the histories and the data of the tickets not taken hold. *)
FifoInv ==
  /\ Len(claims) = head
  /\ Len(received) = IF pc[Consumer] = "return" THEN tail + 1 ELSE tail
  /\ \A p \in Working : claims[index[p] + 1] = NextElement(p)
  /\ \A p \in Producers : pc[p] = "publish" => data[At(index[p])] = NextElement(p)
  /\ \A k \in Low .. head - 1 : ~Owned(k) => data[At(k)] = claims[k + 1]
  /\ pc[Consumer] = "move" => data[At(tail)] = claims[tail + 1]
  /\ \A i \in 1 .. Len(received) : received[i] = claims[i]

IInv == TypeInv /\ TokensConserved /\ SlotInv /\ FifoInv

(* The tickets in use fit into the ring; one more does when a producer has  *)
(* a token and no ticket yet.                                               *)
LEMMA TicketsFit ==
  ASSUME TypeInv, TokensConserved
  PROVE  /\ head <= tail + Size
         /\ \A p \in Producers : pc[p] = "claim" => head < tail + Size
<1>1. /\ Undoing \in Nat /\ Claiming \in Nat
      /\ pcounter \in Int /\ head \in Nat /\ tail \in Nat /\ Size \in Nat
  BY CountType, ConstantsAssumption DEF TypeInv, TypeOK, Undoing, Claiming
<1>2. head <= tail + Size
  BY <1>1 DEF TokensConserved
<1>3. ASSUME NEW p \in Producers, pc[p] = "claim"
      PROVE  head < tail + Size
  <2>1. AtLabel("claim") # {}
    BY <1>3 DEF AtLabel
  <2>2. Claiming # 0
    BY <2>1, CountType, FS_EmptySet DEF Claiming
  <2> QED
    BY <1>1, <2>2 DEF TokensConserved
<1> QED
  BY <1>2, <1>3

LEMMA SlotsOfTickets ==
  ASSUME TypeInv, TokensConserved, WrapSafe
  PROVE  /\ \A j, k \in tail .. head - 1 : j # k => At(j) # At(k)
         /\ \A p \in Producers, k \in tail .. head - 1 :
              pc[p] = "claim" => At(k) # At(head)
<1>1. head \in Nat /\ tail \in Nat /\ Size \in Nat \ {0} /\ CounterMod \in Nat \ {0}
  BY ConstantsAssumption DEF TypeInv, TypeOK
<1>2. ASSUME NEW j \in tail .. head - 1, NEW k \in tail .. head - 1, j # k
      PROVE  At(j) # At(k)
  <2>1. j \in Nat /\ k \in Nat /\ j < k + Size /\ k < j + Size
    BY <1>1, TicketsFit
  <2> QED
    BY <1>1, <1>2, <2>1, WrappedSlotsDiffer DEF At, WrapSafe
<1>3. ASSUME NEW p \in Producers, NEW k \in tail .. head - 1, pc[p] = "claim"
      PROVE  At(k) # At(head)
  <2>1. head < tail + Size
    BY <1>3, TicketsFit
  <2>2. k \in Nat /\ k # head /\ k < head + Size /\ head < k + Size
    BY <1>1, <2>1
  <2> QED
    BY <1>1, <2>2, WrappedSlotsDiffer DEF At, WrapSafe
<1> QED
  BY <1>2, <1>3

LEMMA LowType ==
  ASSUME TypeInv
  PROVE  /\ Low \in Nat /\ tail \in Nat /\ head \in Nat /\ Low \in {tail, tail + 1}
         /\ \A k \in Low .. head - 1 : k \in tail .. head - 1 /\ k \in Nat
BY DEF TypeInv, TypeOK, Low

LEMMA InitSlot == Init => SlotInv
<1> SUFFICES ASSUME Init
             PROVE  SlotInv
  OBVIOUS
<1>1. Working = {} /\ Low = 0
  BY ConstantsAssumption DEF Init, Working, Low, Threads
<1> QED
  BY <1>1 DEF Init, SlotInv

(* A step that moves no ticket. *)
LEMMA SlotSame ==
  ASSUME SlotInv, Working' = Working, Low' = Low, UNCHANGED <<index, flag, head>>
  PROVE  SlotInv'
BY DEF SlotInv, Owned

LEMMA WorkingSame ==
  ASSUME TypeInv, NEW p \in Producers, NEW to, Goto(p, to)
  PROVE  /\ pc'[Consumer] = pc[Consumer]
         /\ \A q \in Producers : pc'[q] = IF q = p THEN to ELSE pc[q]
         /\ Working' = IF to \in {"write", "publish"} THEN Working \cup {p}
                                                      ELSE Working \ {p}
BY ConstantsAssumption DEF TypeInv, TypeOK, Goto, Working, Threads

LEMMA NextSlot ==
  ASSUME TypeInv, TokensConserved, SlotInv, WrapSafe, [Next]_vars
  PROVE  SlotInv'
<1>1. ASSUME NEW p \in Producers, PushReserve(p) \/ PushReject(p) \/ PushUndo(p) \/ PushWrite(p)
      PROVE  SlotInv'
  <2>1. Working' = Working /\ Low' = Low /\ UNCHANGED <<index, flag, head>>
    <3>1. CASE PushReserve(p)
      BY <3>1, WorkingSame DEF PushReserve, TakeToken, Low, Working
    <3>2. CASE PushReject(p)
      BY <3>2, WorkingSame DEF PushReject, TakeToken, Low, Working
    <3>3. CASE PushUndo(p)
      BY <3>3, WorkingSame DEF PushUndo, Low, Working
    <3>4. CASE PushWrite(p)
      BY <3>4, WorkingSame DEF PushWrite, Low, Working
    <3> QED
      BY <1>1, <3>1, <3>2, <3>3, <3>4
  <2> QED
    BY <2>1, SlotSame
<1>2. ASSUME NEW p \in Producers, PushClaim(p)
      PROVE  SlotInv'
  <2>1. /\ Working' = Working \cup {p} /\ p \notin Working /\ Low' = Low
        /\ head' = head + 1 /\ flag' = flag
        /\ index' = [index EXCEPT ![p] = head]
        /\ pc[p] = "claim"
    BY <1>2, WorkingSame DEF PushClaim, Low, Working
  <2>2. /\ index'[p] = head
        /\ \A q \in Working : index'[q] = index[q] /\ index[q] \in Low .. head - 1
    BY <2>1 DEF TypeInv, TypeOK, Working, SlotInv
  <2>3. Low' <= head'
    BY <2>1, LowType DEF SlotInv
  <2>4. \A q \in Working' : index'[q] \in Low' .. head' - 1
    BY <2>1, <2>2, LowType DEF SlotInv
  <2>5. \A q, r \in Working' : index'[q] = index'[r] => q = r
    BY <2>1, <2>2, LowType DEF SlotInv
  <2>6. \A k \in Low .. head - 1 : Owned(k)' <=> Owned(k)
    BY <2>1, <2>2, LowType DEF Owned
  <2>7. \A k : k = head => Owned(k)'
    BY <2>1, <2>2 DEF Owned
  <2>8. ~flag[At(head)]
    BY <2>1, LowType, AtType, SlotsOfTickets DEF SlotInv
  <2>9. \A k \in Low' .. head' - 1 : flag'[At(k)] <=> ~Owned(k)'
    <3> SUFFICES ASSUME NEW k \in Low .. head
                 PROVE  flag[At(k)] <=> ~Owned(k)'
      BY <2>1, LowType
    <3>1. CASE k \in Low .. head - 1
      BY <2>6, <3>1 DEF SlotInv
    <3>2. CASE k = head
      BY <2>7, <2>8, <3>2
    <3> QED
      BY <3>1, <3>2, LowType
  <2>10. \A s \in Slots : flag'[s] => \E k \in Low' .. head' - 1 : s = At(k)
    BY <2>1, LowType DEF SlotInv
  <2> QED
    BY <2>3, <2>4, <2>5, <2>9, <2>10 DEF SlotInv
<1>3. ASSUME NEW p \in Producers, PushPublish(p)
      PROVE  SlotInv'
  <2>1. /\ Working' = Working \ {p} /\ p \in Working /\ Low' = Low
        /\ head' = head /\ index' = index
        /\ flag' = [flag EXCEPT ![At(index[p])] = TRUE]
    BY <1>3, WorkingSame DEF PushPublish, FlagStore, Low, Working
  <2>2. index[p] \in Low .. head - 1 /\ At(index[p]) \in Slots
    BY <2>1, LowType, AtType DEF SlotInv
  <2>3. \A s \in Slots : flag'[s] <=> s = At(index[p]) \/ flag[s]
    BY <2>1, <2>2 DEF TypeInv, TypeOK
  <2>4. \A k \in Low .. head - 1 : Owned(k)' <=> Owned(k) /\ k # index[p]
    BY <2>1 DEF Owned, SlotInv
  <2>5. \A k \in Low .. head - 1 : At(k) = At(index[p]) <=> k = index[p]
    BY <2>2, LowType, SlotsOfTickets
  <2>6. \A k \in Low' .. head' - 1 : flag'[At(k)] <=> ~Owned(k)'
    BY <2>1, <2>3, <2>4, <2>5, LowType, AtType DEF SlotInv
  <2>7. \A s \in Slots : flag'[s] => \E k \in Low' .. head' - 1 : s = At(k)
    BY <2>1, <2>2, <2>3 DEF SlotInv
  <2> QED
    BY <2>1, <2>6, <2>7 DEF SlotInv
<1>4. CASE PopTake
  <2>1. /\ Working' = Working /\ Low = tail /\ Low' = tail + 1
        /\ head' = head /\ index' = index
        /\ flag[At(tail)] /\ flag' = [flag EXCEPT ![At(tail)] = FALSE]
    BY <1>4, ConstantsAssumption
    DEF PopTake, Goto, TypeInv, TypeOK, Threads, Working, Low
  <2>2. tail < head /\ At(tail) \in Slots
    BY <2>1, LowType, AtType DEF SlotInv
  <2>3. ~Owned(tail)
    BY <2>1, <2>2, LowType DEF SlotInv
  <2>4. \A p \in Working : index[p] \in Low' .. head' - 1
    BY <2>1, <2>3, LowType DEF SlotInv, Owned
  <2>5. \A s \in Slots : flag'[s] <=> flag[s] /\ s # At(tail)
    BY <2>1, <2>2 DEF TypeInv, TypeOK
  <2>6. \A k \in Low' .. head' - 1 : k \in Low .. head - 1 /\ At(k) # At(tail) /\ At(k) \in Slots
    BY <2>1, <2>2, LowType, AtType, SlotsOfTickets
  <2>7. \A k \in Low .. head - 1 : Owned(k)' <=> Owned(k)
    BY <2>1 DEF Owned
  <2>8. \A k \in Low' .. head' - 1 : flag'[At(k)] <=> ~Owned(k)'
    BY <2>5, <2>6, <2>7 DEF SlotInv
  <2>9. \A s \in Slots : flag'[s] => \E k \in Low' .. head' - 1 : s = At(k)
    <3> SUFFICES ASSUME NEW s \in Slots, flag'[s]
                 PROVE  \E k \in Low' .. head' - 1 : s = At(k)
      OBVIOUS
    <3>1. PICK k \in Low .. head - 1 : s = At(k)
      BY <2>5 DEF SlotInv
    <3>2. k # tail
      BY <2>5, <3>1
    <3> QED
      BY <2>1, <3>1, <3>2, LowType
  <2> QED
    BY <2>1, <2>2, <2>4, <2>8, <2>9, LowType DEF SlotInv
<1>5. CASE PopMove \/ PopReturn \/ UNCHANGED vars
  <2>1. Working' = Working /\ Low' = Low /\ UNCHANGED <<index, flag, head>>
    BY <1>5, ConstantsAssumption
    DEF PopMove, PopReturn, ReturnToken, TokenAdd, Goto, vars, TypeInv, TypeOK, Threads, Working, Low
  <2> QED
    BY <2>1, SlotSame
<1> QED
  BY <1>1, <1>2, <1>3, <1>4, <1>5 DEF Next, Attempt, Finish, Pop, Terminating

-----------------------------------------------------------------------------
(* Contents *)

LEMMA InitFifo == Init => FifoInv
<1> SUFFICES ASSUME Init
             PROVE  FifoInv
  OBVIOUS
<1>1. Working = {} /\ Low = 0 /\ Producers \subseteq Threads /\ Consumer \in Threads
  BY ConstantsAssumption DEF Init, Working, Low, Threads
<1> QED
  BY <1>1 DEF Init, FifoInv

(* A step of a producer that touches neither tickets nor data. *)
LEMMA FifoSame ==
  ASSUME TypeInv, FifoInv, Working' = Working, Low' = Low,
         pc'[Consumer] = pc[Consumer],
         \A p \in Producers : pc'[p] = "publish" => pc[p] = "publish",
         UNCHANGED <<head, tail, index, pushed, claims, received, data>>
  PROVE  FifoInv'
<1>1. \A k : Owned(k)' <=> Owned(k)
  BY DEF Owned
<1>2. \A p : NextElement(p)' = NextElement(p)
  BY DEF NextElement
<1> QED
  BY <1>1, <1>2 DEF FifoInv

LEMMA NextFifo ==
  ASSUME TypeInv, TokensConserved, SlotInv, FifoInv, WrapSafe, [Next]_vars
  PROVE  FifoInv'
<1>1. ASSUME NEW p \in Producers, PushReserve(p) \/ PushReject(p) \/ PushUndo(p)
      PROVE  FifoInv'
  <2>1. /\ Working' = Working /\ Low' = Low /\ pc'[Consumer] = pc[Consumer]
        /\ \A q \in Producers : pc'[q] = "publish" => pc[q] = "publish"
        /\ UNCHANGED <<head, tail, index, pushed, claims, received, data>>
    <3>1. CASE PushReserve(p)
      BY <3>1, WorkingSame DEF PushReserve, TakeToken, Low, Working
    <3>2. CASE PushReject(p)
      BY <3>2, WorkingSame DEF PushReject, TakeToken, Low, Working
    <3>3. CASE PushUndo(p)
      BY <3>3, WorkingSame DEF PushUndo, Low, Working
    <3> QED
      BY <1>1, <3>1, <3>2, <3>3
  <2> QED
    BY <2>1, FifoSame
<1>2. ASSUME NEW p \in Producers, PushClaim(p)
      PROVE  FifoInv'
  <2>1. /\ Working' = Working \cup {p} /\ p \notin Working /\ Low' = Low
        /\ pc'[Consumer] = pc[Consumer]
        /\ \A q \in Producers : pc'[q] = "publish" => pc[q] = "publish" /\ q # p
        /\ head' = head + 1 /\ index' = [index EXCEPT ![p] = head]
        /\ claims' = Append(claims, NextElement(p))
        /\ UNCHANGED <<tail, data, pushed, received>>
    BY <1>2, WorkingSame DEF PushClaim, Low, Working
  <2>2. /\ index'[p] = head
        /\ \A q \in Producers : q # p => index'[q] = index[q]
    BY <2>1 DEF TypeInv, TypeOK
  <2>3. /\ Len(claims') = head + 1
        /\ claims'[head + 1] = NextElement(p)
        /\ \A i \in 1 .. head : claims'[i] = claims[i]
    <3>1. NextElement(p) \in Elements
      BY <1>2, ElementType DEF PushClaim
    <3>2. claims \in Seq(Elements) /\ Len(claims) = head /\ head \in Nat
      BY DEF TypeInv, TypeOK, FifoInv
    <3> QED
      BY <2>1, <3>1, <3>2, AppendProperties
  <2>4. \A q : NextElement(q)' = NextElement(q)
    BY <2>1 DEF NextElement
  <2>5. \A k \in Low' .. head' - 1 : ~Owned(k)' => k \in Low .. head - 1 /\ ~Owned(k)
    <3> SUFFICES ASSUME NEW k \in Low .. head, ~Owned(k)'
                 PROVE  k \in Low .. head - 1 /\ ~Owned(k)
      BY <2>1, LowType
    <3>1. k # head
      BY <2>1, <2>2 DEF Owned
    <3>2. ~Owned(k)
      BY <2>1, <2>2 DEF Owned, Working
    <3> QED
      BY <3>1, <3>2, LowType
  <2>6. \A q \in Working' : claims'[index'[q] + 1] = NextElement(q)'
    <3> SUFFICES ASSUME NEW q \in Working'
                 PROVE  claims'[index'[q] + 1] = NextElement(q)
      BY <2>4
    <3>1. CASE q = p
      BY <2>2, <2>3, <3>1
    <3>2. CASE q # p
      <4>1. q \in Working /\ index'[q] = index[q] /\ index[q] + 1 \in 1 .. head
        BY <2>1, <2>2, <3>2, LowType DEF SlotInv, Working
      <4> QED
        BY <2>3, <4>1 DEF FifoInv
    <3> QED
      BY <3>1, <3>2
  <2>7. \A q \in Producers : pc'[q] = "publish" => data'[At(index'[q])] = NextElement(q)'
    BY <2>1, <2>2, <2>4 DEF FifoInv
  <2>8. \A k \in Low' .. head' - 1 : ~Owned(k)' => data'[At(k)] = claims'[k + 1]
    <3> SUFFICES ASSUME NEW k \in Low' .. head' - 1, ~Owned(k)'
                 PROVE  data[At(k)] = claims'[k + 1]
      BY <2>1
    <3>1. k \in Low .. head - 1 /\ ~Owned(k)
      BY <2>5
    <3>2. k + 1 \in 1 .. head
      BY <3>1, LowType
    <3> QED
      BY <2>3, <3>1, <3>2 DEF FifoInv
  <2>9. pc[Consumer] # "idle" => tail + 1 \in 1 .. head
    BY LowType DEF SlotInv, Low
  <2>10. /\ Len(received) = IF pc[Consumer] = "return" THEN tail + 1 ELSE tail
         /\ Len(received) <= head
    BY <2>9, LowType DEF FifoInv, SlotInv, Low
  <2>11. \A i \in 1 .. Len(received') : received'[i] = claims'[i]
    BY <2>1, <2>3, <2>10, LowType DEF FifoInv
  <2>12. pc'[Consumer] = "move" => data'[At(tail')] = claims'[tail' + 1]
    BY <2>1, <2>3, <2>9 DEF FifoInv
  <2> QED
    BY <2>1, <2>3, <2>6, <2>7, <2>8, <2>10, <2>11, <2>12 DEF FifoInv
<1>3. ASSUME NEW p \in Producers, PushWrite(p)
      PROVE  FifoInv'
  <2>1. /\ Working' = Working /\ p \in Working /\ Low' = Low
        /\ pc'[Consumer] = pc[Consumer]
        /\ \A q \in Producers : pc'[q] = "publish" => pc[q] = "publish" \/ q = p
        /\ data' = [data EXCEPT ![At(index[p])] = NextElement(p)]
        /\ UNCHANGED <<head, tail, index, pushed, claims, received>>
    BY <1>3, WorkingSame DEF PushWrite, Low, Working
  <2>2. index[p] \in Low .. head - 1 /\ At(index[p]) \in Slots
    BY <2>1, LowType, AtType DEF SlotInv
  <2>3. \A k \in tail .. head - 1 :
          data'[At(k)] = IF k = index[p] THEN NextElement(p) ELSE data[At(k)]
    BY <2>1, <2>2, LowType, AtType, SlotsOfTickets DEF TypeInv, TypeOK
  <2>4. \A q : NextElement(q)' = NextElement(q)
    BY <2>1 DEF NextElement
  <2>5. \A k : Owned(k)' <=> Owned(k)
    BY <2>1 DEF Owned
  <2>6. \A q \in Producers : pc'[q] = "publish" => data'[At(index'[q])] = NextElement(q)'
    <3> SUFFICES ASSUME NEW q \in Producers, pc'[q] = "publish"
                 PROVE  data'[At(index[q])] = NextElement(q)
      BY <2>1, <2>4
    <3>1. q \in Working
      BY <2>1 DEF Working
    <3>2. index[q] \in tail .. head - 1 /\ (index[q] = index[p] => q = p)
      BY <2>1, <3>1, LowType DEF SlotInv
    <3> QED
      BY <2>1, <2>3, <3>2 DEF FifoInv
  <2>7. \A k \in Low' .. head' - 1 : ~Owned(k)' => data'[At(k)] = claims'[k + 1]
    BY <2>1, <2>3, <2>5, LowType DEF FifoInv, Owned
  <2>8. pc'[Consumer] = "move" => data'[At(tail')] = claims'[tail' + 1]
    <3> SUFFICES ASSUME pc[Consumer] = "move"
                 PROVE  data'[At(tail)] = claims[tail + 1]
      BY <2>1
    <3>1. tail \in tail .. head - 1 /\ tail # index[p]
      BY <2>2, LowType DEF Low
    <3> QED
      BY <2>3, <3>1 DEF FifoInv
  <2> QED
    BY <2>1, <2>4, <2>6, <2>7, <2>8 DEF FifoInv
<1>4. ASSUME NEW p \in Producers, PushPublish(p)
      PROVE  FifoInv'
  <2>1. /\ Working' = Working \ {p} /\ p \in Working /\ Low' = Low
        /\ pc'[Consumer] = pc[Consumer] /\ pc[p] = "publish"
        /\ \A q \in Producers : pc'[q] = "publish" => pc[q] = "publish" /\ q # p
        /\ pushed' = [pushed EXCEPT ![p] = @ + 1]
        /\ UNCHANGED <<head, tail, data, index, claims, received>>
    BY <1>4, WorkingSame DEF PushPublish, FlagStore, Low, Working
  <2>2. \A q \in Producers : q # p => NextElement(q)' = NextElement(q)
    BY <2>1 DEF NextElement, TypeInv, TypeOK
  <2>3. \A k : ~Owned(k)' => ~Owned(k) \/ k = index[p]
    BY <2>1 DEF Owned
  <2>4. data[At(index[p])] = claims[index[p] + 1]
    BY <2>1 DEF FifoInv
  <2>5. \A k \in Low' .. head' - 1 : ~Owned(k)' => data'[At(k)] = claims'[k + 1]
    BY <2>1, <2>3, <2>4 DEF FifoInv
  <2>6. \A q \in Working' : q \in Producers /\ q # p /\ q \in Working
    BY <2>1 DEF Working
  <2> QED
    BY <2>1, <2>2, <2>5, <2>6 DEF FifoInv
<1>5. CASE PopTake
  <2>1. /\ Working' = Working /\ Low = tail /\ Low' = tail + 1
        /\ pc[Consumer] = "idle" /\ pc'[Consumer] = "move"
        /\ \A p \in Producers : pc'[p] = pc[p]
        /\ flag[At(tail)]
        /\ UNCHANGED <<head, tail, data, index, pushed, claims, received>>
    BY <1>5, ConstantsAssumption
    DEF PopTake, Goto, TypeInv, TypeOK, Threads, Working, Low
  <2>2. tail \in Low .. head - 1 /\ ~Owned(tail)
    BY <2>1, LowType, AtType DEF SlotInv
  <2>3. data[At(tail)] = claims[tail + 1]
    BY <2>2 DEF FifoInv
  <2>4. \A q : NextElement(q)' = NextElement(q)
    BY <2>1 DEF NextElement
  <2>5. \A k : Owned(k)' <=> Owned(k)
    BY <2>1 DEF Owned
  <2>6. \A k \in Low' .. head' - 1 : k \in Low .. head - 1
    BY <2>1, LowType
  <2> QED
    BY <2>1, <2>3, <2>4, <2>5, <2>6 DEF FifoInv
<1>6. CASE PopMove
  <2>1. /\ Working' = Working /\ Low = tail + 1 /\ Low' = tail + 1
        /\ pc[Consumer] = "move" /\ pc'[Consumer] = "return"
        /\ \A p \in Producers : pc'[p] = pc[p]
        /\ received' = Append(received, data[At(tail)])
        /\ UNCHANGED <<head, tail, data, index, pushed, claims>>
    BY <1>6, ConstantsAssumption
    DEF PopMove, Goto, TypeInv, TypeOK, Threads, Working, Low
  <2>2. data[At(tail)] = claims[tail + 1] /\ Len(received) = tail /\ tail \in Nat
    BY <2>1, LowType DEF FifoInv
  <2>3. data[At(tail)] \in Elements \cup {NoData}
    BY <2>2, AtType DEF TypeInv, TypeOK
  <2>4. /\ Len(received') = tail + 1
        /\ received'[tail + 1] = claims[tail + 1]
        /\ \A i \in 1 .. tail : received'[i] = received[i]
    BY <2>1, <2>2, <2>3, AppendProperties DEF TypeInv, TypeOK
  <2>5. \A i \in 1 .. Len(received') : received'[i] = claims'[i]
    BY <2>1, <2>2, <2>4 DEF FifoInv
  <2>6. \A q : NextElement(q)' = NextElement(q)
    BY <2>1 DEF NextElement
  <2>7. \A k : Owned(k)' <=> Owned(k)
    BY <2>1 DEF Owned
  <2> QED
    BY <2>1, <2>4, <2>5, <2>6, <2>7 DEF FifoInv
<1>7. CASE PopReturn
  <2>1. /\ Working' = Working /\ Low' = Low
        /\ pc[Consumer] = "return" /\ pc'[Consumer] = "idle" /\ tail' = tail + 1
        /\ \A p \in Producers : pc'[p] = pc[p]
        /\ UNCHANGED <<head, data, index, pushed, claims, received>>
    BY <1>7, ConstantsAssumption
    DEF PopReturn, ReturnToken, TokenAdd, Goto, TypeInv, TypeOK, Threads, Working, Low
  <2>2. \A q : NextElement(q)' = NextElement(q)
    BY <2>1 DEF NextElement
  <2>3. \A k : Owned(k)' <=> Owned(k)
    BY <2>1 DEF Owned
  <2> QED
    BY <2>1, <2>2, <2>3 DEF FifoInv
<1>8. CASE UNCHANGED vars
  <2>1. Working' = Working /\ Low' = Low
    BY <1>8 DEF vars, Working, Low
  <2> QED
    BY <1>8, <2>1, FifoSame DEF vars
<1> QED
  BY <1>1, <1>2, <1>3, <1>4, <1>5, <1>6, <1>7, <1>8
  DEF Next, Attempt, Finish, Pop, Terminating

-----------------------------------------------------------------------------
(* Theorems *)

LEMMA Inductive ==
  ASSUME WrapSafe
  PROVE  /\ Init => IInv
         /\ IInv /\ [Next]_vars => IInv'
<1>1. Init => IInv
  BY InitType, InitTokens, InitSlot, InitFifo DEF IInv
<1>2. ASSUME IInv, [Next]_vars
      PROVE  IInv'
  BY <1>2, NextType, NextTokens, NextSlot, NextFifo DEF IInv
<1> QED
  BY <1>1, <1>2

LEMMA Safe ==
  ASSUME WrapSafe, IInv
  PROVE  SlotExclusive /\ FifoOrder /\ PopSeesOldest
<1> USE DEF IInv
<1>1. ASSUME NEW p \in Working, NEW q \in Working, p # q
      PROVE  At(index[p]) # At(index[q])
  <2>1. /\ index[p] \in tail .. head - 1 /\ index[q] \in tail .. head - 1
        /\ index[p] # index[q]
    BY <1>1, LowType DEF SlotInv
  <2> QED
    BY <2>1, SlotsOfTickets
<1>2. ASSUME NEW p \in Working
      PROVE  ~flag[At(index[p])]
  BY DEF SlotInv, Owned
<1>3. ASSUME NEW p \in Working, pc[Consumer] # "idle"
      PROVE  At(index[p]) # At(tail)
  <2>1. index[p] \in tail .. head - 1 /\ tail \in tail .. head - 1 /\ index[p] # tail
    BY <1>3, LowType DEF SlotInv, Low
  <2> QED
    BY <2>1, SlotsOfTickets
<1>4. Len(received) <= Len(claims)
  BY LowType DEF FifoInv, SlotInv, Low
<1>5. ASSUME pc[Consumer] = "idle"
      PROVE  flag[At(tail)] <=> tail < head /\ \A p \in Working : index[p] # tail
  <2>1. Low = tail /\ At(tail) \in Slots
    BY <1>5, LowType, AtType DEF Low
  <2>2. flag[At(tail)] => tail < head
    BY <2>1, LowType DEF SlotInv
  <2>3. tail < head => (flag[At(tail)] <=> ~Owned(tail))
    BY <2>1, LowType DEF SlotInv
  <2> QED
    BY <2>2, <2>3 DEF Owned
<1> QED
  BY <1>1, <1>2, <1>3, <1>4, <1>5
  DEF SlotExclusive, FifoOrder, PopSeesOldest, FifoInv

(* If the width of the counters is a multiple of the size, no two threads   *)
(* ever use the same node and no element is overwritten.                    *)
THEOREM SlotsAreExclusive == WrapSafe => (Spec => []SlotExclusive)
<1> SUFFICES ASSUME WrapSafe
             PROVE  Spec => []SlotExclusive
  OBVIOUS
<1>1. IInv => SlotExclusive
  BY Safe
<1> QED
  BY <1>1, Inductive, PTL DEF Spec

(* ... elements are received in the order of their tickets, each once and  *)
(* as they were pushed ...                                                 *)
THEOREM ElementsInOrder == WrapSafe => (Spec => []FifoOrder)
<1> SUFFICES ASSUME WrapSafe
             PROVE  Spec => []FifoOrder
  OBVIOUS
<1>1. IInv => FifoOrder
  BY Safe
<1> QED
  BY <1>1, Inductive, PTL DEF Spec

(* ... and pop fails exactly if the oldest ticket is not published.        *)
THEOREM PopFindsOldest == WrapSafe => (Spec => []PopSeesOldest)
<1> SUFFICES ASSUME WrapSafe
             PROVE  Spec => []PopSeesOldest
  OBVIOUS
<1>1. IInv => PopSeesOldest
  BY Safe
<1> QED
  BY <1>1, Inductive, PTL DEF Spec

-----------------------------------------------------------------------------
(* Memory orders: what each release store or increment carries to those who *)
(* acquire it.                                                              *)

OrderInv ==
  /\ \A p \in Producers : pc[p] = "publish" => At(index[p]) \in seen[p]
  /\ \A k \in Low .. head - 1 : ~Owned(k) => At(k) \in rel[FlagOf(At(k))]
  /\ pc[Consumer] # "idle" => At(tail) \in seen[Consumer]
  /\ FreeNodesReleased

(* A ticket not taken and a free node are never the same slot, nor are two  *)
(* free nodes.                                                              *)
LEMMA WindowOfSlots ==
  ASSUME TypeInv, WrapSafe
  PROVE  \A j, k \in tail .. tail + Size - 1 : j # k => At(j) # At(k)
<1> SUFFICES ASSUME NEW j \in tail .. tail + Size - 1, NEW k \in tail .. tail + Size - 1, j # k
             PROVE  At(j) # At(k)
  OBVIOUS
<1>1. tail \in Nat /\ Size \in Nat \ {0} /\ CounterMod \in Nat \ {0}
  BY ConstantsAssumption DEF TypeInv, TypeOK
<1>2. j \in Nat /\ k \in Nat /\ j < k + Size /\ k < j + Size
  BY <1>1
<1> QED
  BY <1>1, <1>2, WrappedSlotsDiffer DEF At, WrapSafe

LEMMA AtomicsDiffer ==
  /\ \A s \in Slots : FlagOf(s) \in Atomics /\ FlagOf(s) # Pcounter
  /\ \A s, u \in Slots : FlagOf(s) = FlagOf(u) => s = u
  /\ Pcounter \in Atomics
BY DEF Atomics, FlagOf, Pcounter

LEMMA InitOrder == Init => OrderInv
<1> SUFFICES ASSUME Init
             PROVE  OrderInv
  OBVIOUS
<1>1. Low = 0 /\ Producers \subseteq Threads /\ Consumer \in Threads /\ Size \in Nat \ {0}
  BY ConstantsAssumption DEF Init, Low, Threads
<1>2. \A k \in head .. tail + Size - 1 : At(k) \in Slots
  BY <1>1, AtType DEF Init
<1> QED
  BY <1>1, <1>2 DEF Init, OrderInv, FreeNodesReleased

LEMMA NextOrder ==
  ASSUME IInv, OrderInv, WrapSafe, [Next]_vars
  PROVE  OrderInv'
<1> USE DEF IInv
<1>a. /\ tail \in Nat /\ head \in Nat /\ Low \in {tail, tail + 1} /\ Low <= head
      /\ head <= tail + Size /\ Size \in Nat \ {0}
      /\ \A k \in Nat : At(k) \in Slots
  BY LowType, AtType, TicketsFit, ConstantsAssumption DEF SlotInv
<1>b. /\ seen \in [Threads -> SUBSET Slots] /\ rel \in [Atomics -> SUBSET Slots]
      /\ Producers \subseteq Threads /\ Consumer \in Threads /\ Consumer \notin Producers
      /\ index \in [Producers -> Nat]
  BY ConstantsAssumption DEF TypeInv, TypeOK, Threads
<1>1. ASSUME NEW p \in Producers, TakeToken(p), Goto(p, "claim") \/ Goto(p, "undo")
      PROVE  OrderInv'
  <2>1. /\ Working' = Working /\ Low' = Low
        /\ pc'[Consumer] = pc[Consumer]
        /\ \A q \in Producers : pc'[q] = "publish" => pc[q] = "publish"
        /\ UNCHANGED <<head, tail, index, rel>>
    <3>1. CASE Goto(p, "claim")
      BY <1>1, <3>1, WorkingSame DEF TakeToken, Low, Working
    <3>2. CASE Goto(p, "undo")
      BY <1>1, <3>2, WorkingSame DEF TakeToken, Low, Working
    <3> QED
      BY <1>1, <3>1, <3>2
  <2>2. \A t \in Threads : seen[t] \subseteq seen'[t]
    BY <1>1, <1>b DEF TakeToken, Acquire
  <2>3. \A k : Owned(k)' <=> Owned(k)
    BY <2>1 DEF Owned
  <2> QED
    BY <2>1, <2>2, <2>3, <1>b DEF OrderInv, FreeNodesReleased, At
<1>2. ASSUME NEW p \in Producers, PushUndo(p)
      PROVE  OrderInv'
  <2>1. /\ Working' = Working /\ Low' = Low
        /\ pc'[Consumer] = pc[Consumer]
        /\ \A q \in Producers : pc'[q] = "publish" => pc[q] = "publish"
        /\ UNCHANGED <<head, tail, index, seen, rel>>
    BY <1>2, WorkingSame DEF PushUndo, Low, Working
  <2>3. \A k : Owned(k)' <=> Owned(k)
    BY <2>1 DEF Owned
  <2> QED
    BY <2>1, <2>3 DEF OrderInv, FreeNodesReleased, At
<1>3. ASSUME NEW p \in Producers, PushClaim(p)
      PROVE  OrderInv'
  <2>1. /\ Working' = Working \cup {p} /\ p \notin Working /\ Low' = Low
        /\ pc'[Consumer] = pc[Consumer]
        /\ \A q \in Producers : pc'[q] = "publish" => pc[q] = "publish" /\ q # p
        /\ head' = head + 1 /\ index' = [index EXCEPT ![p] = head]
        /\ UNCHANGED <<tail, seen, rel>>
    BY <1>3, WorkingSame DEF PushClaim, Low, Working
  <2>2. /\ index'[p] = head
        /\ \A q \in Producers : q # p => index'[q] = index[q]
    BY <2>1, <1>b
  <2>3. \A k \in Low .. head : ~Owned(k)' => k \in Low .. head - 1 /\ ~Owned(k)
    BY <2>1, <2>2, <1>a DEF Owned, Working
  <2>4. \A q \in Producers : pc'[q] = "publish" => At(index'[q]) \in seen'[q]
    BY <2>1, <2>2 DEF OrderInv
  <2>5. \A k \in Low' .. head' - 1 : ~Owned(k)' => At(k) \in rel'[FlagOf(At(k))]
    BY <2>1, <2>3, <1>a DEF OrderInv
  <2>6. FreeNodesReleased'
    BY <2>1, <1>a DEF OrderInv, FreeNodesReleased, At
  <2> QED
    BY <2>1, <2>4, <2>5, <2>6 DEF OrderInv, At
<1>4. ASSUME NEW p \in Producers, PushWrite(p)
      PROVE  OrderInv'
  <2> DEFINE s == At(index[p])
  <2>1. /\ Working' = Working /\ p \in Working /\ Low' = Low
        /\ pc'[Consumer] = pc[Consumer]
        /\ \A q \in Producers : pc'[q] = "publish" => pc[q] = "publish" \/ q = p
        /\ UNCHANGED <<head, tail, index>>
    BY <1>4, WorkingSame DEF PushWrite, Low, Working
  <2>2. index[p] \in Low .. head - 1 /\ index[p] \in tail .. tail + Size - 1
    BY <2>1, <1>a DEF SlotInv
  <2>3. /\ \A t \in Threads : seen'[t] = IF t = p THEN seen[t] \cup {s} ELSE seen[t] \ {s}
        /\ \A a \in Atomics : rel'[a] = rel[a] \ {s}
    BY <1>4, <1>b DEF PushWrite, Touch, Forget
  <2>4. \A k \in tail .. tail + Size - 1 : k # index[p] => At(k) # s
    BY <2>2, WindowOfSlots
  <2> HIDE DEF s
  <2>5. \A k : Owned(k)' <=> Owned(k)
    BY <2>1 DEF Owned
  <2>6. \A q \in Producers : pc'[q] = "publish" => At(index[q]) \in seen'[q]
    <3> SUFFICES ASSUME NEW q \in Producers, pc'[q] = "publish"
                 PROVE  At(index[q]) \in seen'[q]
      OBVIOUS
    <3>1. CASE q = p
      BY <2>3, <3>1, <1>b DEF s
    <3>2. CASE q # p
      <4>1. q \in Working /\ pc[q] = "publish"
        BY <2>1, <3>2 DEF Working
      <4>2. index[q] \in tail .. tail + Size - 1 /\ index[q] # index[p]
        BY <4>1, <3>2, <2>1, <1>a DEF SlotInv
      <4>3. At(index[q]) \in seen[q]
        BY <4>1 DEF OrderInv
      <4> QED
        BY <2>3, <2>4, <3>2, <4>2, <4>3, <1>b
    <3> QED
      BY <3>1, <3>2
  <2>7. \A k \in Low .. head - 1 : ~Owned(k) => At(k) \in rel'[FlagOf(At(k))]
    <3> SUFFICES ASSUME NEW k \in Low .. head - 1, ~Owned(k)
                 PROVE  At(k) \in rel'[FlagOf(At(k))]
      OBVIOUS
    <3>1. k # index[p] /\ k \in tail .. tail + Size - 1 /\ At(k) \in Slots
      BY <2>1, <1>a DEF Owned
    <3> QED
      BY <2>3, <2>4, <3>1, AtomicsDiffer DEF OrderInv
  <2>8. ASSUME pc[Consumer] # "idle"
        PROVE  At(tail) \in seen'[Consumer]
    <3>1. tail # index[p] /\ tail \in tail .. tail + Size - 1
      BY <2>2, <2>8, <1>a DEF Low
    <3>2. At(tail) # s
      BY <2>4, <3>1
    <3>3. At(tail) \in seen[Consumer] /\ Consumer # p
      BY <2>8, <1>b DEF OrderInv
    <3> QED
      BY <2>3, <3>2, <3>3, <1>b
  <2>9. \A q \in Producers, k \in head .. tail + Size - 1 : At(k) \in seen'[q] \cup rel'[Pcounter]
    <3> SUFFICES ASSUME NEW q \in Producers, NEW k \in head .. tail + Size - 1
                 PROVE  At(k) \in seen'[q] \cup rel'[Pcounter]
      OBVIOUS
    <3>1. k # index[p] /\ k \in tail .. tail + Size - 1
      BY <2>2, <1>a
    <3>2. At(k) \in seen[q] \cup rel[Pcounter]
      BY DEF OrderInv, FreeNodesReleased
    <3> QED
      BY <2>3, <2>4, <3>1, <3>2, <1>b, AtomicsDiffer
  <2> QED
    BY <2>1, <2>5, <2>6, <2>7, <2>8, <2>9 DEF OrderInv, FreeNodesReleased, At
<1>5. ASSUME NEW p \in Producers, PushPublish(p)
      PROVE  OrderInv'
  <2>1. /\ Working' = Working \ {p} /\ p \in Working /\ Low' = Low
        /\ pc'[Consumer] = pc[Consumer] /\ pc[p] = "publish"
        /\ \A q \in Producers : pc'[q] = "publish" => pc[q] = "publish"
        /\ rel' = [rel EXCEPT ![FlagOf(At(index[p]))] = seen[p]]
        /\ UNCHANGED <<head, tail, index, seen>>
    BY <1>5, WorkingSame DEF PushPublish, FlagStore, StoreRelease, Low, Working
  <2>2. At(index[p]) \in Slots /\ index[p] \in tail .. tail + Size - 1
    BY <2>1, <1>a, <1>b DEF SlotInv
  <2>3. \A k : ~Owned(k)' => ~Owned(k) \/ k = index[p]
    BY <2>1 DEF Owned
  <2>4. rel'[Pcounter] = rel[Pcounter]
    BY <2>1, <2>2, <1>b, AtomicsDiffer
  <2>5. \A k \in Low .. head - 1 : ~Owned(k)' => At(k) \in rel'[FlagOf(At(k))]
    <3> SUFFICES ASSUME NEW k \in Low .. head - 1, ~Owned(k)'
                 PROVE  At(k) \in rel'[FlagOf(At(k))]
      OBVIOUS
    <3>1. k \in tail .. tail + Size - 1 /\ At(k) \in Slots
      BY <1>a
    <3>2. CASE k = index[p]
      BY <2>1, <3>1, <3>2, <1>b, AtomicsDiffer DEF OrderInv
    <3>3. CASE k # index[p]
      <4>1. At(k) # At(index[p])
        BY <2>2, <3>1, <3>3, WindowOfSlots
      <4>2. At(k) \in rel[FlagOf(At(k))]
        BY <2>3, <3>3 DEF OrderInv
      <4> QED
        BY <2>1, <2>2, <3>1, <4>1, <4>2, <1>b, AtomicsDiffer
    <3> QED
      BY <3>2, <3>3
  <2> QED
    BY <2>1, <2>4, <2>5 DEF OrderInv, FreeNodesReleased, At
<1>6. CASE PopTake
  <2>1. /\ Working' = Working /\ Low = tail /\ Low' = tail + 1
        /\ \A p \in Producers : pc'[p] = pc[p]
        /\ seen' = [seen EXCEPT ![Consumer] = @ \cup rel[FlagOf(At(tail))]]
        /\ flag[At(tail)]
        /\ UNCHANGED <<head, tail, index, rel>>
    BY <1>6, ConstantsAssumption
    DEF PopTake, Acquire, Goto, TypeInv, TypeOK, Threads, Working, Low
  <2>2. tail \in Low .. head - 1 /\ ~Owned(tail)
    BY <2>1, <1>a DEF SlotInv
  <2>3. At(tail) \in rel[FlagOf(At(tail))]
    BY <2>2 DEF OrderInv
  <2>4. /\ At(tail) \in seen'[Consumer]
        /\ \A p \in Producers : seen'[p] = seen[p]
    BY <2>1, <2>3, <1>b
  <2>5. \A k : Owned(k)' <=> Owned(k)
    BY <2>1 DEF Owned
  <2>6. \A k \in Low' .. head' - 1 : k \in Low .. head - 1
    BY <2>1, <1>a
  <2> QED
    BY <2>1, <2>4, <2>5, <2>6 DEF OrderInv, FreeNodesReleased, At
<1>7. CASE PopMove
  <2> DEFINE s == At(tail)
  <2>1. /\ Working' = Working /\ Low = tail + 1 /\ Low' = tail + 1
        /\ \A p \in Producers : pc'[p] = pc[p]
        /\ UNCHANGED <<head, tail, index>>
    BY <1>7, ConstantsAssumption
    DEF PopMove, Goto, TypeInv, TypeOK, Threads, Working, Low
  <2>2. /\ \A t \in Threads : seen'[t] = IF t = Consumer THEN seen[t] \cup {s} ELSE seen[t] \ {s}
        /\ \A a \in Atomics : rel'[a] = rel[a] \ {s}
    BY <1>7, <1>b DEF PopMove, Touch, Forget
  <2>3. \A k \in tail + 1 .. tail + Size - 1 : At(k) # s
    BY WindowOfSlots, <1>a
  <2> HIDE DEF s
  <2>4. \A k : Owned(k)' <=> Owned(k)
    BY <2>1 DEF Owned
  <2>5. \A p \in Producers : pc[p] = "publish" => At(index[p]) \in seen'[p]
    <3> SUFFICES ASSUME NEW p \in Producers, pc[p] = "publish"
                 PROVE  At(index[p]) \in seen'[p]
      OBVIOUS
    <3>1. index[p] \in tail + 1 .. tail + Size - 1
      BY <2>1, <1>a DEF SlotInv, Working
    <3> QED
      BY <2>2, <2>3, <3>1, <1>b DEF OrderInv
  <2>6. \A k \in Low .. head - 1 : ~Owned(k) => At(k) \in rel'[FlagOf(At(k))]
    <3> SUFFICES ASSUME NEW k \in Low .. head - 1, ~Owned(k)
                 PROVE  At(k) \in rel'[FlagOf(At(k))]
      OBVIOUS
    <3>1. k \in tail + 1 .. tail + Size - 1 /\ At(k) \in Slots
      BY <2>1, <1>a
    <3> QED
      BY <2>2, <2>3, <3>1, AtomicsDiffer DEF OrderInv
  <2>7. At(tail) \in seen'[Consumer]
    BY <2>2, <1>b DEF s
  <2>8. \A q \in Producers, k \in head .. tail + Size - 1 : At(k) \in seen'[q] \cup rel'[Pcounter]
    <3> SUFFICES ASSUME NEW q \in Producers, NEW k \in head .. tail + Size - 1
                 PROVE  At(k) \in seen'[q] \cup rel'[Pcounter]
      OBVIOUS
    <3>1. k \in tail + 1 .. tail + Size - 1
      BY <2>1, <1>a
    <3>2. At(k) \in seen[q] \cup rel[Pcounter]
      BY DEF OrderInv, FreeNodesReleased
    <3> QED
      BY <2>2, <2>3, <3>1, <3>2, <1>b, AtomicsDiffer
  <2> QED
    BY <2>1, <2>4, <2>5, <2>6, <2>7, <2>8 DEF OrderInv, FreeNodesReleased, At
<1>8. CASE PopReturn
  <2>1. /\ Working' = Working /\ Low' = Low
        /\ pc[Consumer] = "return" /\ pc'[Consumer] = "idle" /\ tail' = tail + 1
        /\ \A p \in Producers : pc'[p] = pc[p]
        /\ rel' = [rel EXCEPT ![Pcounter] = @ \cup seen[Consumer]]
        /\ UNCHANGED <<head, index, seen>>
    BY <1>8, ConstantsAssumption
    DEF PopReturn, ReturnToken, TokenAdd, RmwRelease, Goto, TypeInv, TypeOK, Threads, Working, Low
  <2>2. /\ rel'[Pcounter] = rel[Pcounter] \cup seen[Consumer]
        /\ \A s \in Slots : rel'[FlagOf(s)] = rel[FlagOf(s)]
    BY <2>1, <1>b, AtomicsDiffer
  <2>3. At(tail + Size) = At(tail)
    BY <1>a, ConstantsAssumption, NextLap DEF At, WrapSafe
  <2>4. \A k : Owned(k)' <=> Owned(k)
    BY <2>1 DEF Owned
  <2>5. \A k \in Low .. head - 1 : ~Owned(k) => At(k) \in rel'[FlagOf(At(k))]
    BY <2>2, <1>a DEF OrderInv
  <2>6. \A q \in Producers, k \in head .. tail + 1 + Size - 1 : At(k) \in seen[q] \cup rel'[Pcounter]
    <3> SUFFICES ASSUME NEW q \in Producers, NEW k \in head .. tail + 1 + Size - 1
                 PROVE  At(k) \in seen[q] \cup rel'[Pcounter]
      OBVIOUS
    <3>1. CASE k \in head .. tail + Size - 1
      BY <2>2, <3>1 DEF OrderInv, FreeNodesReleased
    <3>2. CASE k = tail + Size
      BY <2>1, <2>2, <2>3, <3>2 DEF OrderInv
    <3> QED
      BY <3>1, <3>2, <1>a
  <2> QED
    BY <2>1, <2>4, <2>5, <2>6 DEF OrderInv, FreeNodesReleased, At
<1>9. CASE UNCHANGED vars
  <2>1. Low' = Low /\ \A k : Owned(k)' <=> Owned(k)
    BY <1>9 DEF vars, Owned, Working, Low
  <2> QED
    BY <1>9, <2>1 DEF vars, OrderInv, FreeNodesReleased, At
<1> QED
  BY <1>1, <1>2, <1>3, <1>4, <1>5, <1>6, <1>7, <1>8, <1>9
  DEF Next, Attempt, PushReserve, PushReject, Finish, Pop, Terminating

(* ... and the memory orders of the flags and of pcounter_ order the plain  *)
(* accesses to each node on both ways it is handed over.                    *)
THEOREM HandoversAreOrdered == WrapSafe => (Spec => []HandoversOrdered)
<1> SUFFICES ASSUME WrapSafe
             PROVE  Spec => []HandoversOrdered
  OBVIOUS
<1>1. Init => IInv /\ OrderInv
  BY Inductive, InitOrder
<1>2. IInv /\ OrderInv /\ [Next]_vars => (IInv /\ OrderInv)'
  BY Inductive, NextOrder
<1>3. OrderInv => HandoversOrdered
  BY DEF OrderInv, HandoversOrdered, ConsumerOrdered
<1> QED
  BY <1>1, <1>2, <1>3, PTL DEF Spec

-----------------------------------------------------------------------------
(* Refinement of TicketQueue *)

(* No element has two tickets: those of a producer have increasing numbers. *)
UniqueInv ==
  /\ \A i \in 1 .. Len(claims) :
       /\ claims[i][2] <= pushed[claims[i][1]] + 1
       /\ claims[i][1] \notin Working => claims[i][2] <= pushed[claims[i][1]]
  /\ \A i, j \in 1 .. Len(claims) : claims[i] = claims[j] => i = j

LEMMA InitUnique == Init => UniqueInv
BY DEF Init, UniqueInv

LEMMA NextUnique ==
  ASSUME TypeInv, UniqueInv, [Next]_vars
  PROVE  UniqueInv'
<1>0. \A i \in 1 .. Len(claims) :
        /\ claims[i] \in Elements
        /\ claims[i][1] \in Producers /\ claims[i][2] \in Nat
        /\ pushed[claims[i][1]] \in Nat
  BY ConstantsAssumption DEF TypeInv, TypeOK, Elements
<1>1. ASSUME NEW p \in Producers, PushClaim(p)
      PROVE  UniqueInv'
  <2>1. /\ Working' = Working \cup {p} /\ p \notin Working
        /\ claims' = Append(claims, NextElement(p)) /\ pushed' = pushed
    BY <1>1, WorkingSame DEF PushClaim, Working
  <2>2. NextElement(p) \in Elements /\ claims \in Seq(Elements)
    BY <1>1, ElementType DEF PushClaim, TypeInv, TypeOK
  <2>3. /\ Len(claims') = Len(claims) + 1 /\ Len(claims) \in Nat
        /\ claims'[Len(claims) + 1] = NextElement(p)
        /\ \A i \in 1 .. Len(claims) : claims'[i] = claims[i]
    BY <2>1, <2>2, AppendProperties
  <2>4. NextElement(p)[1] = p /\ NextElement(p)[2] = pushed[p] + 1 /\ pushed[p] \in Nat
    BY ConstantsAssumption DEF NextElement, TypeInv, TypeOK
  <2>5. \A i \in 1 .. Len(claims) : claims[i] # NextElement(p)
    BY <1>0, <2>1, <2>4 DEF UniqueInv
  <2>6. ASSUME NEW i \in 1 .. Len(claims')
        PROVE  /\ claims'[i][2] <= pushed'[claims'[i][1]] + 1
               /\ claims'[i][1] \notin Working' => claims'[i][2] <= pushed'[claims'[i][1]]
    <3>1. CASE i \in 1 .. Len(claims)
      BY <2>1, <2>3, <3>1 DEF UniqueInv
    <3>2. CASE i = Len(claims) + 1
      BY <2>1, <2>3, <2>4, <3>2
    <3> QED
      BY <2>3, <3>1, <3>2
  <2>7. ASSUME NEW i \in 1 .. Len(claims'), NEW j \in 1 .. Len(claims'),
               claims'[i] = claims'[j]
        PROVE  i = j
    BY <2>3, <2>5, <2>7 DEF UniqueInv
  <2> QED
    BY <2>6, <2>7 DEF UniqueInv
<1>2. ASSUME NEW p \in Producers, PushPublish(p)
      PROVE  UniqueInv'
  <2>1. /\ Working' = Working \ {p} /\ claims' = claims
        /\ pushed' = [pushed EXCEPT ![p] = @ + 1]
    BY <1>2, WorkingSame DEF PushPublish, FlagStore
  <2>2. \A q \in Producers : pushed'[q] = IF q = p THEN pushed[q] + 1 ELSE pushed[q]
    BY <2>1 DEF TypeInv, TypeOK
  <2> QED
    BY <1>0, <2>1, <2>2 DEF UniqueInv
<1>3. ASSUME Working' = Working, UNCHANGED <<claims, pushed>>
      PROVE  UniqueInv'
  BY <1>3 DEF UniqueInv
<1>4. ASSUME NEW p \in Producers, PushReserve(p) \/ PushReject(p) \/ PushUndo(p) \/ PushWrite(p)
      PROVE  UniqueInv'
  <2>1. Working' = Working /\ UNCHANGED <<claims, pushed>>
    <3>1. CASE PushReserve(p)
      BY <3>1, WorkingSame DEF PushReserve, TakeToken, Working
    <3>2. CASE PushReject(p)
      BY <3>2, WorkingSame DEF PushReject, TakeToken, Working
    <3>3. CASE PushUndo(p)
      BY <3>3, WorkingSame DEF PushUndo, Working
    <3>4. CASE PushWrite(p)
      BY <3>4, WorkingSame DEF PushWrite, Working
    <3> QED
      BY <1>4, <3>1, <3>2, <3>3, <3>4
  <2> QED
    BY <1>3, <2>1
<1>5. CASE Pop \/ UNCHANGED vars
  <2>1. Working' = Working /\ UNCHANGED <<claims, pushed>>
    BY <1>5, ConstantsAssumption
    DEF Pop, PopTake, PopMove, PopReturn, ReturnToken, TokenAdd, Goto, vars, TypeInv, TypeOK,
        Threads, Working
  <2> QED
    BY <1>3, <2>1
<1> QED
  BY <1>1, <1>2, <1>4, <1>5 DEF Next, Attempt, Finish, Terminating

(* The line is the part of claims that was not received. *)
LEMMA LineFacts ==
  ASSUME TypeInv, SlotInv, FifoInv
  PROVE  /\ Len(received) \in Nat /\ Len(claims) = head /\ head \in Nat
         /\ Len(received) <= head /\ Len(received) <= Low
         /\ Line \in Seq(Elements) /\ Len(Line) = head - Len(received)
         /\ \A i \in 1 .. Len(Line) : Line[i] = claims[Len(received) + i]
         /\ \A e : e \in TQ!InLine <=> \E k \in Len(received) + 1 .. head : e = claims[k]
<1>1. /\ Len(received) \in Nat /\ Len(claims) = head /\ head \in Nat
      /\ Len(received) <= head /\ Len(received) <= Low
  BY LowType DEF FifoInv, SlotInv, Low
<1>2. \A i \in Len(received) + 1 .. head : claims[i] \in Elements
  BY <1>1 DEF TypeInv, TypeOK
<1> DEFINE m == Len(received) + 1
<1>3. m \in Int /\ head \in Int /\ m <= head + 1
  BY <1>1
<1>4. /\ SubSeq(claims, m, head) \in Seq(Elements)
      /\ Len(SubSeq(claims, m, head)) = IF m <= head THEN head - m + 1 ELSE 0
      /\ \A i \in 1 .. head - m + 1 : SubSeq(claims, m, head)[i] = claims[m + i - 1]
  <2> HIDE DEF m
  <2>1. \A i \in m .. head : claims[i] \in Elements
    BY <1>2 DEF m
  <2> QED
    BY <1>3, <2>1, SubSeqProperties
<1>5. Line = SubSeq(claims, m, head)
  BY <1>1 DEF Line
<1>6. /\ Line \in Seq(Elements) /\ Len(Line) = head - Len(received)
      /\ \A i \in 1 .. Len(Line) : Line[i] = claims[Len(received) + i]
  BY <1>1, <1>4, <1>5
<1>7. ASSUME NEW e
      PROVE  e \in TQ!InLine <=> \E k \in Len(received) + 1 .. head : e = claims[k]
  <2>1. ASSUME NEW i \in 1 .. Len(Line), e = Line[i]
        PROVE  \E k \in Len(received) + 1 .. head : e = claims[k]
    <3>1. Len(received) + i \in Len(received) + 1 .. head /\ e = claims[Len(received) + i]
      BY <1>1, <1>6, <2>1
    <3> QED
      BY <3>1
  <2>2. ASSUME NEW k \in Len(received) + 1 .. head, e = claims[k]
        PROVE  \E i \in 1 .. Len(Line) : e = Line[i]
    <3>1. k - Len(received) \in 1 .. Len(Line) /\ e = Line[k - Len(received)]
      BY <1>1, <1>6, <2>2
    <3> QED
      BY <3>1
  <2> QED
    BY <2>1, <2>2 DEF TQ!InLine
<1> QED
  BY <1>1, <1>6, <1>7

Ready == TQ!InLine \ Unpublished

LEMMA InitRefines == Init => TQ!Init
<1> SUFFICES ASSUME Init
             PROVE  TQ!Init
  OBVIOUS
<1>1. Line = << >>
  BY SubSeqEmpty DEF Init, Line
<1> QED
  BY <1>1 DEF Init, TQ!Init

(* An element that is being written or published has its place in the line. *)
LEMMA UnpublishedInLine ==
  ASSUME TypeInv, SlotInv, FifoInv, UniqueInv, NEW p \in Working
  PROVE  /\ NextElement(p) \in TQ!InLine
         /\ \A k \in 1 .. head : claims[k] = NextElement(p) => k = index[p] + 1
         /\ \A q \in Working : NextElement(q) = NextElement(p) => q = p
<1>1. index[p] + 1 \in Len(received) + 1 .. head /\ index[p] + 1 \in 1 .. head
  BY LineFacts, LowType DEF SlotInv
<1>2. claims[index[p] + 1] = NextElement(p)
  BY DEF FifoInv
<1>3. NextElement(p) \in TQ!InLine
  BY <1>1, <1>2, LineFacts
<1>4. ASSUME NEW k \in 1 .. head, claims[k] = NextElement(p)
      PROVE  k = index[p] + 1
  BY <1>1, <1>2, <1>4, LineFacts DEF UniqueInv
<1>5. ASSUME NEW q \in Working, NextElement(q) = NextElement(p)
      PROVE  q = p
  BY <1>5 DEF NextElement
<1> QED
  BY <1>3, <1>4, <1>5

LEMMA ClaimRefines ==
  ASSUME IInv, UniqueInv, NEW p \in Producers, PushClaim(p)
  PROVE  TQ!Claim(NextElement(p)) /\ NextElement(p) \in Elements
<1> USE DEF IInv
<1> DEFINE e == NextElement(p)
<1>1. /\ e \in Elements /\ pc[p] = "claim" /\ p \notin Working
      /\ claims' = Append(claims, e) /\ received' = received
      /\ pushed' = pushed /\ Working' = Working \cup {p}
  BY ElementType, WorkingSame DEF PushClaim, Working
<1>2. e \notin TQ!InLine
  <2>1. e[1] = p /\ e[2] = pushed[p] + 1 /\ pushed[p] \in Nat
    BY ConstantsAssumption DEF NextElement, TypeInv, TypeOK
  <2>2. \A k \in 1 .. head : claims[k] # e
    BY <1>1, <2>1, LineFacts DEF UniqueInv
  <2> QED
    BY <2>2, LineFacts
<1>3. Len(Line) < Size
  <2>1. head < tail + Size /\ tail <= Len(received) /\ Size \in Nat
    BY <1>1, TicketsFit, ConstantsAssumption, LowType DEF FifoInv
  <2> QED
    BY <2>1, LineFacts, LowType
<1>4. Line' = Append(Line, e)
  <2> DEFINE m == Len(received) + 1
  <2>1. /\ m \in 1 .. head + 1 /\ claims \in Seq(Elements) /\ Len(claims) = head
        /\ head \in Nat
    BY LineFacts DEF TypeInv, TypeOK
  <2>2. claims' \in Seq(Elements) /\ Len(claims') = head + 1
    BY <1>1, <2>1, AppendProperties
  <2>3. Line' = SubSeq(claims', m, head + 1)
    BY <1>1, <2>2 DEF Line
  <2>4. Line = SubSeq(claims, m, head)
    BY <2>1 DEF Line
  <2>5. /\ Line' \in Seq(Elements) /\ Len(Line') = head + 1 - m + 1
        /\ \A i \in 1 .. head + 1 - m + 1 : Line'[i] = claims'[m + i - 1]
    <3> DEFINE n == head + 1
    <3>1. \A i \in m .. n : claims'[i] \in Elements
      BY <2>1, <2>2
    <3>2. m \in Int /\ n \in Int /\ m <= n /\ n - m + 1 = head + 1 - m + 1
      BY <2>1
    <3>3. Line' = SubSeq(claims', m, n)
      BY <2>3
    <3>4. /\ SubSeq(claims', m, n) \in Seq(Elements)
          /\ Len(SubSeq(claims', m, n)) = IF m <= n THEN n - m + 1 ELSE 0
          /\ \A i \in 1 .. n - m + 1 : SubSeq(claims', m, n)[i] = claims'[m + i - 1]
      <4> HIDE DEF m, n
      <4> QED
        BY <3>1, <3>2, SubSeqProperties
    <3> HIDE DEF m, n
    <3>5. Len(SubSeq(claims', m, n)) = n - m + 1
      BY <3>2, <3>4
    <3> QED
      BY <3>2, <3>3, <3>4, <3>5
  <2>6. /\ Append(Line, e) \in Seq(Elements) /\ Len(Append(Line, e)) = Len(Line) + 1
        /\ \A i \in 1 .. Len(Line) : Append(Line, e)[i] = Line[i]
        /\ Append(Line, e)[Len(Line) + 1] = e
    BY <1>1, LineFacts, AppendProperties
  <2>7. \A i \in 1 .. Len(Line') : Line'[i] = Append(Line, e)[i]
    <3> SUFFICES ASSUME NEW i \in 1 .. Len(Line')
                 PROVE  Line'[i] = Append(Line, e)[i]
      OBVIOUS
    <3>1. CASE i \in 1 .. Len(Line)
      <4>1. m + i - 1 \in 1 .. head /\ m + i - 1 = Len(received) + i
        BY <3>1, LineFacts
      <4>2. claims'[m + i - 1] = claims[Len(received) + i]
        BY <1>1, <2>1, <4>1, AppendProperties
      <4> QED
        BY <2>5, <2>6, <3>1, <4>2, LineFacts
    <3>2. CASE i = Len(Line) + 1
      <4>1. m + i - 1 = head + 1
        BY <3>2, LineFacts
      <4>2. claims'[m + i - 1] = e
        BY <1>1, <2>1, <4>1, AppendProperties
      <4> QED
        BY <2>5, <2>6, <3>2, <4>2, LineFacts
    <3> QED
      BY <2>5, <3>1, <3>2, LineFacts
  <2>8. Len(Line') = Len(Append(Line, e))
    BY <2>5, <2>6, LineFacts
  <2> QED
    BY <2>5, <2>6, <2>7, <2>8
<1>5. Ready' = Ready
  <2>1. TQ!InLine' = TQ!InLine \cup {e}
    <3>1. \A i \in 1 .. Len(Line) : Line'[i] = Line[i]
      BY <1>1, <1>4, LineFacts, AppendProperties
    <3>2. Len(Line') = Len(Line) + 1 /\ Line'[Len(Line) + 1] = e /\ Len(Line) \in Nat
      BY <1>1, <1>4, LineFacts, AppendProperties
    <3> QED
      BY <3>1, <3>2 DEF TQ!InLine
  <2>2. Unpublished' = Unpublished \cup {e}
    BY <1>1 DEF Unpublished, NextElement
  <2> QED
    BY <1>2, <2>1, <2>2 DEF Ready
<1> QED
  BY <1>1, <1>2, <1>3, <1>4, <1>5 DEF TQ!Claim, Ready, TQ!InLine

LEMMA PublishRefines ==
  ASSUME IInv, UniqueInv, NEW p \in Producers, PushPublish(p)
  PROVE  TQ!Publish(NextElement(p)) /\ NextElement(p) \in Elements
<1> USE DEF IInv
<1>1. /\ NextElement(p) \in Elements /\ p \in Working
      /\ claims' = claims /\ received' = received
      /\ pushed' = [pushed EXCEPT ![p] = @ + 1] /\ Working' = Working \ {p}
  BY ElementType, WorkingSame DEF PushPublish, FlagStore, Working
<1>2. Line' = Line
  BY <1>1 DEF Line
<1>3. TQ!InLine' = TQ!InLine
  BY <1>2 DEF TQ!InLine
<1>4. \A q \in Producers : q # p => NextElement(q)' = NextElement(q)
  BY <1>1 DEF NextElement, TypeInv, TypeOK
<1>5. Unpublished' = Unpublished \ {NextElement(p)}
  BY <1>1, <1>4, UnpublishedInLine DEF Unpublished, Working
<1>6. NextElement(p) \in TQ!InLine /\ NextElement(p) \in Unpublished
  BY <1>1, UnpublishedInLine DEF Unpublished
<1>7. Ready' = Ready \cup {NextElement(p)}
  BY <1>3, <1>5, <1>6 DEF Ready
<1> QED
  BY <1>1, <1>2, <1>6, <1>7 DEF TQ!Publish, Ready, TQ!InLine

LEMMA MoveRefines ==
  ASSUME IInv, UniqueInv, PopMove
  PROVE  TQ!Take
<1> USE DEF IInv
<1> DEFINE e == claims[tail + 1]
<1>1. /\ Working' = Working /\ pc[Consumer] = "move" /\ Low = tail + 1
      /\ received' = Append(received, data[At(tail)])
      /\ claims' = claims /\ pushed' = pushed
  BY ConstantsAssumption DEF PopMove, Goto, TypeInv, TypeOK, Threads, Working, Low
<1>2. /\ Len(received) = tail /\ data[At(tail)] = e /\ tail \in Nat /\ tail < head
      /\ data[At(tail)] \in Elements \cup {NoData}
  BY <1>1, LowType, AtType DEF FifoInv, SlotInv, TypeInv, TypeOK
<1>3. Line # << >> /\ Head(Line) = e
  BY <1>2, LineFacts
<1>4. e \in TQ!InLine
  BY <1>2, LineFacts
<1>5. e \notin Unpublished
  <2> SUFFICES ASSUME NEW q \in Working, e = NextElement(q)
               PROVE  FALSE
    BY DEF Unpublished
  <2>1. index[q] = tail
    BY <1>2, UnpublishedInLine, LowType DEF SlotInv, TypeInv, TypeOK
  <2> QED
    BY <1>1, <2>1, LowType DEF SlotInv
<1>6. Len(received') = tail + 1
  BY <1>1, <1>2, AppendProperties DEF TypeInv, TypeOK
<1>7. Line' = Tail(Line)
  <2>1. Line = SubSeq(claims, tail + 1, head) /\ Line' = SubSeq(claims, tail + 2, head)
    <3>1. Len(claims) = head /\ Len(claims') = head
      BY <1>1, LineFacts
    <3>2. Len(received) + 1 = tail + 1 /\ Len(received') + 1 = tail + 2
      BY <1>2, <1>6
    <3>3. Line = SubSeq(claims, Len(received) + 1, Len(claims))
      BY DEF Line
    <3>4. Line' = SubSeq(claims', Len(received') + 1, Len(claims'))
      BY DEF Line
    <3> QED
      BY <1>1, <3>1, <3>2, <3>3, <3>4
  <2>2. tail + 1 \in 1 .. Len(claims) /\ head \in tail + 1 .. Len(claims) /\ claims \in Seq(Elements)
    BY <1>2, LineFacts DEF TypeInv, TypeOK
  <2>3. Tail(SubSeq(claims, tail + 1, head)) = SubSeq(claims, tail + 1 + 1, head)
    BY <2>2, HeadTailOfSubSeq
  <2>4. tail + 1 + 1 = tail + 2
    BY <1>2
  <2> QED
    BY <2>1, <2>3, <2>4
<1>8. TQ!InLine' = TQ!InLine \ {e}
  <2>1. /\ Len(Line) \in Nat \ {0} /\ Len(Line') = Len(Line) - 1
        /\ \A i \in 1 .. Len(Line) - 1 : Line'[i] = Line[i + 1]
    BY <1>3, <1>7, LineFacts
  <2>2. \A i \in 1 .. Len(Line) : Line[i] = e <=> i = 1
    BY <1>2, LineFacts DEF UniqueInv
  <2>3. ASSUME NEW i \in 1 .. Len(Line')
        PROVE  Line'[i] \in TQ!InLine \ {e}
    <3>1. i + 1 \in 1 .. Len(Line) /\ Line'[i] = Line[i + 1] /\ i + 1 # 1
      BY <2>1
    <3> QED
      BY <2>2, <3>1 DEF TQ!InLine
  <2>4. ASSUME NEW i \in 1 .. Len(Line), Line[i] # e
        PROVE  \E j \in 1 .. Len(Line') : Line[i] = Line'[j]
    <3>1. i - 1 \in 1 .. Len(Line') /\ Line[i] = Line'[i - 1]
      BY <2>1, <2>2, <2>4
    <3> QED
      BY <3>1
  <2> QED
    BY <2>3, <2>4 DEF TQ!InLine
<1>9. Unpublished' = Unpublished
  BY <1>1 DEF Unpublished, NextElement
<1>10. Ready' = Ready \ {e}
  BY <1>8, <1>9 DEF Ready
<1> QED
  BY <1>1, <1>2, <1>3, <1>4, <1>5, <1>7, <1>10 DEF TQ!Take, Ready, TQ!InLine

LEMMA NextRefines ==
  ASSUME IInv, UniqueInv, [Next]_vars
  PROVE  [TQ!Next]_(TQ!vars)
<1>1. ASSUME NEW p \in Producers, PushClaim(p) \/ PushPublish(p)
      PROVE  TQ!Next
  <2>1. TQ!Claim(NextElement(p)) \/ TQ!Publish(NextElement(p))
    BY <1>1, ClaimRefines, PublishRefines
  <2>2. NextElement(p) \in Elements
    BY <1>1, ClaimRefines, PublishRefines
  <2>3. \E e \in Elements : e = NextElement(p)
    BY <2>2
  <2>4. PICK e \in Elements : e = NextElement(p)
    BY <2>3
  <2>5. TQ!Claim(e) \/ TQ!Publish(e)
    BY <2>1, <2>4 DEF TQ!Claim, TQ!Publish
  <2> QED
    BY <2>5 DEF TQ!Next
<1>2. CASE PopMove
  BY <1>2, MoveRefines DEF TQ!Next
<1>3. ASSUME Working' = Working, UNCHANGED <<claims, received, pushed>>
      PROVE  UNCHANGED TQ!vars
  <2>1. Line' = Line /\ Unpublished' = Unpublished
    BY <1>3 DEF Line, Unpublished, NextElement
  <2> QED
    BY <1>3, <2>1 DEF TQ!vars
<1>4. ASSUME NEW p \in Producers, PushReserve(p) \/ PushReject(p) \/ PushUndo(p) \/ PushWrite(p)
      PROVE  UNCHANGED TQ!vars
  <2>1. Working' = Working /\ UNCHANGED <<claims, received, pushed>>
    <3> USE DEF IInv
    <3>1. CASE PushReserve(p)
      BY <3>1, WorkingSame DEF PushReserve, TakeToken, Working
    <3>2. CASE PushReject(p)
      BY <3>2, WorkingSame DEF PushReject, TakeToken, Working
    <3>3. CASE PushUndo(p)
      BY <3>3, WorkingSame DEF PushUndo, Working
    <3>4. CASE PushWrite(p)
      BY <3>4, WorkingSame DEF PushWrite, Working
    <3> QED
      BY <1>4, <3>1, <3>2, <3>3, <3>4
  <2> QED
    BY <1>3, <2>1
<1>5. CASE PopTake \/ PopReturn \/ UNCHANGED vars
  <2>1. Working' = Working /\ UNCHANGED <<claims, received, pushed>>
    BY <1>5, ConstantsAssumption
    DEF PopTake, PopReturn, ReturnToken, TokenAdd, Goto, vars, IInv, TypeInv, TypeOK, Threads, Working
  <2> QED
    BY <1>3, <2>1
<1> QED
  BY <1>1, <1>2, <1>4, <1>5 DEF Next, Attempt, Finish, Pop, Terminating

(* The ring implements the abstract line of tickets. *)
THEOREM RingImplementsTicketQueue == WrapSafe => (Spec => ImplementsTicketQueue)
<1> SUFFICES ASSUME WrapSafe
             PROVE  Spec => TQ!Spec
  BY DEF ImplementsTicketQueue
<1>1. IInv /\ UniqueInv /\ [Next]_vars => (IInv /\ UniqueInv)'
  BY Inductive, NextUnique DEF IInv
<1>2. Init => IInv /\ UniqueInv /\ TQ!Init
  BY Inductive, InitUnique, InitRefines
<1>3. IInv /\ UniqueInv /\ [Next]_vars => [TQ!Next]_(TQ!vars)
  BY NextRefines
<1> QED
  BY <1>1, <1>2, <1>3, PTL DEF Spec, TQ!Spec
=============================================================================
