---------------------------- MODULE RingBarProofs ----------------------------
(***************************************************************************)
(* Proofs about RingBar, for any number of visitors, any size, any number  *)
(* of visits and any number of elements that the master uses at a time.    *)
(***************************************************************************)
EXTENDS RingBar, FiniteSetTheorems, SequenceTheorems, TLAPS

-----------------------------------------------------------------------------
(* Slots of counters that wrap at a multiple of the number of slots.        *)

(* The quotient and the remainder that % and \div stand for. *)
LEMMA DivMod ==
  ASSUME NEW a \in Nat, NEW n \in Nat \ {0}
  PROVE  /\ a \div n \in Nat
         /\ a % n \in 0 .. n - 1
         /\ a = n * (a \div n) + (a % n)
  BY Z3

(* Two multiples of n that are less than n apart are the same one. *)
LEMMA QuotientUnique ==
  ASSUME NEW n \in Nat \ {0}, NEW q \in Int, NEW r \in Int,
         n * q - n * r < n, n * r - n * q < n
  PROVE  q = r
<1>1. n * q - n * r = n * (q - r) /\ n * r - n * q = n * (r - q)
  OBVIOUS
<1>2. CASE q > r
  <2>1. n * (q - r) >= n
    BY <1>2
  <2> QED
    BY <1>1, <2>1
<1>3. CASE r > q
  <2>1. n * (r - q) >= n
    BY <1>3
  <2> QED
    BY <1>1, <2>1
<1> QED
  BY <1>2, <1>3

(* The slot of a ticket, and the lap it is in, when the counter wraps at a  *)
(* multiple m of the number n of slots.                                     *)
LEMMA SlotEquation ==
  ASSUME NEW i \in Nat, NEW n \in Nat \ {0}, NEW m \in Nat \ {0}, m % n = 0
  PROVE  \E k \in Int : i = n * k + ((i % m) % n)
<1> DEFINE t == m \div n
           q == i \div m
           r == i % m
           u == r \div n
           v == r % n
<1>1. t \in Nat /\ m = n * t
  BY DivMod
<1>2. q \in Nat /\ r \in Nat /\ i = m * q + r
  BY DivMod
<1>3. u \in Nat /\ v \in Nat /\ r = n * u + v
  BY <1>2, DivMod
<1> HIDE DEF t, q, r, u, v
<1>4. t * q \in Nat /\ (n * t) * q = n * (t * q)
  BY <1>1, <1>2
<1>5. n * (t * q) + n * u = n * (t * q + u)
  BY <1>3, <1>4
<1>6. i = n * (t * q + u) + v
  BY <1>1, <1>2, <1>3, <1>4, <1>5
<1>7. t * q + u \in Int
  BY <1>3, <1>4
<1> QED
  BY <1>6, <1>7 DEF v, r

LEMMA WrappedSlot ==
  ASSUME NEW i \in Nat, NEW n \in Nat \ {0}, NEW m \in Nat \ {0}
  PROVE  (i % m) % n \in 0 .. n - 1
  BY DivMod

(* Slots of tickets less than n apart differ. *)
LEMMA WrappedSlotsDiffer ==
  ASSUME NEW i \in Nat, NEW j \in Nat, NEW n \in Nat \ {0}, NEW m \in Nat \ {0},
         m % n = 0, i # j, i < j + n, j < i + n
  PROVE  (i % m) % n # (j % m) % n
<1> DEFINE v == (i % m) % n
           w == (j % m) % n
<1>1. v \in 0 .. n - 1 /\ w \in 0 .. n - 1
  BY WrappedSlot
<1>2. PICK k \in Int : i = n * k + v
  BY SlotEquation
<1>3. PICK l \in Int : j = n * l + w
  BY SlotEquation
<1> HIDE DEF v, w
<1>4. ASSUME v = w
      PROVE  FALSE
  <2>1. n * k - n * l = i - j /\ n * l - n * k = j - i
    BY <1>1, <1>2, <1>3, <1>4
  <2>2. k = l
    BY <2>1, QuotientUnique
  <2> QED
    BY <1>2, <1>3, <1>4, <2>2
<1> QED
  BY <1>4 DEF v, w

(* One lap later a counter is at the same slot. *)
LEMMA NextLap ==
  ASSUME NEW i \in Nat, NEW n \in Nat \ {0}, NEW m \in Nat \ {0}, m % n = 0
  PROVE  ((i + n) % m) % n = (i % m) % n
<1> DEFINE j == i + n
           v == (i % m) % n
           w == (j % m) % n
<1>1. j \in Nat /\ v \in 0 .. n - 1 /\ w \in 0 .. n - 1
  BY WrappedSlot
<1>2. PICK k \in Int : i = n * k + v
  BY SlotEquation
<1> HIDE DEF j
<1>3. PICK l \in Int : j = n * l + w
  BY <1>1, SlotEquation
<1> HIDE DEF v, w
<1>4. n * (k + 1) = n * k + n /\ j = i + n
  BY DEF j
<1>5. n * (k + 1) - n * l = w - v /\ n * l - n * (k + 1) = v - w
  BY <1>1, <1>2, <1>3, <1>4
<1>6. k + 1 = l
  BY <1>1, <1>5, QuotientUnique
<1>7. w = v
  BY <1>1, <1>5, <1>6
<1> QED
  BY <1>7 DEF v, w, j

-----------------------------------------------------------------------------
(* Lines: what is left of a history c of those who came, when n of them     *)
(* were served.                                                             *)

Rest(c, n) == SubSeq(c, n + 1, Len(c))
In(s)      == {s[i] : i \in 1 .. Len(s)}

LEMMA RestFacts ==
  ASSUME NEW S, NEW c \in Seq(S), NEW n \in 0 .. Len(c)
  PROVE  /\ Rest(c, n) \in Seq(S)
         /\ Len(Rest(c, n)) = Len(c) - n
         /\ \A i \in 1 .. Len(c) - n : Rest(c, n)[i] = c[n + i]
<1> DEFINE k == n + 1
           l == Len(c)
<1>1. l \in Nat /\ k \in Int /\ n \in Nat /\ n <= l
  OBVIOUS
<1>2. \A i \in k .. l : c[i] \in S
  OBVIOUS
<1>3. /\ SubSeq(c, k, l) \in Seq(S)
      /\ Len(SubSeq(c, k, l)) = IF k <= l THEN l - k + 1 ELSE 0
      /\ \A i \in 1 .. l - k + 1 : SubSeq(c, k, l)[i] = c[k + i - 1]
  <2> HIDE DEF k, l
  <2> QED
    BY <1>1, <1>2, SubSeqProperties
<1> HIDE DEF l
<1>4. \A i \in 1 .. l - n : k + i - 1 = n + i /\ i \in 1 .. l - k + 1
  BY <1>1
<1> QED
  BY <1>1, <1>3, <1>4 DEF Rest, l

(* One more comes: he is the last of the line. *)
LEMMA RestAppend ==
  ASSUME NEW S, NEW c \in Seq(S), NEW n \in 0 .. Len(c), NEW e \in S
  PROVE  Rest(Append(c, e), n) = Append(Rest(c, n), e)
<1> DEFINE d == Append(c, e)
           r == Rest(c, n)
           s == Rest(d, n)
<1>1. /\ d \in Seq(S) /\ Len(d) = Len(c) + 1 /\ d[Len(c) + 1] = e
      /\ \A i \in 1 .. Len(c) : d[i] = c[i]
      /\ Len(c) \in Nat
  BY AppendProperties
<1> HIDE DEF d
<1>2. r \in Seq(S) /\ Len(r) = Len(c) - n /\ \A i \in 1 .. Len(c) - n : r[i] = c[n + i]
  BY RestFacts
<1>3. s \in Seq(S) /\ Len(s) = Len(d) - n /\ \A i \in 1 .. Len(d) - n : s[i] = d[n + i]
  <2>1. n \in 0 .. Len(d)
    BY <1>1
  <2> QED
    BY <1>1, <2>1, RestFacts
<1> HIDE DEF r, s
<1>4. /\ Append(r, e) \in Seq(S) /\ Len(Append(r, e)) = Len(r) + 1
      /\ \A i \in 1 .. Len(r) : Append(r, e)[i] = r[i]
      /\ Append(r, e)[Len(r) + 1] = e
  BY <1>2, AppendProperties
<1>5. ASSUME NEW i \in 1 .. Len(s)
      PROVE  s[i] = Append(r, e)[i]
  <2>1. CASE i \in 1 .. Len(r)
    <3>1. n + i \in 1 .. Len(c) /\ i \in 1 .. Len(c) - n /\ i \in 1 .. Len(d) - n
      BY <1>1, <1>2, <2>1
    <3> QED
      BY <1>1, <1>2, <1>3, <1>4, <2>1, <3>1
  <2>2. CASE i = Len(r) + 1
    <3>1. n + i = Len(c) + 1 /\ i \in 1 .. Len(d) - n
      BY <1>1, <1>2, <2>2
    <3> QED
      BY <1>1, <1>3, <1>4, <2>2, <3>1
  <2>3. Len(s) = Len(r) + 1 /\ Len(r) \in Nat
    BY <1>1, <1>2, <1>3
  <2> QED
    BY <2>1, <2>2, <2>3
<1>6. Len(s) = Len(Append(r, e))
  BY <1>1, <1>2, <1>3, <1>4
<1>7. s = Append(r, e)
  BY <1>3, <1>4, <1>5, <1>6, SeqEqual
<1> QED
  BY <1>7 DEF d, r, s

(* One is served: he was the first of the line. *)
LEMMA RestTail ==
  ASSUME NEW S, NEW c \in Seq(S), NEW n \in 0 .. Len(c) - 1
  PROVE  /\ Rest(c, n) # << >>
         /\ Head(Rest(c, n)) = c[n + 1]
         /\ Tail(Rest(c, n)) = Rest(c, n + 1)
<1>1. n + 1 \in 1 .. Len(c) /\ Len(c) \in n + 1 .. Len(c) /\ n \in 0 .. Len(c)
  OBVIOUS
<1>2. /\ Head(Rest(c, n)) = c[n + 1]
      /\ Tail(Rest(c, n)) = SubSeq(c, (n + 1) + 1, Len(c))
  BY <1>1, HeadTailOfSubSeq DEF Rest
<1>3. Rest(c, n) \in Seq(S) /\ Len(Rest(c, n)) = Len(c) - n /\ Len(c) - n > 0
  BY <1>1, RestFacts
<1>4. Rest(c, n) # << >>
  BY <1>3, EmptySeq
<1>5. (n + 1) + 1 = n + 2 /\ Tail(Rest(c, n)) = Rest(c, n + 1)
  BY <1>2 DEF Rest
<1> QED
  BY <1>2, <1>4, <1>5

LEMMA InAppend ==
  ASSUME NEW S, NEW s \in Seq(S), NEW e \in S
  PROVE  In(Append(s, e)) = In(s) \cup {e}
<1>1. /\ Len(Append(s, e)) = Len(s) + 1 /\ Append(s, e)[Len(s) + 1] = e
      /\ \A i \in 1 .. Len(s) : Append(s, e)[i] = s[i]
      /\ Len(s) \in Nat
  BY AppendProperties
<1>2. 1 .. Len(s) + 1 = (1 .. Len(s)) \cup {Len(s) + 1}
  BY <1>1
<1> QED
  BY <1>1, <1>2 DEF In

LEMMA InTail ==
  ASSUME NEW S, NEW s \in Seq(S), s # << >>,
         \A i, j \in 1 .. Len(s) : s[i] = s[j] => i = j
  PROVE  Head(s) \in In(s) /\ In(Tail(s)) = In(s) \ {Head(s)}
<1>1. /\ Len(s) \in Nat \ {0} /\ Len(Tail(s)) = Len(s) - 1 /\ Head(s) = s[1]
      /\ \A i \in 1 .. Len(Tail(s)) : Tail(s)[i] = s[i + 1]
  BY HeadTailProperties
<1>2. ASSUME NEW i \in 1 .. Len(Tail(s))
      PROVE  Tail(s)[i] \in In(s) \ {Head(s)}
  <2>1. i + 1 \in 1 .. Len(s) /\ i + 1 # 1 /\ 1 \in 1 .. Len(s)
    BY <1>1
  <2> QED
    BY <1>1, <2>1 DEF In
<1>3. ASSUME NEW i \in 1 .. Len(s), s[i] # Head(s)
      PROVE  s[i] \in In(Tail(s))
  <2>1. i - 1 \in 1 .. Len(Tail(s)) /\ Tail(s)[i - 1] = s[(i - 1) + 1]
    BY <1>1, <1>3
  <2> QED
    BY <2>1 DEF In
<1>4. Head(s) \in In(s)
  BY <1>1 DEF In
<1>5. In(Tail(s)) \subseteq In(s) \ {Head(s)}
  BY <1>2 DEF In
<1>6. \A x \in In(s) \ {Head(s)} : x \in In(Tail(s))
  BY <1>3 DEF In
<1> QED
  BY <1>4, <1>5, <1>6

LEMMA RestInjective ==
  ASSUME NEW S, NEW c \in Seq(S), NEW n \in 0 .. Len(c),
         \A i, j \in 1 .. Len(c) : c[i] = c[j] => i = j
  PROVE  \A i, j \in 1 .. Len(Rest(c, n)) : Rest(c, n)[i] = Rest(c, n)[j] => i = j
<1> DEFINE r == Rest(c, n)
<1>1. Len(r) = Len(c) - n /\ \A i \in 1 .. Len(c) - n : r[i] = c[n + i]
  BY RestFacts
<1> HIDE DEF r
<1>2. ASSUME NEW i \in 1 .. Len(r), NEW j \in 1 .. Len(r), r[i] = r[j]
      PROVE  i = j
  <2>1. n + i \in 1 .. Len(c) /\ n + j \in 1 .. Len(c) /\ c[n + i] = c[n + j]
    BY <1>1, <1>2
  <2>2. n + i = n + j
    BY <2>1
  <2> QED
    BY <2>2
<1> QED
  BY <1>2 DEF r

-----------------------------------------------------------------------------
(* Types *)

(* A visitor inside a call, or with an element, has a visit to make.        *)
Quota == \A v \in Visitors : pc[v] # "idle" => visits[v] < MaxVisits

TypeInv == TypeOK /\ Quota

Holding == [slot : Slots, used : BOOLEAN]

LEMMA AtType ==
  ASSUME NEW i \in Nat
  PROVE  At(i) \in Slots
BY ConstantsAssumption, WrappedSlot DEF At, Slots

LEMMA InitType == Init => TypeInv
BY ConstantsAssumption
DEF Init, TypeInv, TypeOK, Quota, Threads, Atomics, Elements, Blank, Slots

LEMMA VisitType ==
  ASSUME TypeInv, NEW v \in Visitors, pc[v] # "idle"
  PROVE  Visit(v) \in Elements
BY ConstantsAssumption DEF TypeInv, TypeOK, Quota, Visit, Elements

(* What the list of elements held becomes. *)
LEMMA HeldType ==
  ASSUME TypeInv
  PROVE  held \in Seq(Holding) /\ Len(held) \in 0 .. MaxHeld /\ MaxHeld \in Nat
BY ConstantsAssumption DEF TypeInv, TypeOK, Holding

LEMMA HeldMore ==
  ASSUME TypeInv, NEW s \in Slots
  PROVE  LET h == Append(held, [slot |-> s, used |-> FALSE])
         IN  /\ h \in Seq(Holding) /\ Len(h) = Len(held) + 1
             /\ \A i \in 1 .. Len(held) : h[i] = held[i]
             /\ h[Len(held) + 1].slot = s
<1>1. [slot |-> s, used |-> FALSE] \in Holding
  BY DEF Holding
<1> QED
  BY <1>1, HeldType, AppendProperties

LEMMA HeldUsed ==
  ASSUME TypeInv, NEW i \in 1 .. Len(held)
  PROVE  LET h == [held EXCEPT ![i].used = TRUE]
         IN  /\ h \in Seq(Holding) /\ Len(h) = Len(held)
             /\ \A j \in 1 .. Len(held) : h[j].slot = held[j].slot
<1> DEFINE e == [held[i] EXCEPT !.used = TRUE]
           g == [held EXCEPT ![i] = e]
<1>1. held[i] \in Holding
  BY HeldType, ElementOfSeq
<1>2. e \in Holding /\ e.slot = held[i].slot
  BY <1>1 DEF Holding
<1>3. [held EXCEPT ![i].used = TRUE] = g
  OBVIOUS
<1>4. /\ g \in Seq(Holding) /\ Len(g) = Len(held)
      /\ \A j \in 1 .. Len(held) : g[j] = IF j = i THEN e ELSE held[j]
  <2> HIDE DEF e
  <2> QED
    BY <1>2, HeldType, ExceptSeq
<1> HIDE DEF e, g
<1> QED
  BY <1>2, <1>3, <1>4

LEMMA HeldLess ==
  ASSUME TypeInv, NEW i \in 1 .. Len(held)
  PROVE  LET h == RemoveAt(held, i)
         IN  /\ h \in Seq(Holding) /\ Len(h) = Len(held) - 1
             /\ i = 1 => \A j \in 1 .. Len(held) - 1 : h[j] = held[j + 1]
<1> DEFINE l == Len(held)
           a == i - 1
           b == i + 1
           x == SubSeq(held, 1, a)
           y == SubSeq(held, b, l)
<1>1. held \in Seq(Holding) /\ l \in Nat /\ i \in 1 .. l /\ a \in Int /\ b \in Int
  BY HeldType
<1>2. x \in Seq(Holding) /\ Len(x) = a
  <2>1. \A j \in 1 .. a : held[j] \in Holding
    BY <1>1, ElementOfSeq
  <2>2. 1 <= a => a - 1 + 1 = a
    BY <1>1
  <2>3. ~(1 <= a) => a = 0
    BY <1>1
  <2> HIDE DEF a
  <2> QED
    BY <1>1, <2>1, <2>2, <2>3, SubSeqProperties
<1>3. y \in Seq(Holding) /\ Len(y) = l - i /\ \A j \in 1 .. l - i : y[j] = held[i + j]
  <2>1. \A j \in b .. l : held[j] \in Holding
    BY <1>1, ElementOfSeq
  <2>2. /\ y \in Seq(Holding) /\ Len(y) = IF b <= l THEN l - b + 1 ELSE 0
        /\ \A j \in 1 .. l - b + 1 : y[j] = held[b + j - 1]
    <3> HIDE DEF b, l
    <3> QED
      BY <1>1, <2>1, SubSeqProperties
  <2>3. \A j \in 1 .. l - i : j \in 1 .. l - b + 1 /\ b + j - 1 = i + j
    BY <1>1
  <2> HIDE DEF y
  <2> QED
    BY <1>1, <2>2, <2>3
<1> HIDE DEF x, y, l, a
<1>4. /\ x \o y \in Seq(Holding) /\ Len(x \o y) = a + (l - i)
      /\ \A j \in 1 .. a + (l - i) : (x \o y)[j] = IF j <= a THEN x[j] ELSE y[j - a]
  <2>1. /\ x \o y \in Seq(Holding) /\ Len(x \o y) = Len(x) + Len(y)
        /\ \A j \in 1 .. Len(x) + Len(y) :
             (x \o y)[j] = IF j <= Len(x) THEN x[j] ELSE y[j - Len(x)]
    BY <1>2, <1>3, ConcatProperties
  <2> QED
    BY <1>2, <1>3, <2>1
<1>5. a + (l - i) = l - 1 /\ (i = 1 => a = 0)
  BY <1>1 DEF a
<1>6. RemoveAt(held, i) = x \o y
  BY DEF RemoveAt, x, y, a, b, l
<1>7. i = 1 => \A j \in 1 .. l - 1 : (x \o y)[j] = held[j + 1]
  BY <1>1, <1>3, <1>4, <1>5
<1> QED
  BY <1>1, <1>4, <1>5, <1>6, <1>7 DEF l

(* Each step of a thread keeps the types of every variable. *)
LEMMA NextType == TypeInv /\ [Next]_vars => TypeInv'
<1> SUFFICES ASSUME TypeInv, [Next]_vars
             PROVE  TypeInv'
  OBVIOUS
<1> USE DEF Threads
<1>1. ASSUME NEW v \in Visitors, TakeToken(v), Goto(v, "claim") \/ Goto(v, "undo")
      PROVE  TypeInv'
  <2>1. rel[FreeCount] \in SUBSET Slots
    BY DEF TypeInv, TypeOK, Atomics
  <2>2. seen' \in [Threads -> SUBSET Slots]
    BY <1>1, <2>1 DEF TypeInv, TypeOK, TakeToken, Acquire
  <2>3. CASE Goto(v, "claim")
    BY <1>1, <2>2, <2>3, ConstantsAssumption DEF TypeInv, TypeOK, Quota, TakeToken, Goto
  <2>4. CASE Goto(v, "undo")
    BY <1>1, <2>2, <2>4, ConstantsAssumption DEF TypeInv, TypeOK, Quota, TakeToken, Goto
  <2> QED
    BY <1>1, <2>3, <2>4
<1>2. ASSUME NEW v \in Visitors, FetchUndo(v)
      PROVE  TypeInv'
  BY <1>2, ConstantsAssumption DEF TypeInv, TypeOK, Quota, FetchUndo, Goto
<1>3. ASSUME NEW v \in Visitors, FetchClaim(v)
      PROVE  TypeInv'
  <2>1. Visit(v) \in Elements
    BY <1>3, VisitType DEF FetchClaim, TakeTicket
  <2> QED
    BY <1>3, <2>1, ConstantsAssumption
    DEF TypeInv, TypeOK, Quota, FetchClaim, TakeTicket, Goto
<1>4. ASSUME NEW v \in Visitors, VisitorUse(v)
      PROVE  TypeInv'
  <2>1. Visit(v) \in Elements
    BY <1>4, VisitType DEF VisitorUse
  <2>2. At(index[v]) \in Slots
    BY AtType DEF TypeInv, TypeOK
  <2>3. seen' \in [Threads -> SUBSET Slots]
    BY <1>4, <2>2 DEF TypeInv, TypeOK, VisitorUse, Touch
  <2>4. rel' \in [Atomics -> SUBSET Slots]
    BY <1>4 DEF TypeInv, TypeOK, VisitorUse, Forget
  <2> QED
    BY <1>4, <2>1, <2>2, <2>3, <2>4, ConstantsAssumption
    DEF TypeInv, TypeOK, Quota, VisitorUse, Goto
<1>5. ASSUME NEW v \in Visitors, VisitorRelease(v)
      PROVE  TypeInv'
  <2>1. visits[v] + 1 \in 0 .. MaxVisits
    <3>1. visits[v] \in 0 .. MaxVisits /\ MaxVisits \in Nat
      BY ConstantsAssumption DEF TypeInv, TypeOK
    <3>2. visits[v] < MaxVisits
      BY <1>5 DEF TypeInv, Quota, VisitorRelease
    <3> QED
      BY <3>1, <3>2
  <2>2. rel' \in [Atomics -> SUBSET Slots]
    BY <1>5 DEF TypeInv, TypeOK, VisitorRelease, StateStore, StoreRelease
  <2> QED
    BY <1>5, <2>1, <2>2, AtType, ConstantsAssumption
    DEF TypeInv, TypeOK, Quota, VisitorRelease, StateStore, Goto
<1>6. ASSUME ExchangeReady
      PROVE  /\ state' \in [Slots -> {"FREE", "READY"}]
             /\ served' \in Seq(Elements \cup {Blank})
             /\ UNCHANGED <<head, data, index, visits, claims>>
  <2>1. At(tail) \in Slots
    BY AtType DEF TypeInv, TypeOK
  <2>2. data[At(tail)] \in Elements \cup {Blank}
    BY <2>1 DEF TypeInv, TypeOK
  <2> QED
    BY <1>6, <2>1, <2>2, AppendProperties
    DEF TypeInv, TypeOK, ExchangeReady, FindReady
<1>7. CASE MasterFetch
  <2>1. At(tail) \in Slots
    BY AtType DEF TypeInv, TypeOK
  <2>2. seen' \in [Threads -> SUBSET Slots]
    <3>1. rel[StateOf(At(tail))] \in SUBSET Slots
      BY <2>1 DEF TypeInv, TypeOK, Atomics
    <3> QED
      BY <1>7, <3>1 DEF TypeInv, TypeOK, MasterFetch, Acquire
  <2>3. held' \in Seq([slot : Slots, used : BOOLEAN]) /\ Len(held') <= MaxHeld
    BY <1>7, <2>1, HeldMore, HeldType DEF MasterFetch, Holding
  <2>4. ExchangeReady /\ tail' = tail + 1 /\ UNCHANGED <<free_count, pc, rel>>
    BY <1>7 DEF MasterFetch
  <2> QED
    BY <2>2, <2>3, <2>4, <1>6 DEF TypeInv, TypeOK, Quota
<1>8. ASSUME NEW i \in 1 .. Len(held), MasterUse(i)
      PROVE  TypeInv'
  <2>1. held[i].slot \in Slots
    <3>1. held[i] \in Holding
      BY HeldType, ElementOfSeq
    <3> QED
      BY <3>1 DEF Holding
  <2>2. held' \in Seq([slot : Slots, used : BOOLEAN]) /\ Len(held') <= MaxHeld
    BY <1>8, HeldUsed, HeldType DEF MasterUse, Holding
  <2>3. seen' \in [Threads -> SUBSET Slots]
    BY <1>8, <2>1 DEF TypeInv, TypeOK, MasterUse, Touch
  <2>4. rel' \in [Atomics -> SUBSET Slots]
    BY <1>8 DEF TypeInv, TypeOK, MasterUse, Forget
  <2>5. data' \in [Slots -> Elements \cup {Blank}]
    BY <1>8 DEF TypeInv, TypeOK, MasterUse
  <2> QED
    BY <1>8, <2>2, <2>3, <2>4, <2>5 DEF TypeInv, TypeOK, Quota, MasterUse
<1>9. ASSUME NEW i \in 1 .. Len(held), MasterRelease(i)
      PROVE  TypeInv'
  <2>1. held' \in Seq([slot : Slots, used : BOOLEAN]) /\ Len(held') <= MaxHeld
    BY <1>9, HeldLess, HeldType DEF MasterRelease, Holding
  <2>2. rel' \in [Atomics -> SUBSET Slots]
    BY <1>9 DEF TypeInv, TypeOK, MasterRelease, CountAdd, RmwRelease
  <2> QED
    BY <1>9, <2>1, <2>2 DEF TypeInv, TypeOK, Quota, MasterRelease, CountAdd
<1>10. CASE SkipTake
  <2>1. /\ ExchangeReady /\ UNCHANGED <<free_count, tail, held, seen, rel>>
        /\ pc' = [pc EXCEPT ![Master] = "count"]
    BY <1>10 DEF SkipTake, Goto
  <2> QED
    BY <2>1, <1>6, ConstantsAssumption DEF TypeInv, TypeOK, Quota
<1>11. CASE SkipCount
  BY <1>11, ConstantsAssumption DEF TypeInv, TypeOK, Quota, SkipCount, Goto
<1>12. CASE SkipEnd
  BY <1>12, ConstantsAssumption DEF TypeInv, TypeOK, Quota, SkipEnd, Goto
<1>13. CASE UNCHANGED vars
  BY <1>13 DEF vars, TypeInv, TypeOK, Quota
<1> QED
  BY <1>1, <1>2, <1>3, <1>4, <1>5, <1>7, <1>8, <1>9, <1>10, <1>11, <1>12, <1>13
  DEF Next, Attempt, FetchReserve, FetchReject, Finish, MasterReturn, MasterSkip, Terminating

(* Every variable keeps its type, in whatever order the master releases.    *)
THEOREM TypeCorrect == Spec => []TypeOK
<1>1. TypeInv => TypeOK
  BY DEF TypeInv
<1> QED
  BY <1>1, InitType, NextType, PTL DEF Spec

-----------------------------------------------------------------------------
(* Tokens: TokensConserved is inductive once the types are known.           *)

Undoing  == Cardinality(AtLabel("undo"))
Claiming == Cardinality(AtLabel("claim"))

LEMMA CountType ==
  ASSUME NEW l
  PROVE  /\ IsFiniteSet(AtLabel(l))
         /\ Cardinality(AtLabel(l)) \in Nat
<1>1. AtLabel(l) \in SUBSET Visitors /\ IsFiniteSet(Visitors)
  BY ConstantsAssumption DEF AtLabel
<1> QED
  BY <1>1, FS_Subset, FS_CardinalityType

(* A visitor that moves from one label to another changes two counts by 1.  *)
LEMMA CountStep ==
  ASSUME TypeInv, NEW v \in Visitors, NEW to, Goto(v, to), pc[v] # to, NEW l
  PROVE  Cardinality(AtLabel(l)') = Cardinality(AtLabel(l))
                                     + (IF l = to THEN 1 ELSE 0)
                                     - (IF l = pc[v] THEN 1 ELSE 0)
<1>1. \A u \in Visitors : pc'[u] = IF u = v THEN to ELSE pc[u]
  BY DEF TypeInv, TypeOK, Goto, Threads
<1>2. CASE l = to
  <2>1. AtLabel(l)' = AtLabel(l) \cup {v} /\ v \notin AtLabel(l)
    BY <1>1, <1>2 DEF AtLabel
  <2>2. Cardinality(AtLabel(l) \cup {v}) = Cardinality(AtLabel(l)) + 1
    BY <2>1, CountType, FS_AddElement
  <2> QED
    BY <1>2, <2>1, <2>2, CountType
<1>3. CASE l = pc[v]
  <2>1. AtLabel(l)' = AtLabel(l) \ {v} /\ v \in AtLabel(l)
    BY <1>1, <1>3 DEF AtLabel
  <2>2. Cardinality(AtLabel(l) \ {v}) = Cardinality(AtLabel(l)) - 1
    BY <2>1, CountType, FS_RemoveElement
  <2> QED
    BY <1>3, <2>1, <2>2, CountType
<1>4. CASE l # to /\ l # pc[v]
  <2>1. AtLabel(l)' = AtLabel(l)
    BY <1>1, <1>4 DEF AtLabel
  <2> QED
    BY <1>4, <2>1, CountType
<1> QED
  BY <1>2, <1>3, <1>4

LEMMA InitTokens == Init => TokensConserved
<1> SUFFICES ASSUME Init
             PROVE  TokensConserved
  OBVIOUS
<1>1. AtLabel("undo") = {} /\ AtLabel("claim") = {}
  BY DEF Init, AtLabel, Threads
<1>2. Cardinality(AtLabel("undo")) = 0 /\ Cardinality(AtLabel("claim")) = 0
  BY <1>1, FS_EmptySet
<1> QED
  BY <1>2, ConstantsAssumption DEF Init, TokensConserved

LEMMA NextTokens == TypeInv /\ TokensConserved /\ [Next]_vars => TokensConserved'
<1> SUFFICES ASSUME TypeInv, TokensConserved, [Next]_vars
             PROVE  TokensConserved'
  OBVIOUS
<1> DEFINE Sum(f, u, c, h, t, l) == f + u >= 0 /\ f + u + c + (h - t) + l = Size
<1>a. /\ Undoing \in Nat /\ Claiming \in Nat /\ free_count \in Int
      /\ head \in Nat /\ tail \in Nat /\ Len(held) \in Nat /\ Size \in Nat
  BY CountType, HeldType, ConstantsAssumption DEF Undoing, Claiming, TypeInv, TypeOK
<1>b. Sum(free_count, Undoing, Claiming, head, tail, Len(held))
  BY DEF TokensConserved, Undoing, Claiming
<1>c. TokensConserved' <=> Sum(free_count', Undoing', Claiming', head', tail', Len(held'))
  BY DEF TokensConserved, Undoing, Claiming
<1>1. ASSUME NEW v \in Visitors, FetchReserve(v)
      PROVE  TokensConserved'
  <2>1. Undoing' = Undoing /\ Claiming' = Claiming + 1
    BY <1>a, <1>1, CountStep DEF Undoing, Claiming, FetchReserve, TakeToken
  <2> QED
    BY <1>a, <1>b, <1>c, <1>1, <2>1 DEF FetchReserve, TakeToken, NoToken
<1>2. ASSUME NEW v \in Visitors, FetchReject(v)
      PROVE  TokensConserved'
  <2>1. Undoing' = Undoing + 1 /\ Claiming' = Claiming
    BY <1>a, <1>2, CountStep DEF Undoing, Claiming, FetchReject, TakeToken
  <2> QED
    BY <1>a, <1>b, <1>c, <1>2, <2>1 DEF FetchReject, TakeToken
<1>3. ASSUME NEW v \in Visitors, FetchUndo(v)
      PROVE  TokensConserved'
  <2>1. Undoing' = Undoing - 1 /\ Claiming' = Claiming
    BY <1>a, <1>3, CountStep DEF Undoing, Claiming, FetchUndo
  <2> QED
    BY <1>a, <1>b, <1>c, <1>3, <2>1 DEF FetchUndo
<1>4. ASSUME NEW v \in Visitors, FetchClaim(v)
      PROVE  TokensConserved'
  <2>1. Undoing' = Undoing /\ Claiming' = Claiming - 1
    <3>1. pc[v] = "claim" /\ Goto(v, "use")
      BY <1>4 DEF FetchClaim, TakeTicket
    <3> QED
      BY <1>a, <3>1, CountStep DEF Undoing, Claiming
  <2> QED
    BY <1>a, <1>b, <1>c, <1>4, <2>1 DEF FetchClaim, TakeTicket
<1>5. ASSUME NEW v \in Visitors, VisitorUse(v) \/ VisitorRelease(v)
      PROVE  TokensConserved'
  <2>1. Undoing' = Undoing /\ Claiming' = Claiming
    <3>1. CASE VisitorUse(v)
      BY <1>a, <3>1, CountStep DEF Undoing, Claiming, VisitorUse
    <3>2. CASE VisitorRelease(v)
      BY <1>a, <3>2, CountStep DEF Undoing, Claiming, VisitorRelease
    <3> QED
      BY <1>5, <3>1, <3>2
  <2> QED
    BY <1>a, <1>b, <1>c, <1>5, <2>1 DEF VisitorUse, VisitorRelease
<1>6. ASSUME \A v \in Visitors : pc'[v] = pc[v]
      PROVE  Undoing' = Undoing /\ Claiming' = Claiming
  BY <1>6 DEF Undoing, Claiming, AtLabel
<1>7. CASE MasterFetch
  <2>1. Len(held') = Len(held) + 1
    BY <1>7, HeldMore, AtType DEF MasterFetch, TypeInv, TypeOK
  <2>2. /\ \A v \in Visitors : pc'[v] = pc[v]
        /\ free_count' = free_count /\ head' = head /\ tail' = tail + 1
    BY <1>7 DEF MasterFetch, ExchangeReady, FindReady
  <2> QED
    BY <1>a, <1>b, <1>c, <1>6, <2>1, <2>2
<1>8. ASSUME NEW i \in 1 .. Len(held), MasterUse(i)
      PROVE  TokensConserved'
  <2>1. Len(held') = Len(held)
    BY <1>8, HeldUsed DEF MasterUse
  <2>2. /\ \A v \in Visitors : pc'[v] = pc[v]
        /\ free_count' = free_count /\ head' = head /\ tail' = tail
    BY <1>8 DEF MasterUse
  <2> QED
    BY <1>a, <1>b, <1>c, <1>6, <2>1, <2>2
<1>9. ASSUME NEW i \in 1 .. Len(held), MasterRelease(i)
      PROVE  TokensConserved'
  <2>1. Len(held') = Len(held) - 1
    BY <1>9, HeldLess DEF MasterRelease
  <2>2. /\ \A v \in Visitors : pc'[v] = pc[v]
        /\ free_count' = free_count + 1 /\ head' = head /\ tail' = tail
    BY <1>9 DEF MasterRelease, CountAdd
  <2> QED
    BY <1>a, <1>b, <1>c, <1>6, <2>1, <2>2
<1>10. CASE SkipCount
  <2>1. \A v \in Visitors : pc'[v] = pc[v]
    BY <1>10, ConstantsAssumption DEF SkipCount, Goto, TypeInv, TypeOK, Threads
  <2>2. free_count' = free_count + 1 /\ head' = head /\ tail' = tail + 1 /\ held' = held
    BY <1>10 DEF SkipCount
  <2> QED
    BY <1>a, <1>b, <1>c, <1>6, <2>1, <2>2
<1>11. CASE SkipTake \/ SkipEnd \/ UNCHANGED vars
  <2>1. \A v \in Visitors : pc'[v] = pc[v]
    BY <1>11, ConstantsAssumption DEF SkipTake, SkipEnd, Goto, vars, TypeInv, TypeOK, Threads
  <2>2. UNCHANGED <<free_count, head, tail, held>>
    BY <1>11 DEF SkipTake, ExchangeReady, FindReady, SkipEnd, vars
  <2> QED
    BY <1>a, <1>b, <1>c, <1>6, <2>1, <2>2
<1> QED
  BY <1>1, <1>2, <1>3, <1>4, <1>5, <1>7, <1>8, <1>9, <1>10, <1>11
  DEF Next, Attempt, Finish, MasterReturn, MasterSkip, Terminating

-----------------------------------------------------------------------------
(* Tickets.  From here on the counters wrap at a multiple of the size, and  *)
(* the master releases the elements in the order in which it fetched them   *)
(* and skips when it holds none.                                            *)

WrapSafe == CounterMod % Size = 0
InOrder  == AnyOrder = FALSE /\ SkipHolding = FALSE

(* The oldest ticket whose element the master has not obtained, and the     *)
(* oldest one whose element is not back in the ring.                        *)
Low  == IF pc[Master] = "count" THEN tail + 1 ELSE tail
Base == tail - Len(held)

Owned(k) == \E v \in Owners : index[v] = k

(* What the master uses are the elements of the tickets before tail.        *)
HeldInv ==
  /\ Len(held) <= tail
  /\ pc[Master] # "idle" => held = << >>
  /\ \A i \in 1 .. Len(held) : held[i].slot = At(Base + i - 1)

(* Every ticket from Low on belongs to one visitor, or its element is READY *)
(* and no other element is.                                                 *)
SlotInv ==
  /\ Low <= head
  /\ \A v \in Owners : index[v] \in Low .. head - 1
  /\ \A u, v \in Owners : index[u] = index[v] => u = v
  /\ \A k \in Low .. head - 1 : state[At(k)] = "READY" <=> ~Owned(k)
  /\ \A s \in Slots : state[s] = "READY" => \E k \in Low .. head - 1 : s = At(k)

(* What the histories and the elements of the tickets from Low on hold.     *)
FifoInv ==
  /\ Len(claims) = head
  /\ Len(served) = Low
  /\ \A v \in Owners : claims[index[v] + 1] = Visit(v)
  /\ \A v \in Visitors : pc[v] = "release" => data[At(index[v])] = Visit(v)
  /\ \A k \in Low .. head - 1 : ~Owned(k) => data[At(k)] = claims[k + 1]
  /\ pc[Master] = "count" => data[At(tail)] # Blank

(* What each release store or increment carries to those who acquire it.    *)
OrderInv ==
  /\ \A v \in Visitors : pc[v] = "release" => At(index[v]) \in seen[v]
  /\ \A k \in Low .. head - 1 : ~Owned(k) => At(k) \in rel[StateOf(At(k))]
  /\ HandoversOrdered

IInv == TypeInv /\ TokensConserved /\ HeldInv /\ SlotInv /\ FifoInv /\ OrderInv

LEMMA Tickets ==
  ASSUME TypeInv, HeldInv
  PROVE  /\ Low \in Nat /\ Base \in Nat /\ tail \in Nat /\ head \in Nat
         /\ Low \in {tail, tail + 1} /\ Base <= tail /\ Len(held) = tail - Base
         /\ Size \in Nat \ {0}
         /\ \A k \in Nat : At(k) \in Slots
<1>1. tail \in Nat /\ head \in Nat /\ Size \in Nat \ {0} /\ Len(held) \in Nat /\ Len(held) <= tail
  BY HeldType, ConstantsAssumption DEF TypeInv, TypeOK, HeldInv
<1> QED
  BY <1>1, AtType DEF Low, Base

(* The tickets in use fit into the ring; one more does when a visitor has a *)
(* token and no ticket yet.                                                 *)
LEMMA TicketsFit ==
  ASSUME TypeInv, HeldInv, TokensConserved
  PROVE  /\ head <= Base + Size
         /\ \A v \in Visitors : pc[v] = "claim" => head < Base + Size
<1>1. /\ Undoing \in Nat /\ Claiming \in Nat /\ free_count \in Int
      /\ head \in Nat /\ tail \in Nat /\ Size \in Nat /\ Len(held) \in Nat
      /\ Base = tail - Len(held)
  BY CountType, HeldType, ConstantsAssumption DEF TypeInv, TypeOK, Undoing, Claiming, Base
<1>2. /\ free_count + Undoing >= 0
      /\ free_count + Undoing + Claiming + (head - tail) + Len(held) = Size
  BY DEF TokensConserved, Undoing, Claiming
<1>3. head <= Base + Size
  BY <1>1, <1>2
<1>4. ASSUME NEW v \in Visitors, pc[v] = "claim"
      PROVE  head < Base + Size
  <2>1. AtLabel("claim") # {}
    BY <1>4 DEF AtLabel
  <2>2. Claiming # 0
    BY <2>1, CountType, FS_EmptySet DEF Claiming
  <2> QED
    BY <1>1, <1>2, <2>2
<1> QED
  BY <1>3, <1>4

LEMMA SlotsOfTickets ==
  ASSUME TypeInv, HeldInv, WrapSafe
  PROVE  /\ \A j, k \in Base .. Base + Size - 1 : j # k => At(j) # At(k)
         /\ At(Base + Size) = At(Base)
<1>1. Base \in Nat /\ Size \in Nat \ {0} /\ CounterMod \in Nat \ {0}
  BY Tickets, ConstantsAssumption
<1> HIDE DEF Base
<1>2. ASSUME NEW j \in Base .. Base + Size - 1, NEW k \in Base .. Base + Size - 1, j # k
      PROVE  At(j) # At(k)
  <2>1. j \in Nat /\ k \in Nat /\ j < k + Size /\ k < j + Size
    BY <1>1
  <2> QED
    BY <1>1, <1>2, <2>1, WrappedSlotsDiffer DEF At, WrapSafe
<1>3. At(Base + Size) = At(Base)
  BY <1>1, NextLap DEF At, WrapSafe
<1> QED
  BY <1>2, <1>3

(* What the steps of a visitor leave alone. *)
LEMMA VisitorGoes ==
  ASSUME TypeInv, NEW v \in Visitors, NEW to, Goto(v, to)
  PROVE  /\ pc'[Master] = pc[Master]
         /\ \A u \in Visitors : pc'[u] = IF u = v THEN to ELSE pc[u]
         /\ Owners' = IF to \in {"use", "release"} THEN Owners \cup {v} ELSE Owners \ {v}
         /\ tail' = tail => Low' = Low
BY ConstantsAssumption DEF TypeInv, TypeOK, Goto, Owners, Threads, Low

(* The failing fetch, and taking a token, do not touch the ring.            *)
LEMMA VisitorWaits ==
  ASSUME TypeInv, NEW v \in Visitors, FetchReserve(v) \/ FetchReject(v) \/ FetchUndo(v)
  PROVE  /\ pc'[Master] = pc[Master] /\ Owners' = Owners /\ Low' = Low
         /\ \A u \in Visitors : pc'[u] = "release" => pc[u] = "release"
         /\ \A t \in Threads : seen[t] \subseteq seen'[t]
         /\ seen'[Master] = seen[Master]
         /\ UNCHANGED <<head, tail, state, data, index, visits, held, claims, served, rel>>
<1>1. /\ pc[v] \in {"idle", "undo"}
      /\ Goto(v, "claim") \/ Goto(v, "undo") \/ Goto(v, "idle")
      /\ UNCHANGED <<head, tail, state, data, index, visits, held, claims, served, rel>>
  BY DEF FetchReserve, FetchReject, TakeToken, FetchUndo
<1>2. seen' = seen \/ seen' = Acquire(seen, v, rel[FreeCount])
  BY DEF FetchReserve, FetchReject, TakeToken, FetchUndo
<1>3. /\ \A t \in Threads : seen[t] \subseteq seen'[t]
      /\ seen'[Master] = seen[Master]
  BY <1>2, ConstantsAssumption DEF Acquire, TypeInv, TypeOK, Threads
<1>4. CASE Goto(v, "claim")
  BY <1>1, <1>3, <1>4, VisitorGoes DEF Owners
<1>5. CASE Goto(v, "undo")
  BY <1>1, <1>3, <1>5, VisitorGoes DEF Owners
<1>6. CASE Goto(v, "idle")
  BY <1>1, <1>3, <1>6, VisitorGoes DEF Owners
<1> QED
  BY <1>1, <1>4, <1>5, <1>6

(* What the steps of the master leave alone. *)
LEMMA MasterGoes ==
  ASSUME TypeInv,
         \/ MasterFetch \/ MasterSkip
         \/ \E i \in 1 .. Len(held) : MasterUse(i) \/ MasterRelease(i)
  PROVE  /\ \A v \in Visitors : pc'[v] = pc[v]
         /\ Owners' = Owners
         /\ \A k : Owned(k)' <=> Owned(k)
         /\ UNCHANGED <<head, index, visits, claims>>
<1>1. /\ pc' = pc \/ \E l : Goto(Master, l)
      /\ UNCHANGED <<head, index, visits, claims>>
  BY DEF MasterFetch, ExchangeReady, FindReady, MasterUse, MasterRelease, CountAdd,
         MasterSkip, SkipTake, SkipCount, SkipEnd
<1>2. \A v \in Visitors : pc'[v] = pc[v]
  BY <1>1, ConstantsAssumption DEF Goto, TypeInv, TypeOK, Threads
<1> QED
  BY <1>1, <1>2 DEF Owners, Owned

-----------------------------------------------------------------------------
(* What the master holds *)

LEMMA InitHeld == Init => HeldInv
BY ConstantsAssumption DEF Init, HeldInv, Threads

LEMMA NextHeld ==
  ASSUME TypeInv, HeldInv, InOrder, [Next]_vars
  PROVE  HeldInv'
<1>a. held \in Seq(Holding) /\ Len(held) \in Nat /\ tail \in Nat /\ Master \in Threads
  BY HeldType DEF TypeInv, TypeOK, Threads
<1>1. ASSUME pc'[Master] = pc[Master], tail' = tail, Len(held') = Len(held),
             \A i \in 1 .. Len(held) : held'[i].slot = held[i].slot,
             held = << >> => held' = << >>
      PROVE  HeldInv'
  BY <1>1 DEF HeldInv, Base, At
<1>2. ASSUME NEW v \in Visitors, Attempt(v) \/ Finish(v)
      PROVE  HeldInv'
  <2>1. \E l : Goto(v, l)
    BY <1>2 DEF Attempt, Finish, FetchReserve, FetchReject, FetchUndo, FetchClaim, TakeTicket,
                VisitorUse, VisitorRelease
  <2>2. pc'[Master] = pc[Master]
    BY <2>1, VisitorGoes
  <2>3. UNCHANGED <<tail, held>>
    BY <1>2 DEF Attempt, Finish, FetchReserve, FetchReject, TakeToken, FetchUndo, FetchClaim,
                TakeTicket, VisitorUse, VisitorRelease
  <2> QED
    BY <1>1, <2>2, <2>3
<1>3. CASE MasterFetch
  <2>1. /\ pc[Master] = "idle" /\ pc' = pc /\ tail' = tail + 1
        /\ Len(held') = Len(held) + 1
        /\ \A i \in 1 .. Len(held) : held'[i] = held[i]
        /\ held'[Len(held) + 1].slot = At(tail)
    BY <1>3, HeldMore, AtType, <1>a DEF MasterFetch
  <2>2. Base' = Base
    BY <1>a, <2>1 DEF Base
  <2>3. ASSUME NEW i \in 1 .. Len(held')
        PROVE  held'[i].slot = At(Base + i - 1)
    <3>1. CASE i \in 1 .. Len(held)
      BY <2>1, <3>1 DEF HeldInv
    <3>2. CASE i = Len(held) + 1
      <4>1. Base + i - 1 = tail
        BY <1>a, <3>2 DEF Base
      <4> QED
        BY <2>1, <3>2, <4>1
    <3> QED
      BY <1>a, <2>1, <3>1, <3>2
  <2> QED
    BY <1>a, <2>1, <2>2, <2>3 DEF HeldInv, At
<1>4. ASSUME NEW i \in 1 .. Len(held), MasterUse(i)
      PROVE  HeldInv'
  <2>1. /\ pc' = pc /\ tail' = tail /\ held # << >>
        /\ Len(held') = Len(held)
        /\ \A j \in 1 .. Len(held) : held'[j].slot = held[j].slot
    BY <1>4, <1>a, HeldUsed DEF MasterUse
  <2> QED
    BY <1>1, <2>1
<1>5. ASSUME NEW i \in 1 .. Len(held), MasterRelease(i)
      PROVE  HeldInv'
  <2>1. /\ i = 1 /\ pc[Master] = "idle" /\ pc' = pc /\ tail' = tail
        /\ Len(held') = Len(held) - 1
        /\ \A j \in 1 .. Len(held) - 1 : held'[j] = held[j + 1]
    BY <1>5, HeldLess DEF MasterRelease, CountAdd, InOrder
  <2>2. \A j \in 1 .. Len(held) - 1 : j + 1 \in 1 .. Len(held) /\ Base' + j - 1 = Base + (j + 1) - 1
    BY <1>a, <2>1 DEF Base
  <2>3. \A j \in 1 .. Len(held') : held'[j].slot = At(Base' + j - 1)
    BY <2>1, <2>2 DEF HeldInv
  <2> QED
    BY <1>a, <2>1, <2>3 DEF HeldInv, At
<1>6. CASE SkipTake
  <2>1. held = << >> /\ UNCHANGED <<tail, held>>
    BY <1>6 DEF SkipTake, InOrder
  <2> QED
    BY <1>a, <2>1 DEF HeldInv
<1>7. CASE SkipCount
  <2>1. held = << >> /\ held' = held /\ tail' = tail + 1
    BY <1>7 DEF SkipCount, HeldInv
  <2> QED
    BY <1>a, <2>1 DEF HeldInv
<1>8. CASE SkipEnd
  <2>1. held = << >> /\ held' = held /\ tail' = tail
    BY <1>8 DEF SkipEnd, HeldInv
  <2> QED
    BY <1>a, <2>1 DEF HeldInv
<1>9. CASE UNCHANGED vars
  BY <1>1, <1>9 DEF vars
<1> QED
  BY <1>2, <1>3, <1>4, <1>5, <1>6, <1>7, <1>8, <1>9
  DEF Next, MasterReturn, MasterSkip, Terminating

-----------------------------------------------------------------------------
(* Tickets and states *)

LEMMA InitSlot == Init => SlotInv
<1> SUFFICES ASSUME Init
             PROVE  SlotInv
  OBVIOUS
<1>1. Owners = {} /\ Low = 0
  BY ConstantsAssumption DEF Init, Owners, Low, Threads
<1> QED
  BY <1>1 DEF Init, SlotInv

(* A step that moves no ticket. *)
LEMMA SlotSame ==
  ASSUME SlotInv, Owners' = Owners, Low' = Low, UNCHANGED <<index, state, head>>
  PROVE  SlotInv'
BY DEF SlotInv, Owned, At

(* The master obtains the element of the oldest ticket: its exchange finds  *)
(* READY.                                                                   *)
LEMMA OldestIsReady ==
  ASSUME TypeInv, HeldInv, SlotInv, ExchangeReady, Low = tail
  PROVE  tail \in Low .. head - 1 /\ ~Owned(tail)
<1>1. state[At(tail)] = "READY"
  BY DEF ExchangeReady, FindReady
<1> QED
  BY <1>1, Tickets DEF SlotInv

LEMMA ExchangeSlot ==
  ASSUME TypeInv, TokensConserved, HeldInv, SlotInv, WrapSafe, ExchangeReady,
         Low = tail, Low' = tail + 1, Owners' = Owners
  PROVE  SlotInv'
<1>1. /\ state' = [state EXCEPT ![At(tail)] = "FREE"]
      /\ UNCHANGED <<head, index>>
  BY DEF ExchangeReady, FindReady
<1>2. tail \in Low .. head - 1 /\ ~Owned(tail) /\ At(tail) \in Slots
  BY OldestIsReady, Tickets
<1>3. \A v \in Owners : index[v] \in Low' .. head - 1
  BY <1>2, Tickets DEF SlotInv, Owned
<1>4. \A s \in Slots : state'[s] = "READY" <=> state[s] = "READY" /\ s # At(tail)
  BY <1>1, <1>2 DEF TypeInv, TypeOK
<1>5. \A k \in Low' .. head - 1 : k \in Low .. head - 1 /\ At(k) # At(tail) /\ At(k) \in Slots
  <2>1. \A k \in Low' .. head - 1 :
          k \in Base .. Base + Size - 1 /\ k # tail /\ k \in Low .. head - 1
    BY Tickets, TicketsFit
  <2>2. tail \in Base .. Base + Size - 1
    BY <1>2, Tickets, TicketsFit
  <2> QED
    BY <2>1, <2>2, SlotsOfTickets, Tickets
<1>6. \A k : Owned(k)' <=> Owned(k)
  BY <1>1 DEF Owned
<1>7. \A k \in Low' .. head - 1 : state'[At(k)] = "READY" <=> ~Owned(k)
  BY <1>4, <1>5 DEF SlotInv
<1>8. ASSUME NEW s \in Slots, state'[s] = "READY"
      PROVE  \E k \in Low' .. head - 1 : s = At(k)
  <2>1. PICK k \in Low .. head - 1 : s = At(k)
    BY <1>4, <1>8 DEF SlotInv
  <2>2. k # tail
    BY <1>4, <1>8, <2>1
  <2> QED
    BY <2>1, <2>2, Tickets
<1>9. Low' <= head
  BY <1>2, Tickets
<1> QED
  BY <1>1, <1>3, <1>6, <1>7, <1>8, <1>9 DEF SlotInv, At

LEMMA NextSlot ==
  ASSUME TypeInv, TokensConserved, HeldInv, SlotInv, WrapSafe, [Next]_vars
  PROVE  SlotInv'
<1>1. ASSUME NEW v \in Visitors, FetchReserve(v) \/ FetchReject(v) \/ FetchUndo(v)
      PROVE  SlotInv'
  BY <1>1, VisitorWaits, SlotSame
<1>2. ASSUME NEW v \in Visitors, VisitorUse(v)
      PROVE  SlotInv'
  <2>1. Owners' = Owners /\ Low' = Low /\ UNCHANGED <<index, state, head>>
    BY <1>2, VisitorGoes DEF VisitorUse, Owners
  <2> QED
    BY <2>1, SlotSame
<1>3. ASSUME NEW v \in Visitors, FetchClaim(v)
      PROVE  SlotInv'
  <2>1. /\ Owners' = Owners \cup {v} /\ v \notin Owners /\ Low' = Low
        /\ head' = head + 1 /\ state' = state
        /\ index' = [index EXCEPT ![v] = head]
        /\ pc[v] = "claim"
    BY <1>3, VisitorGoes DEF FetchClaim, TakeTicket, Owners
  <2>2. /\ index'[v] = head
        /\ \A u \in Owners : index'[u] = index[u] /\ index[u] \in Low .. head - 1
    BY <2>1 DEF TypeInv, TypeOK, Owners, SlotInv
  <2>3. Low' <= head'
    BY <2>1, Tickets DEF SlotInv
  <2>4. \A u \in Owners' : index'[u] \in Low' .. head' - 1
    BY <2>1, <2>2, Tickets DEF SlotInv
  <2>5. \A u, w \in Owners' : index'[u] = index'[w] => u = w
    BY <2>1, <2>2, Tickets DEF SlotInv
  <2>6. \A k \in Low .. head - 1 : Owned(k)' <=> Owned(k)
    BY <2>1, <2>2, Tickets DEF Owned
  <2>7. \A k : k = head => Owned(k)'
    BY <2>1, <2>2 DEF Owned
  <2>8. state[At(head)] # "READY"
    <3>1. head \in Base .. Base + Size - 1 /\ At(head) \in Slots
      BY <2>1, Tickets, TicketsFit DEF SlotInv
    <3>2. \A k \in Low .. head - 1 : k \in Base .. Base + Size - 1 /\ k # head
      BY Tickets, TicketsFit
    <3> QED
      BY <3>1, <3>2, SlotsOfTickets DEF SlotInv
  <2>9. \A k \in Low' .. head' - 1 : state'[At(k)] = "READY" <=> ~Owned(k)'
    <3> SUFFICES ASSUME NEW k \in Low .. head
                 PROVE  state[At(k)] = "READY" <=> ~Owned(k)'
      BY <2>1, Tickets
    <3>1. CASE k \in Low .. head - 1
      BY <2>6, <3>1 DEF SlotInv
    <3>2. CASE k = head
      BY <2>7, <2>8, <3>2
    <3> QED
      BY <3>1, <3>2, Tickets
  <2>10. \A s \in Slots : state'[s] = "READY" => \E k \in Low' .. head' - 1 : s = At(k)
    BY <2>1, Tickets DEF SlotInv
  <2> QED
    BY <2>3, <2>4, <2>5, <2>9, <2>10 DEF SlotInv, At
<1>4. ASSUME NEW v \in Visitors, VisitorRelease(v)
      PROVE  SlotInv'
  <2>1. /\ Owners' = Owners \ {v} /\ v \in Owners /\ Low' = Low
        /\ head' = head /\ index' = index
        /\ state' = [state EXCEPT ![At(index[v])] = "READY"]
    BY <1>4, VisitorGoes DEF VisitorRelease, StateStore, Owners
  <2>2. index[v] \in Low .. head - 1 /\ At(index[v]) \in Slots
    BY <2>1, Tickets DEF SlotInv
  <2>3. \A s \in Slots : state'[s] = "READY" <=> s = At(index[v]) \/ state[s] = "READY"
    BY <2>1, <2>2 DEF TypeInv, TypeOK
  <2>4. \A k \in Low .. head - 1 : Owned(k)' <=> Owned(k) /\ k # index[v]
    BY <2>1 DEF Owned, SlotInv
  <2>5. \A k \in Low .. head - 1 : At(k) = At(index[v]) <=> k = index[v]
    <3>1. \A k \in Low .. head - 1 : k \in Base .. Base + Size - 1
      BY Tickets, TicketsFit
    <3> QED
      BY <2>2, <3>1, SlotsOfTickets
  <2>6. \A k \in Low' .. head' - 1 : state'[At(k)] = "READY" <=> ~Owned(k)'
    BY <2>1, <2>3, <2>4, <2>5, Tickets DEF SlotInv
  <2>7. \A s \in Slots : state'[s] = "READY" => \E k \in Low' .. head' - 1 : s = At(k)
    BY <2>1, <2>2, <2>3 DEF SlotInv
  <2> QED
    BY <2>1, <2>6, <2>7 DEF SlotInv, At
<1>5. CASE MasterFetch
  <2>1. Low = tail /\ Low' = tail + 1 /\ Owners' = Owners /\ ExchangeReady
    BY <1>5, MasterGoes DEF MasterFetch, Low
  <2> QED
    BY <2>1, ExchangeSlot
<1>6. CASE SkipTake
  <2>1. Low = tail /\ Low' = tail + 1 /\ Owners' = Owners /\ ExchangeReady
    BY <1>6, MasterGoes DEF SkipTake, Low, MasterSkip, Goto, TypeInv, TypeOK, Threads
  <2> QED
    BY <2>1, ExchangeSlot
<1>7. ASSUME \/ \E i \in 1 .. Len(held) : MasterUse(i) \/ MasterRelease(i)
             \/ SkipCount \/ SkipEnd
      PROVE  SlotInv'
  <2>1. Owners' = Owners /\ UNCHANGED <<index, head>>
    BY <1>7, MasterGoes DEF MasterSkip
  <2>2. state' = state /\ Low' = Low
    BY <1>7, Tickets
    DEF MasterUse, MasterRelease, CountAdd, SkipCount, SkipEnd, Low, Goto, TypeInv, TypeOK, Threads
  <2> QED
    BY <2>1, <2>2, SlotSame
<1>8. CASE UNCHANGED vars
  <2>1. Owners' = Owners /\ Low' = Low
    BY <1>8 DEF vars, Owners, Low
  <2> QED
    BY <1>8, <2>1, SlotSame DEF vars
<1> QED
  BY <1>1, <1>2, <1>3, <1>4, <1>5, <1>6, <1>7, <1>8
  DEF Next, Attempt, Finish, MasterReturn, MasterSkip, Terminating

-----------------------------------------------------------------------------
(* Contents *)

LEMMA InitFifo == Init => FifoInv
<1> SUFFICES ASSUME Init
             PROVE  FifoInv
  OBVIOUS
<1>1. Owners = {} /\ Low = 0 /\ Visitors \subseteq Threads /\ Master \in Threads
  BY ConstantsAssumption DEF Init, Owners, Low, Threads
<1> QED
  BY <1>1 DEF Init, FifoInv

LEMMA NotBlank ==
  ASSUME NEW e \in Elements
  PROVE  e # Blank
BY ConstantsAssumption DEF Elements, Blank

(* The tickets in use are in the window that starts at Base.                *)
LEMMA InWindow ==
  ASSUME TypeInv, TokensConserved, HeldInv, SlotInv
  PROVE  /\ \A k \in Low .. head - 1 : k \in Base .. Base + Size - 1 /\ k + 1 \in 1 .. head
         /\ \A v \in Owners : index[v] \in Base .. Base + Size - 1 /\ index[v] + 1 \in 1 .. head
         /\ \A i \in 1 .. Len(held) :
              /\ Base + i - 1 \in Base .. Base + Size - 1
              /\ Base + i - 1 < Low
              /\ held[i].slot = At(Base + i - 1)
              /\ held[i].slot \in Slots
         /\ pc[Master] = "count" => tail \in Base .. Base + Size - 1 /\ tail < Low
<1>1. /\ Base \in Nat /\ Low \in Nat /\ head \in Nat /\ Size \in Nat /\ tail \in Nat
      /\ Base <= tail /\ tail <= Low /\ Low <= head /\ head <= Base + Size
      /\ Len(held) = tail - Base
  BY Tickets, TicketsFit DEF SlotInv
<1> HIDE DEF Base
<1>2. \A k \in Low .. head - 1 : k \in Base .. Base + Size - 1 /\ k + 1 \in 1 .. head
  BY <1>1
<1>3. \A v \in Owners : index[v] \in Low .. head - 1
  BY DEF SlotInv
<1>4. \A i \in 1 .. Len(held) : Base + i - 1 \in Base .. Base + Size - 1 /\ Base + i - 1 < Low
  BY <1>1
<1>5. \A i \in 1 .. Len(held) : held[i].slot = At(Base + i - 1)
  BY DEF HeldInv
<1>6. \A i \in 1 .. Len(held) : held[i].slot \in Slots
  <2>1. \A i \in 1 .. Len(held) : Base + i - 1 \in Nat
    BY <1>1
  <2> QED
    BY <1>5, <2>1, Tickets
<1>7. pc[Master] = "count" => tail \in Base .. Base + Size - 1 /\ tail < Low
  <2>1. pc[Master] = "count" => Low = tail + 1
    BY DEF Low
  <2> QED
    BY <1>1, <2>1
<1> QED
  BY <1>2, <1>3, <1>4, <1>5, <1>6, <1>7

(* A step that moves no ticket and no element. *)
LEMMA FifoSame ==
  ASSUME FifoInv, Owners' = Owners, Low' = Low,
         pc'[Master] = "count" => pc[Master] = "count" /\ tail' = tail,
         \A v \in Visitors : pc'[v] = "release" => pc[v] = "release",
         UNCHANGED <<head, index, visits, claims, served, data>>
  PROVE  FifoInv'
<1>1. \A k : Owned(k)' <=> Owned(k)
  BY DEF Owned
<1>2. \A v : Visit(v)' = Visit(v)
  BY DEF Visit
<1> QED
  BY <1>1, <1>2 DEF FifoInv, At

LEMMA ExchangeFifo ==
  ASSUME TypeInv, HeldInv, SlotInv, FifoInv, ExchangeReady,
         Low = tail, Low' = tail + 1, Owners' = Owners,
         pc'[Master] = "count" => tail' = tail,
         \A v \in Visitors : pc'[v] = pc[v]
  PROVE  FifoInv'
<1>1. /\ served' = Append(served, data[At(tail)])
      /\ UNCHANGED <<head, data, index, visits, claims>>
  BY DEF ExchangeReady, FindReady
<1>2. tail \in Low .. head - 1 /\ ~Owned(tail) /\ tail + 1 \in 1 .. Len(claims)
  BY OldestIsReady, Tickets DEF FifoInv
<1>3. data[At(tail)] = claims[tail + 1] /\ claims[tail + 1] \in Elements
  BY <1>2 DEF FifoInv, TypeInv, TypeOK
<1>4. Len(served') = tail + 1
  BY <1>1, <1>3, AppendProperties DEF FifoInv, TypeInv, TypeOK
<1>5. \A k : Owned(k)' <=> Owned(k)
  BY <1>1 DEF Owned
<1>6. \A v : Visit(v)' = Visit(v)
  BY <1>1 DEF Visit
<1>7. \A k \in Low' .. head - 1 : k \in Low .. head - 1
  BY Tickets
<1>8. data[At(tail)] # Blank
  BY <1>3, NotBlank
<1> QED
  BY <1>1, <1>4, <1>5, <1>6, <1>7, <1>8 DEF FifoInv, At

LEMMA NextFifo ==
  ASSUME TypeInv, TokensConserved, HeldInv, SlotInv, FifoInv, WrapSafe, [Next]_vars
  PROVE  FifoInv'
<1>1. ASSUME NEW v \in Visitors, FetchReserve(v) \/ FetchReject(v) \/ FetchUndo(v)
      PROVE  FifoInv'
  BY <1>1, VisitorWaits, FifoSame
<1>2. ASSUME NEW v \in Visitors, FetchClaim(v)
      PROVE  FifoInv'
  <2>1. /\ Owners' = Owners \cup {v} /\ v \notin Owners /\ Low' = Low
        /\ pc'[Master] = pc[Master]
        /\ \A u \in Visitors : pc'[u] = "release" => pc[u] = "release" /\ u # v
        /\ head' = head + 1 /\ index' = [index EXCEPT ![v] = head]
        /\ claims' = Append(claims, Visit(v))
        /\ UNCHANGED <<tail, data, visits, served>>
    BY <1>2, VisitorGoes DEF FetchClaim, TakeTicket, Owners
  <2>2. /\ index'[v] = head
        /\ \A u \in Visitors : u # v => index'[u] = index[u]
    BY <2>1 DEF TypeInv, TypeOK
  <2>3. /\ Len(claims') = head + 1
        /\ claims'[head + 1] = Visit(v)
        /\ \A i \in 1 .. head : claims'[i] = claims[i]
    <3>1. Visit(v) \in Elements
      BY <1>2, VisitType DEF FetchClaim, TakeTicket
    <3>2. claims \in Seq(Elements) /\ Len(claims) = head /\ head \in Nat
      BY DEF TypeInv, TypeOK, FifoInv
    <3> QED
      BY <2>1, <3>1, <3>2, AppendProperties
  <2>4. \A u : Visit(u)' = Visit(u)
    BY <2>1 DEF Visit
  <2>5. \A k \in Low' .. head' - 1 : ~Owned(k)' => k \in Low .. head - 1 /\ ~Owned(k)
    <3> SUFFICES ASSUME NEW k \in Low .. head, ~Owned(k)'
                 PROVE  k \in Low .. head - 1 /\ ~Owned(k)
      BY <2>1, Tickets
    <3>1. k # head
      BY <2>1, <2>2 DEF Owned
    <3>2. ~Owned(k)
      BY <2>1, <2>2 DEF Owned, Owners
    <3> QED
      BY <3>1, <3>2, Tickets
  <2>6. ASSUME NEW u \in Owners'
        PROVE  claims'[index'[u] + 1] = Visit(u)
    <3>1. CASE u = v
      BY <2>2, <2>3, <3>1
    <3>2. CASE u # v
      <4>1. u \in Owners /\ index'[u] = index[u] /\ index[u] + 1 \in 1 .. head
        BY <2>1, <2>2, <3>2, InWindow DEF Owners
      <4> QED
        BY <2>3, <4>1 DEF FifoInv
    <3> QED
      BY <3>1, <3>2
  <2>7. \A u \in Visitors : pc'[u] = "release" => data'[At(index'[u])] = Visit(u)
    BY <2>1, <2>2 DEF FifoInv
  <2>8. \A k \in Low' .. head' - 1 : ~Owned(k)' => data'[At(k)] = claims'[k + 1]
    BY <2>1, <2>3, <2>5, InWindow DEF FifoInv
  <2>9. Len(served') = Low' /\ (pc'[Master] = "count" => data'[At(tail')] # Blank)
    BY <2>1 DEF FifoInv
  <2> QED
    BY <2>1, <2>3, <2>4, <2>6, <2>7, <2>8, <2>9 DEF FifoInv, At
<1>3. ASSUME NEW v \in Visitors, VisitorUse(v)
      PROVE  FifoInv'
  <2>1. /\ Owners' = Owners /\ v \in Owners /\ Low' = Low
        /\ pc'[Master] = pc[Master]
        /\ \A u \in Visitors : pc'[u] = "release" => pc[u] = "release" \/ u = v
        /\ data' = [data EXCEPT ![At(index[v])] = Visit(v)]
        /\ UNCHANGED <<head, tail, index, visits, claims, served>>
    BY <1>3, VisitorGoes DEF VisitorUse, Owners
  <2>2. index[v] \in Base .. Base + Size - 1 /\ At(index[v]) \in Slots
    BY <2>1, InWindow, Tickets
  <2>3. \A k \in Base .. Base + Size - 1 :
          data'[At(k)] = IF k = index[v] THEN Visit(v) ELSE data[At(k)]
    BY <2>1, <2>2, Tickets, SlotsOfTickets DEF TypeInv, TypeOK
  <2>4. \A u : Visit(u)' = Visit(u)
    BY <2>1 DEF Visit
  <2>5. \A k : Owned(k)' <=> Owned(k)
    BY <2>1 DEF Owned
  <2>6. ASSUME NEW u \in Visitors, pc'[u] = "release"
        PROVE  data'[At(index[u])] = Visit(u)
    <3>1. u \in Owners
      BY <2>1, <2>6 DEF Owners
    <3>2. index[u] \in Base .. Base + Size - 1 /\ (index[u] = index[v] => u = v)
      BY <2>1, <3>1, InWindow DEF SlotInv
    <3> QED
      BY <2>1, <2>3, <2>6, <3>2 DEF FifoInv
  <2>7. \A k \in Low .. head - 1 : ~Owned(k) => data'[At(k)] = claims[k + 1]
    BY <2>1, <2>3, InWindow DEF FifoInv, Owned
  <2>8. ASSUME pc[Master] = "count"
        PROVE  data'[At(tail)] # Blank
    <3>1. tail \in Base .. Base + Size - 1 /\ tail # index[v]
      BY <2>1, <2>8, InWindow, Tickets DEF SlotInv
    <3> QED
      BY <2>3, <2>8, <3>1 DEF FifoInv
  <2> QED
    BY <2>1, <2>4, <2>5, <2>6, <2>7, <2>8 DEF FifoInv, At
<1>4. ASSUME NEW v \in Visitors, VisitorRelease(v)
      PROVE  FifoInv'
  <2>1. /\ Owners' = Owners \ {v} /\ v \in Owners /\ Low' = Low
        /\ pc'[Master] = pc[Master] /\ pc[v] = "release"
        /\ \A u \in Visitors : pc'[u] = "release" => pc[u] = "release" /\ u # v
        /\ visits' = [visits EXCEPT ![v] = @ + 1]
        /\ UNCHANGED <<head, tail, data, index, claims, served>>
    BY <1>4, VisitorGoes DEF VisitorRelease, StateStore, Owners
  <2>2. \A u \in Visitors : u # v => Visit(u)' = Visit(u)
    BY <2>1 DEF Visit, TypeInv, TypeOK
  <2>3. \A k : ~Owned(k)' => ~Owned(k) \/ k = index[v]
    BY <2>1 DEF Owned
  <2>4. data[At(index[v])] = claims[index[v] + 1]
    BY <2>1 DEF FifoInv
  <2>5. \A k \in Low' .. head' - 1 : ~Owned(k)' => data'[At(k)] = claims'[k + 1]
    BY <2>1, <2>3, <2>4 DEF FifoInv
  <2>6. \A u \in Owners' : u \in Visitors /\ u # v /\ u \in Owners
    BY <2>1 DEF Owners
  <2> QED
    BY <2>1, <2>2, <2>5, <2>6 DEF FifoInv, At
<1>5. CASE MasterFetch
  <2>1. /\ Low = tail /\ Low' = tail + 1 /\ ExchangeReady /\ pc' = pc /\ pc[Master] = "idle"
        /\ Owners' = Owners
    BY <1>5, MasterGoes DEF MasterFetch, Low
  <2> QED
    BY <2>1, ExchangeFifo
<1>6. CASE SkipTake
  <2>1. /\ Low = tail /\ Low' = tail + 1 /\ ExchangeReady /\ tail' = tail
        /\ Owners' = Owners /\ \A v \in Visitors : pc'[v] = pc[v]
    BY <1>6, MasterGoes DEF SkipTake, Low, MasterSkip, Goto, TypeInv, TypeOK, Threads
  <2> QED
    BY <2>1, ExchangeFifo
<1>7. ASSUME NEW i \in 1 .. Len(held), MasterUse(i)
      PROVE  FifoInv'
  <2> DEFINE b == Base + i - 1
  <2>1. /\ Owners' = Owners /\ pc' = pc /\ Low' = Low /\ pc[Master] = "idle"
        /\ data' = [data EXCEPT ![held[i].slot] = Blank]
        /\ UNCHANGED <<head, tail, index, visits, claims, served>>
    BY <1>7 DEF MasterUse, Owners, Low
  <2>2. b \in Base .. Base + Size - 1 /\ b < Low /\ held[i].slot = At(b)
    BY InWindow
  <2>3. \A k \in Low .. head - 1 : data'[At(k)] = data[At(k)]
    <3>1. \A k \in Low .. head - 1 : k # b /\ k \in Base .. Base + Size - 1
      BY <2>2, InWindow, Tickets
    <3>2. \A k \in Low .. head - 1 : At(k) # held[i].slot
      BY <2>2, <3>1, SlotsOfTickets
    <3>3. \A k \in Low .. head - 1 : At(k) \in Slots
      BY Tickets
    <3> HIDE DEF b
    <3> QED
      BY <2>1, <3>2, <3>3 DEF TypeInv, TypeOK
  <2>4. \A k : Owned(k)' <=> Owned(k)
    BY <2>1 DEF Owned
  <2>5. \A u : Visit(u)' = Visit(u)
    BY <2>1 DEF Visit
  <2>6. \A v \in Visitors : pc[v] = "release" => index[v] \in Low .. head - 1
    BY DEF SlotInv, Owners
  <2> QED
    BY <2>1, <2>3, <2>4, <2>5, <2>6 DEF FifoInv, At
<1>8. ASSUME \/ \E i \in 1 .. Len(held) : MasterRelease(i)
             \/ SkipCount \/ SkipEnd
      PROVE  FifoInv'
  <2>1. /\ Owners' = Owners /\ UNCHANGED <<index, head, visits, claims>>
        /\ \A v \in Visitors : pc'[v] = pc[v]
    BY <1>8, MasterGoes DEF MasterSkip
  <2>2. /\ Low' = Low /\ pc'[Master] # "count" /\ UNCHANGED <<data, served>>
    BY <1>8, Tickets
    DEF MasterRelease, CountAdd, SkipCount, SkipEnd, Low, Goto, TypeInv, TypeOK, Threads
  <2> QED
    BY <2>1, <2>2, FifoSame
<1>9. CASE UNCHANGED vars
  <2>1. Owners' = Owners /\ Low' = Low
    BY <1>9 DEF vars, Owners, Low
  <2> QED
    BY <1>9, <2>1, FifoSame DEF vars
<1> QED
  BY <1>1, <1>2, <1>3, <1>4, <1>5, <1>6, <1>7, <1>8, <1>9
  DEF Next, Attempt, Finish, MasterReturn, MasterSkip, Terminating

-----------------------------------------------------------------------------
(* Memory orders *)

LEMMA AtomicsDiffer ==
  /\ \A s \in Slots : StateOf(s) \in Atomics /\ StateOf(s) # FreeCount
  /\ \A s, u \in Slots : StateOf(s) = StateOf(u) => s = u
  /\ FreeCount \in Atomics
BY DEF Atomics, StateOf, FreeCount

(* The tickets not drawn whose elements are in the ring.                    *)
LEMMA FreeWindow ==
  ASSUME TypeInv, TokensConserved, HeldInv, SlotInv
  PROVE  \A k \in head .. Base + Size - 1 :
           /\ k \in Base .. Base + Size - 1
           /\ At(k) \in Slots
           /\ k >= Low
<1>1. /\ Base \in Nat /\ Low \in Nat /\ head \in Nat /\ Size \in Nat /\ tail \in Nat
      /\ Base <= tail /\ tail <= Low /\ Low <= head
      /\ \A k \in Nat : At(k) \in Slots
  BY Tickets DEF SlotInv
<1> HIDE DEF Base
<1> QED
  BY <1>1

LEMMA FreeReleased ==
  FreeElementsReleased <=>
    \A v \in Visitors, k \in head .. Base + Size - 1 :
      data[At(k)] = Blank => At(k) \in seen[v] \cup rel[FreeCount]
BY DEF FreeElementsReleased, Base

LEMMA InitOrder == Init => OrderInv
<1> SUFFICES ASSUME Init
             PROVE  OrderInv
  OBVIOUS
<1>1. /\ Low = 0 /\ Visitors \subseteq Threads /\ Master \in Threads /\ Size \in Nat \ {0}
      /\ Len(held) = 0 /\ head = 0 /\ tail = 0
  BY ConstantsAssumption DEF Init, Low, Threads
<1>2. \A k \in 0 .. Size - 1 : At(k) \in Slots
  BY <1>1, AtType
<1>3. tail - Len(held) + Size - 1 = Size - 1
  BY <1>1
<1>4. FreeElementsReleased
  <2>1. \A k \in head .. tail - Len(held) + Size - 1 : At(k) \in Slots
    BY <1>1, <1>2, <1>3
  <2>2. \A v \in Visitors : seen[v] = Slots
    BY <1>1 DEF Init
  <2> QED
    BY <2>1, <2>2 DEF FreeElementsReleased
<1>5. MasterOrdered
  <2>1. 1 .. Len(held) = {}
    BY <1>1
  <2> QED
    BY <2>1 DEF MasterOrdered
<1>6. \A k \in Low .. head - 1 : FALSE
  BY <1>1
<1> QED
  BY <1>1, <1>4, <1>5, <1>6 DEF Init, OrderInv, HandoversOrdered

(* A step that moves no ticket and touches no element.                      *)
LEMMA OrderSame ==
  ASSUME OrderInv, Low' = Low, UNCHANGED <<head, tail, held, index, data, rel>>,
         \A k : Owned(k)' <=> Owned(k),
         \A v \in Visitors : pc'[v] = "release" => pc[v] = "release",
         \A t \in Threads : seen[t] \subseteq seen'[t]
  PROVE  OrderInv'
<1>1. Visitors \subseteq Threads /\ Master \in Threads
  BY DEF Threads
<1> QED
  BY <1>1 DEF OrderInv, HandoversOrdered, MasterOrdered, FreeElementsReleased, At

(* An access to the element of ticket j: nobody but t has seen it.          *)
LEMMA TouchFacts ==
  ASSUME TypeInv, HeldInv, WrapSafe, NEW t \in Threads, NEW j \in Base .. Base + Size - 1,
         seen' = Touch(seen, t, At(j)), rel' = Forget(rel, At(j))
  PROVE  /\ At(j) \in seen'[t]
         /\ \A k \in Base .. Base + Size - 1 : k # j =>
              /\ At(k) # At(j)
              /\ \A u \in Threads : At(k) \in seen[u] => At(k) \in seen'[u]
              /\ \A a \in Atomics : At(k) \in rel[a] => At(k) \in rel'[a]
<1>1. seen \in [Threads -> SUBSET Slots] /\ rel \in [Atomics -> SUBSET Slots]
  BY DEF TypeInv, TypeOK
<1>2. /\ \A u \in Threads : seen'[u] = IF u = t THEN seen[u] \cup {At(j)} ELSE seen[u] \ {At(j)}
      /\ \A a \in Atomics : rel'[a] = rel[a] \ {At(j)}
  BY <1>1 DEF Touch, Forget
<1>3. \A k \in Base .. Base + Size - 1 : k # j => At(k) # At(j)
  BY SlotsOfTickets
<1> QED
  BY <1>2, <1>3

LEMMA NextOrder ==
  ASSUME IInv, WrapSafe, InOrder, [Next]_vars
  PROVE  OrderInv'
<1> USE DEF IInv
<1>a. /\ tail \in Nat /\ head \in Nat /\ Low \in Nat /\ Base \in Nat /\ Size \in Nat \ {0}
      /\ Low \in {tail, tail + 1} /\ Low <= head /\ Base <= tail /\ head <= Base + Size
      /\ Len(held) = tail - Base
  BY Tickets, TicketsFit DEF SlotInv
<1>b. /\ seen \in [Threads -> SUBSET Slots] /\ rel \in [Atomics -> SUBSET Slots]
      /\ Visitors \subseteq Threads /\ Master \in Threads /\ Master \notin Visitors
      /\ index \in [Visitors -> Nat]
      /\ data \in [Slots -> Elements \cup {Blank}]
  BY ConstantsAssumption DEF TypeInv, TypeOK, Threads
<1>c. \A v \in Visitors, k \in head .. Base + Size - 1 :
        data[At(k)] = Blank => At(k) \in seen[v] \cup rel[FreeCount]
  BY FreeReleased DEF OrderInv, HandoversOrdered
<1>1. ASSUME NEW v \in Visitors, FetchReserve(v) \/ FetchReject(v) \/ FetchUndo(v)
      PROVE  OrderInv'
  <2>1. \A k : Owned(k)' <=> Owned(k)
    BY <1>1, VisitorWaits DEF Owned
  <2> QED
    BY <1>1, <2>1, VisitorWaits, OrderSame
<1>2. ASSUME NEW v \in Visitors, FetchClaim(v)
      PROVE  OrderInv'
  <2>1. /\ Owners' = Owners \cup {v} /\ v \notin Owners /\ Low' = Low
        /\ \A u \in Visitors : pc'[u] = "release" => pc[u] = "release" /\ u # v
        /\ head' = head + 1 /\ index' = [index EXCEPT ![v] = head]
        /\ UNCHANGED <<tail, held, data, seen, rel>>
    BY <1>2, VisitorGoes DEF FetchClaim, TakeTicket, Owners
  <2>2. /\ index'[v] = head
        /\ \A u \in Visitors : u # v => index'[u] = index[u]
    BY <2>1, <1>b
  <2>3. \A k \in Low .. head : ~Owned(k)' => k \in Low .. head - 1 /\ ~Owned(k)
    BY <2>1, <2>2, <1>a DEF Owned, Owners
  <2>4. \A u \in Visitors : pc'[u] = "release" => At(index'[u]) \in seen'[u]
    BY <2>1, <2>2 DEF OrderInv
  <2>5. \A k \in Low' .. head' - 1 : ~Owned(k)' => At(k) \in rel'[StateOf(At(k))]
    BY <2>1, <2>3, <1>a DEF OrderInv
  <2>6. FreeElementsReleased'
    <3>1. \A k \in head' .. tail' - Len(held') + Size - 1 : k \in head .. Base + Size - 1
      BY <2>1, <1>a
    <3> QED
      BY <2>1, <3>1, <1>c DEF FreeElementsReleased, At
  <2>7. MasterOrdered'
    BY <2>1 DEF OrderInv, HandoversOrdered, MasterOrdered
  <2> QED
    BY <2>4, <2>5, <2>6, <2>7 DEF OrderInv, HandoversOrdered, At
<1>3. ASSUME NEW v \in Visitors, VisitorUse(v)
      PROVE  OrderInv'
  <2> DEFINE j == index[v]
  <2>1. /\ Owners' = Owners /\ v \in Owners /\ Low' = Low
        /\ \A u \in Visitors : pc'[u] = "release" => pc[u] = "release" \/ u = v
        /\ data' = [data EXCEPT ![At(j)] = Visit(v)]
        /\ seen' = Touch(seen, v, At(j)) /\ rel' = Forget(rel, At(j))
        /\ UNCHANGED <<head, tail, held, index>>
    BY <1>3, VisitorGoes DEF VisitorUse, Owners
  <2>2. j \in Base .. Base + Size - 1 /\ j \in Low .. head - 1 /\ At(j) \in Slots
    BY <2>1, InWindow, Tickets DEF SlotInv
  <2>3. v \in Threads
    BY <1>b
  <2> HIDE DEF j
  <2>4. /\ At(j) \in seen'[v]
        /\ \A k \in Base .. Base + Size - 1 : k # j =>
             /\ At(k) # At(j)
             /\ \A u \in Threads : At(k) \in seen[u] => At(k) \in seen'[u]
             /\ \A a \in Atomics : At(k) \in rel[a] => At(k) \in rel'[a]
    BY <2>1, <2>2, <2>3, TouchFacts
  <2>5. \A k : Owned(k)' <=> Owned(k)
    BY <2>1 DEF Owned
  <2>6. ASSUME NEW u \in Visitors, pc'[u] = "release"
        PROVE  At(index[u]) \in seen'[u]
    <3>1. CASE u = v
      BY <2>4, <3>1 DEF j
    <3>2. CASE u # v
      <4>1. u \in Owners /\ pc[u] = "release"
        BY <2>1, <2>6, <3>2 DEF Owners
      <4>2. index[u] \in Base .. Base + Size - 1 /\ index[u] # j
        BY <4>1, <3>2, <2>1, InWindow DEF SlotInv, j
      <4> QED
        BY <2>4, <4>1, <4>2, <1>b DEF OrderInv
    <3> QED
      BY <3>1, <3>2
  <2>7. \A k \in Low .. head - 1 : ~Owned(k) => At(k) \in rel'[StateOf(At(k))]
    <3> SUFFICES ASSUME NEW k \in Low .. head - 1, ~Owned(k)
                 PROVE  At(k) \in rel'[StateOf(At(k))]
      OBVIOUS
    <3>1. k # j /\ k \in Base .. Base + Size - 1
      BY <2>1, InWindow DEF Owned, j
    <3>2. At(k) \in Slots
      BY <3>1, Tickets
    <3> QED
      BY <2>4, <3>1, <3>2, AtomicsDiffer DEF OrderInv
  <2>8. ASSUME NEW i \in 1 .. Len(held)
        PROVE  held[i].slot \in seen'[Master]
    <3>1. /\ Base + i - 1 \in Base .. Base + Size - 1 /\ Base + i - 1 # j
          /\ held[i].slot = At(Base + i - 1)
      <4>1. Base + i - 1 < Low
        BY InWindow
      <4>2. Base + i - 1 # j
        BY <4>1, <2>2, <1>a
      <4> QED
        BY <4>2, InWindow
    <3>2. held[i].slot \in seen[Master]
      BY DEF OrderInv, HandoversOrdered, MasterOrdered
    <3> QED
      BY <2>4, <3>1, <3>2, <1>b
  <2>9. ASSUME NEW u \in Visitors, NEW k \in head .. Base + Size - 1, data'[At(k)] = Blank
        PROVE  At(k) \in seen'[u] \cup rel'[FreeCount]
    <3>1. k \in Base .. Base + Size - 1 /\ k # j /\ At(k) \in Slots
      BY <2>2, <1>a, FreeWindow
    <3>2. data'[At(k)] = data[At(k)]
      BY <2>1, <2>2, <2>4, <3>1, <1>b
    <3> QED
      BY <2>4, <2>9, <3>1, <3>2, <1>b, <1>c, AtomicsDiffer
  <2>10. FreeElementsReleased'
    BY <2>1, <2>9 DEF FreeElementsReleased, At, Base
  <2> QED
    BY <2>1, <2>5, <2>6, <2>7, <2>8, <2>10 DEF OrderInv, HandoversOrdered, MasterOrdered, At
<1>4. ASSUME NEW v \in Visitors, VisitorRelease(v)
      PROVE  OrderInv'
  <2>1. /\ Owners' = Owners \ {v} /\ v \in Owners /\ Low' = Low
        /\ pc[v] = "release"
        /\ \A u \in Visitors : pc'[u] = "release" => pc[u] = "release"
        /\ rel' = [rel EXCEPT ![StateOf(At(index[v]))] = seen[v]]
        /\ UNCHANGED <<head, tail, held, index, data, seen>>
    BY <1>4, VisitorGoes DEF VisitorRelease, StateStore, StoreRelease, Owners
  <2>2. At(index[v]) \in Slots /\ index[v] \in Base .. Base + Size - 1
    BY <2>1, InWindow, Tickets
  <2>3. \A k : ~Owned(k)' => ~Owned(k) \/ k = index[v]
    BY <2>1 DEF Owned
  <2>4. rel'[FreeCount] = rel[FreeCount]
    BY <2>1, <2>2, <1>b, AtomicsDiffer
  <2>5. \A k \in Low .. head - 1 : ~Owned(k)' => At(k) \in rel'[StateOf(At(k))]
    <3> SUFFICES ASSUME NEW k \in Low .. head - 1, ~Owned(k)'
                 PROVE  At(k) \in rel'[StateOf(At(k))]
      OBVIOUS
    <3>1. k \in Base .. Base + Size - 1
      BY InWindow
    <3>2. At(k) \in Slots
      BY <3>1, Tickets
    <3>3. CASE k = index[v]
      BY <2>1, <3>2, <3>3, <1>b, AtomicsDiffer DEF OrderInv
    <3>4. CASE k # index[v]
      <4>1. At(k) # At(index[v])
        BY <2>2, <3>1, <3>4, SlotsOfTickets
      <4>2. At(k) \in rel[StateOf(At(k))]
        BY <2>3, <3>4 DEF OrderInv
      <4> QED
        BY <2>1, <2>2, <3>2, <4>1, <4>2, <1>b, AtomicsDiffer
    <3> QED
      BY <3>3, <3>4
  <2> QED
    BY <2>1, <2>4, <2>5 DEF OrderInv, HandoversOrdered, MasterOrdered, FreeElementsReleased, At
<1>5. CASE MasterFetch
  <2>1. /\ Owners' = Owners /\ pc' = pc /\ Low = tail /\ Low' = tail + 1 /\ tail' = tail + 1
        /\ ExchangeReady /\ UNCHANGED <<head, index, data, rel>>
        /\ seen' = [seen EXCEPT ![Master] = @ \cup rel[StateOf(At(tail))]]
        /\ held' = Append(held, [slot |-> At(tail), used |-> FALSE])
        /\ \A k : Owned(k)' <=> Owned(k)
    BY <1>5, MasterGoes DEF MasterFetch, ExchangeReady, FindReady, Low, Acquire
  <2>2. tail \in Low .. head - 1 /\ ~Owned(tail)
    BY <2>1, OldestIsReady
  <2>3. At(tail) \in seen'[Master] /\ seen[Master] \subseteq seen'[Master]
    BY <2>1, <2>2, <1>b DEF OrderInv
  <2>4. \A v \in Visitors : seen'[v] = seen[v]
    BY <2>1, <1>b
  <2>5. /\ Len(held') = Len(held) + 1
        /\ \A i \in 1 .. Len(held) : held'[i] = held[i]
        /\ held'[Len(held) + 1].slot = At(tail)
    BY <2>1, HeldMore, AtType, <1>a
  <2>6. MasterOrdered'
    BY <2>3, <2>5, <1>a DEF OrderInv, HandoversOrdered, MasterOrdered
  <2>7. FreeElementsReleased'
    <3>1. tail' - Len(held') + Size - 1 = Base + Size - 1
      <4>1. tail' = tail + 1 /\ Len(held') = Len(held) + 1
        BY <2>1, <2>5
      <4> QED
        BY <4>1, <1>a
    <3> QED
      BY <2>1, <2>4, <3>1, <1>c DEF FreeElementsReleased, At
  <2>8. \A k \in Low' .. head' - 1 : k \in Low .. head - 1
    BY <2>1, <1>a
  <2> QED
    BY <2>1, <2>4, <2>6, <2>7, <2>8 DEF OrderInv, HandoversOrdered, At
<1>6. ASSUME NEW i \in 1 .. Len(held), MasterUse(i)
      PROVE  OrderInv'
  <2> DEFINE j == Base + i - 1
  <2>1. j \in Base .. Base + Size - 1 /\ j < Low /\ held[i].slot = At(j) /\ At(j) \in Slots
    BY InWindow
  <2>2. /\ Owners' = Owners /\ pc' = pc /\ Low' = Low
        /\ data' = [data EXCEPT ![At(j)] = Blank]
        /\ seen' = Touch(seen, Master, At(j)) /\ rel' = Forget(rel, At(j))
        /\ UNCHANGED <<head, tail, index>>
        /\ Len(held') = Len(held)
        /\ \A l \in 1 .. Len(held) : held'[l].slot = held[l].slot
        /\ \A k : Owned(k)' <=> Owned(k)
    BY <1>6, <2>1, MasterGoes, HeldUsed DEF MasterUse, Low
  <2> HIDE DEF j
  <2>3. /\ At(j) \in seen'[Master]
        /\ \A k \in Base .. Base + Size - 1 : k # j =>
             /\ At(k) # At(j)
             /\ \A u \in Threads : At(k) \in seen[u] => At(k) \in seen'[u]
             /\ \A a \in Atomics : At(k) \in rel[a] => At(k) \in rel'[a]
    BY <2>1, <2>2, <1>b, TouchFacts
  <2>4. \A v \in Visitors : pc[v] = "release" => At(index[v]) \in seen'[v]
    <3> SUFFICES ASSUME NEW v \in Visitors, pc[v] = "release"
                 PROVE  At(index[v]) \in seen'[v]
      OBVIOUS
    <3>1. v \in Owners
      BY DEF Owners
    <3>2. index[v] \in Base .. Base + Size - 1 /\ index[v] \in Low .. head - 1
      BY <3>1, InWindow DEF SlotInv
    <3>3. index[v] # j
      BY <2>1, <3>2, <1>a
    <3> QED
      BY <2>3, <3>2, <3>3, <1>b DEF OrderInv
  <2>5. \A k \in Low .. head - 1 : ~Owned(k) => At(k) \in rel'[StateOf(At(k))]
    <3> SUFFICES ASSUME NEW k \in Low .. head - 1, ~Owned(k)
                 PROVE  At(k) \in rel'[StateOf(At(k))]
      OBVIOUS
    <3>1. k # j /\ k \in Base .. Base + Size - 1
      BY <2>1, <1>a, InWindow
    <3>2. At(k) \in Slots
      BY <3>1, Tickets
    <3> QED
      BY <2>3, <3>1, <3>2, AtomicsDiffer DEF OrderInv
  <2>6. ASSUME NEW l \in 1 .. Len(held)
        PROVE  held[l].slot \in seen'[Master]
    <3> DEFINE k == Base + l - 1
    <3>1. k \in Base .. Base + Size - 1 /\ held[l].slot = At(k)
      BY InWindow
    <3>2. At(k) \in seen[Master]
      BY <3>1 DEF OrderInv, HandoversOrdered, MasterOrdered
    <3> HIDE DEF k
    <3> QED
      BY <2>3, <3>1, <3>2, <1>b
  <2>7. MasterOrdered'
    BY <2>2, <2>6 DEF MasterOrdered
  <2>8. ASSUME NEW u \in Visitors, NEW k \in head .. Base + Size - 1, data'[At(k)] = Blank
        PROVE  At(k) \in seen'[u] \cup rel'[FreeCount]
    <3>1. k \in Base .. Base + Size - 1 /\ k # j /\ At(k) \in Slots
      BY <2>1, <1>a, FreeWindow
    <3>2. data'[At(k)] = data[At(k)]
      BY <2>1, <2>2, <2>3, <3>1, <1>b
    <3> QED
      BY <2>3, <2>8, <3>1, <3>2, <1>b, <1>c, AtomicsDiffer
  <2>9. FreeElementsReleased'
    BY <2>2, <2>8 DEF FreeElementsReleased, At, Base
  <2> QED
    BY <2>2, <2>4, <2>5, <2>7, <2>9 DEF OrderInv, HandoversOrdered, At
<1>7. ASSUME NEW i \in 1 .. Len(held), MasterRelease(i)
      PROVE  OrderInv'
  <2>1. /\ i = 1 /\ Owners' = Owners /\ pc' = pc /\ Low' = Low
        /\ rel' = [rel EXCEPT ![FreeCount] = @ \cup seen[Master]]
        /\ UNCHANGED <<head, tail, index, data, seen>>
        /\ Len(held') = Len(held) - 1
        /\ \A l \in 1 .. Len(held) - 1 : held'[l] = held[l + 1]
        /\ \A k : Owned(k)' <=> Owned(k)
    BY <1>7, MasterGoes, HeldLess DEF MasterRelease, CountAdd, RmwRelease, InOrder, Low
  <2>2. /\ rel'[FreeCount] = rel[FreeCount] \cup seen[Master]
        /\ \A s \in Slots : rel'[StateOf(s)] = rel[StateOf(s)]
    BY <2>1, <1>b, AtomicsDiffer
  <2>3. At(Base + Size) = At(Base) /\ At(Base) \in seen[Master]
    <3>1. Base + i - 1 = Base
      BY <2>1, <1>a
    <3>2. held[i].slot = At(Base)
      BY <3>1, InWindow
    <3> QED
      BY <3>2, SlotsOfTickets DEF OrderInv, HandoversOrdered, MasterOrdered
  <2>4. \A k \in Low .. head - 1 : ~Owned(k) => At(k) \in rel'[StateOf(At(k))]
    <3> SUFFICES ASSUME NEW k \in Low .. head - 1, ~Owned(k)
                 PROVE  At(k) \in rel'[StateOf(At(k))]
      OBVIOUS
    <3>1. k \in Nat
      BY <1>a
    <3>2. At(k) \in Slots
      BY <3>1, Tickets
    <3> QED
      BY <2>2, <3>2 DEF OrderInv
  <2>5. MasterOrdered'
    <3>1. \A l \in 1 .. Len(held) - 1 : l + 1 \in 1 .. Len(held)
      BY <1>a
    <3> QED
      BY <2>1, <3>1 DEF OrderInv, HandoversOrdered, MasterOrdered
  <2>6. ASSUME NEW u \in Visitors, NEW k \in head .. Base + Size, data[At(k)] = Blank
        PROVE  At(k) \in seen[u] \cup rel'[FreeCount]
    <3>1. CASE k \in head .. Base + Size - 1
      BY <2>2, <2>6, <3>1, <1>c
    <3>2. CASE k = Base + Size
      BY <2>2, <2>3, <3>2
    <3> QED
      BY <3>1, <3>2, <1>a
  <2>7. FreeElementsReleased'
    <3>1. tail' - Len(held') + Size - 1 = Base + Size
      <4>1. tail' = tail /\ Len(held') = Len(held) - 1
        BY <2>1
      <4> QED
        BY <4>1, <1>a
    <3> QED
      BY <2>1, <2>6, <3>1 DEF FreeElementsReleased, At
  <2> QED
    BY <2>1, <2>4, <2>5, <2>7 DEF OrderInv, HandoversOrdered, At
<1>8. CASE SkipTake
  <2>1. /\ \A v \in Visitors : pc'[v] = pc[v]
        /\ Low = tail /\ Low' = tail + 1
        /\ UNCHANGED <<head, tail, held, index, data, seen, rel>>
        /\ \A k : Owned(k)' <=> Owned(k)
    BY <1>8, MasterGoes
    DEF MasterSkip, SkipTake, ExchangeReady, FindReady, Low, Goto, TypeInv, TypeOK, Threads
  <2>2. \A k \in Low' .. head' - 1 : k \in Low .. head - 1
    BY <2>1, <1>a
  <2> QED
    BY <2>1, <2>2 DEF OrderInv, HandoversOrdered, MasterOrdered, FreeElementsReleased, At
<1>9. CASE SkipCount
  <2>1. /\ \A v \in Visitors : pc'[v] = pc[v]
        /\ pc[Master] = "count" /\ Low' = Low /\ tail' = tail + 1 /\ held = << >>
        /\ UNCHANGED <<head, held, index, data, seen, rel>>
        /\ \A k : Owned(k)' <=> Owned(k)
    BY <1>9, MasterGoes
    DEF MasterSkip, SkipCount, Low, Goto, TypeInv, TypeOK, Threads, HeldInv
  <2>2. Base = tail /\ data[At(tail)] # Blank /\ At(tail + Size) = At(tail)
    <3>1. Base = tail
      BY <2>1, <1>a
    <3> QED
      BY <2>1, <3>1, SlotsOfTickets DEF FifoInv
  <2>3. ASSUME NEW u \in Visitors, NEW k \in head .. tail + Size, data[At(k)] = Blank
        PROVE  At(k) \in seen[u] \cup rel[FreeCount]
    <3>1. CASE k \in head .. Base + Size - 1
      BY <2>3, <3>1, <1>c
    <3>2. CASE k = tail + Size
      BY <2>2, <2>3, <3>2
    <3> QED
      BY <2>2, <3>1, <3>2, <1>a
  <2>4. FreeElementsReleased'
    <3>1. tail' - Len(held') + Size - 1 = tail + Size
      <4>1. tail' = tail + 1 /\ Len(held') = 0
        BY <2>1
      <4> QED
        BY <4>1, <1>a
    <3> QED
      BY <2>1, <2>3, <3>1 DEF FreeElementsReleased, At
  <2> QED
    BY <2>1, <2>4 DEF OrderInv, HandoversOrdered, MasterOrdered, At
<1>10. CASE SkipEnd
  <2>1. /\ \A v \in Visitors : pc'[v] = pc[v]
        /\ Low' = Low
        /\ UNCHANGED <<head, tail, held, index, data, seen, rel>>
        /\ \A k : Owned(k)' <=> Owned(k)
    BY <1>10, MasterGoes DEF MasterSkip, SkipEnd, Low, Goto, TypeInv, TypeOK, Threads
  <2> QED
    BY <2>1, OrderSame
<1>11. CASE UNCHANGED vars
  <2>1. Low' = Low /\ \A k : Owned(k)' <=> Owned(k)
    BY <1>11 DEF vars, Owned, Owners, Low
  <2> QED
    BY <1>11, <2>1, OrderSame DEF vars
<1> QED
  BY <1>1, <1>2, <1>3, <1>4, <1>5, <1>6, <1>7, <1>8, <1>9, <1>10, <1>11
  DEF Next, Attempt, Finish, MasterReturn, MasterSkip, Terminating

-----------------------------------------------------------------------------
(* Safety *)

LEMMA Inductive ==
  ASSUME WrapSafe, InOrder
  PROVE  /\ Init => IInv
         /\ IInv /\ [Next]_vars => IInv'
<1>1. Init => IInv
  BY InitType, InitTokens, InitHeld, InitSlot, InitFifo, InitOrder DEF IInv
<1>2. ASSUME IInv, [Next]_vars
      PROVE  IInv'
  BY <1>2, NextType, NextTokens, NextHeld, NextSlot, NextFifo, NextOrder DEF IInv
<1> QED
  BY <1>1, <1>2

(* free_count_, the tickets and what the master holds account for every     *)
(* element of the ring, whatever the number of visitors that fail a fetch   *)
(* at the same time, and in whatever order the master releases.             *)
THEOREM TokensAreConserved == Spec => []TokensConserved
<1>1. Init => TypeInv /\ TokensConserved
  BY InitType, InitTokens
<1>2. TypeInv /\ TokensConserved /\ [Next]_vars => (TypeInv /\ TokensConserved)'
  BY NextType, NextTokens
<1> QED
  BY <1>1, <1>2, PTL DEF Spec

LEMMA Exclusive ==
  ASSUME WrapSafe, IInv
  PROVE  ElementExclusive
<1> USE DEF IInv
<1>a. \A j, k \in Base .. Base + Size - 1 : j # k => At(j) # At(k)
  BY SlotsOfTickets
<1>1. ASSUME NEW u \in Owners, NEW v \in Owners, u # v
      PROVE  At(index[u]) # At(index[v])
  <2>1. /\ index[u] \in Base .. Base + Size - 1 /\ index[v] \in Base .. Base + Size - 1
        /\ index[u] # index[v]
    BY <1>1, InWindow DEF SlotInv
  <2> QED
    BY <1>a, <2>1
<1>2. ASSUME NEW v \in Owners, NEW i \in 1 .. Len(held)
      PROVE  At(index[v]) # held[i].slot
  <2> DEFINE k == Base + i - 1
  <2>1. k \in Base .. Base + Size - 1 /\ k < Low /\ held[i].slot = At(k)
    BY InWindow
  <2>2. index[v] \in Base .. Base + Size - 1 /\ index[v] \in Low .. head - 1
    BY InWindow DEF SlotInv
  <2> HIDE DEF k
  <2>3. index[v] # k
    BY <2>1, <2>2, Tickets
  <2> QED
    BY <1>a, <2>1, <2>2, <2>3
<1>3. ASSUME NEW i \in 1 .. Len(held), NEW j \in 1 .. Len(held), i # j
      PROVE  held[i].slot # held[j].slot
  <2> DEFINE k == Base + i - 1
             l == Base + j - 1
  <2>1. /\ k \in Base .. Base + Size - 1 /\ held[i].slot = At(k)
        /\ l \in Base .. Base + Size - 1 /\ held[j].slot = At(l)
    BY InWindow
  <2>2. k # l
    <3>1. Base \in Nat
      BY Tickets
    <3> QED
      BY <1>3, <3>1
  <2> HIDE DEF k, l
  <2> QED
    BY <1>a, <2>1, <2>2
<1> QED
  BY <1>1, <1>2, <1>3 DEF ElementExclusive

(* When the counters wrap at a multiple of the size, and the master         *)
(* releases in the order in which it fetched, every element is in one       *)
(* place: in the ring, with one visitor, or with the master.                *)
THEOREM ElementsAreAccounted == WrapSafe /\ InOrder => (Spec => []ElementsAccounted)
<1> SUFFICES ASSUME WrapSafe, InOrder
             PROVE  Spec => []ElementsAccounted
  OBVIOUS
<1>1. IInv => ElementsAccounted
  BY Exclusive DEF IInv, ElementsAccounted
<1> QED
  BY <1>1, Inductive, PTL DEF Spec

(* ... and the memory orders of the states and of free_count_ order the     *)
(* plain accesses to an element on every way it is handed over, except that *)
(* of the elements that are skipped.                                        *)
THEOREM HandoversAreOrdered == WrapSafe /\ InOrder => (Spec => []HandoversOrdered)
<1> SUFFICES ASSUME WrapSafe, InOrder
             PROVE  Spec => []HandoversOrdered
  OBVIOUS
<1>1. IInv => HandoversOrdered
  BY DEF IInv, OrderInv
<1> QED
  BY <1>1, Inductive, PTL DEF Spec

-----------------------------------------------------------------------------
(* Refinement of TicketQueue *)

(* No visit has two tickets: those of a visitor have increasing numbers.    *)
UniqueInv ==
  /\ \A i \in 1 .. Len(claims) :
       /\ claims[i][2] <= visits[claims[i][1]] + 1
       /\ claims[i][1] \notin Owners => claims[i][2] <= visits[claims[i][1]]
  /\ \A i, j \in 1 .. Len(claims) : claims[i] = claims[j] => i = j

LEMMA InitUnique == Init => UniqueInv
BY DEF Init, UniqueInv

(* The steps that draw, publish and take nothing.                           *)
LEMMA Elsewhere ==
  ASSUME TypeInv, [Next]_vars
  PROVE  \/ \E v \in Visitors : FetchClaim(v) \/ VisitorRelease(v)
         \/ MasterFetch \/ SkipTake
         \/ Owners' = Owners /\ UNCHANGED <<claims, served, visits>>
<1>1. ASSUME NEW v \in Visitors, FetchReserve(v) \/ FetchReject(v) \/ FetchUndo(v)
      PROVE  Owners' = Owners /\ UNCHANGED <<claims, served, visits>>
  BY <1>1, VisitorWaits
<1>2. ASSUME NEW v \in Visitors, VisitorUse(v)
      PROVE  Owners' = Owners /\ UNCHANGED <<claims, served, visits>>
  BY <1>2, VisitorGoes DEF VisitorUse, Owners
<1>3. ASSUME \/ \E i \in 1 .. Len(held) : MasterUse(i) \/ MasterRelease(i)
             \/ SkipCount \/ SkipEnd
      PROVE  Owners' = Owners /\ UNCHANGED <<claims, served, visits>>
  <2>1. UNCHANGED served
    BY <1>3 DEF MasterUse, MasterRelease, SkipCount, SkipEnd
  <2> QED
    BY <1>3, <2>1, MasterGoes DEF MasterSkip
<1>4. CASE UNCHANGED vars
  BY <1>4 DEF vars, Owners
<1> QED
  BY <1>1, <1>2, <1>3, <1>4 DEF Next, Attempt, Finish, MasterReturn, MasterSkip, Terminating

LEMMA NextUnique ==
  ASSUME TypeInv, UniqueInv, [Next]_vars
  PROVE  UniqueInv'
<1>0. \A i \in 1 .. Len(claims) :
        /\ claims[i] \in Elements
        /\ claims[i][1] \in Visitors /\ claims[i][2] \in Nat
        /\ visits[claims[i][1]] \in Nat
  BY ConstantsAssumption DEF TypeInv, TypeOK, Elements
<1>1. ASSUME NEW v \in Visitors, FetchClaim(v)
      PROVE  UniqueInv'
  <2>1. /\ Owners' = Owners \cup {v} /\ v \notin Owners
        /\ claims' = Append(claims, Visit(v)) /\ visits' = visits
    BY <1>1, VisitorGoes DEF FetchClaim, TakeTicket, Owners
  <2>2. Visit(v) \in Elements /\ claims \in Seq(Elements)
    BY <1>1, VisitType DEF FetchClaim, TakeTicket, TypeInv, TypeOK
  <2>3. /\ Len(claims') = Len(claims) + 1 /\ Len(claims) \in Nat
        /\ claims'[Len(claims) + 1] = Visit(v)
        /\ \A i \in 1 .. Len(claims) : claims'[i] = claims[i]
    BY <2>1, <2>2, AppendProperties
  <2>4. Visit(v)[1] = v /\ Visit(v)[2] = visits[v] + 1 /\ visits[v] \in Nat
    BY ConstantsAssumption DEF Visit, TypeInv, TypeOK
  <2>5. \A i \in 1 .. Len(claims) : claims[i] # Visit(v)
    BY <1>0, <2>1, <2>4 DEF UniqueInv
  <2>6. ASSUME NEW i \in 1 .. Len(claims')
        PROVE  /\ claims'[i][2] <= visits'[claims'[i][1]] + 1
               /\ claims'[i][1] \notin Owners' => claims'[i][2] <= visits'[claims'[i][1]]
    <3>1. CASE i \in 1 .. Len(claims)
      BY <2>1, <2>3, <3>1 DEF UniqueInv
    <3>2. CASE i = Len(claims) + 1
      BY <2>1, <2>3, <2>4, <3>2
    <3> QED
      BY <2>3, <3>1, <3>2
  <2>7. ASSUME NEW i \in 1 .. Len(claims'), NEW j \in 1 .. Len(claims'),
               claims'[i] = claims'[j]
        PROVE  i = j
    BY <2>3, <2>5, <2>7 DEF UniqueInv
  <2> QED
    BY <2>6, <2>7 DEF UniqueInv
<1>2. ASSUME NEW v \in Visitors, VisitorRelease(v)
      PROVE  UniqueInv'
  <2>1. /\ Owners' = Owners \ {v} /\ claims' = claims
        /\ visits' = [visits EXCEPT ![v] = @ + 1]
    BY <1>2, VisitorGoes DEF VisitorRelease, StateStore
  <2>2. \A u \in Visitors : visits'[u] = IF u = v THEN visits[u] + 1 ELSE visits[u]
    BY <2>1 DEF TypeInv, TypeOK
  <2> QED
    BY <1>0, <2>1, <2>2 DEF UniqueInv
<1>3. ASSUME Owners' = Owners, UNCHANGED <<claims, visits>>
      PROVE  UniqueInv'
  BY <1>3 DEF UniqueInv
<1>4. CASE MasterFetch \/ SkipTake
  BY <1>3, <1>4, MasterGoes DEF MasterSkip
<1> QED
  BY <1>1, <1>2, <1>3, <1>4, Elsewhere

(* The line is the part of claims that was not served.                      *)
LEMMA LineIsRest ==
  ASSUME TypeInv, HeldInv, SlotInv, FifoInv
  PROVE  /\ Line = Rest(claims, Len(served)) /\ TQ!InLine = In(Line)
         /\ claims \in Seq(Elements) /\ Len(claims) = head /\ Len(served) = Low
         /\ Low \in 0 .. Len(claims)
         /\ Line \in Seq(Elements) /\ Len(Line) = head - Low
         /\ \A i \in 1 .. Len(Line) : Line[i] = claims[Low + i]
<1>1. /\ claims \in Seq(Elements) /\ Len(claims) = head /\ Len(served) = Low
      /\ Low \in 0 .. Len(claims)
  BY Tickets DEF TypeInv, TypeOK, FifoInv, SlotInv
<1>2. Line = Rest(claims, Low) /\ TQ!InLine = In(Line)
  BY <1>1 DEF Line, Rest, TQ!InLine, In
<1>3. /\ Rest(claims, Low) \in Seq(Elements)
      /\ Len(Rest(claims, Low)) = Len(claims) - Low
      /\ \A i \in 1 .. Len(claims) - Low : Rest(claims, Low)[i] = claims[Low + i]
  BY <1>1, RestFacts
<1> QED
  BY <1>1, <1>2, <1>3

Ready == TQ!InLine \ Unreleased

LEMMA InitRefines == Init => TQ!Init
<1> SUFFICES ASSUME Init
             PROVE  TQ!Init
  OBVIOUS
<1>1. Line = << >>
  BY SubSeqEmpty DEF Init, Line
<1> QED
  BY <1>1 DEF Init, TQ!Init

(* The visit of an element that is used or released has its place.          *)
LEMMA UnreleasedInLine ==
  ASSUME TypeInv, HeldInv, SlotInv, FifoInv, UniqueInv, NEW v \in Owners
  PROVE  /\ Visit(v) \in TQ!InLine
         /\ \A k \in 1 .. head : claims[k] = Visit(v) => k = index[v] + 1
         /\ \A u \in Owners : Visit(u) = Visit(v) => u = v
<1> DEFINE i == index[v] - Low + 1
<1>1. /\ index[v] + 1 \in 1 .. head /\ i \in 1 .. Len(Line) /\ Low + i = index[v] + 1
      /\ Len(claims) = head
  <2>1. index[v] \in Low .. head - 1
    BY DEF SlotInv
  <2>2. Len(Line) = head - Low /\ Len(claims) = head
    BY LineIsRest
  <2>3. Low \in Nat /\ head \in Nat /\ index[v] \in Int
    BY <2>1, Tickets
  <2> QED
    BY <2>1, <2>2, <2>3
<1>2. claims[index[v] + 1] = Visit(v)
  BY DEF FifoInv
<1> HIDE DEF i
<1>3. Visit(v) \in TQ!InLine
  <2>1. Line[i] = Visit(v)
    BY <1>1, <1>2, LineIsRest
  <2> QED
    BY <1>1, <2>1 DEF TQ!InLine
<1>4. ASSUME NEW k \in 1 .. head, claims[k] = Visit(v)
      PROVE  k = index[v] + 1
  BY <1>1, <1>2, <1>4 DEF UniqueInv
<1>5. ASSUME NEW u \in Owners, Visit(u) = Visit(v)
      PROVE  u = v
  BY <1>5 DEF Visit
<1> QED
  BY <1>3, <1>4, <1>5

LEMMA ClaimRefines ==
  ASSUME IInv, UniqueInv, NEW v \in Visitors, FetchClaim(v)
  PROVE  \E e \in Elements : TQ!Claim(e)
<1> USE DEF IInv
<1> DEFINE e == Visit(v)
<1>1. /\ e \in Elements /\ pc[v] = "claim" /\ v \notin Owners
      /\ claims' = Append(claims, e) /\ served' = served
      /\ visits' = visits /\ Owners' = Owners \cup {v}
  BY VisitType, VisitorGoes DEF FetchClaim, TakeTicket, Owners
<1>2. e \notin TQ!InLine
  <2>1. e[1] = v /\ e[2] = visits[v] + 1 /\ visits[v] \in Nat
    BY ConstantsAssumption DEF Visit, TypeInv, TypeOK
  <2>2. \A k \in 1 .. Len(claims) : claims[k] # e
    BY <1>1, <2>1 DEF UniqueInv
  <2>3. \A i \in 1 .. Len(Line) : Low + i \in 1 .. Len(claims) /\ Line[i] = claims[Low + i]
    BY LineIsRest, Tickets
  <2> QED
    BY <2>2, <2>3 DEF TQ!InLine
<1>3. Len(Line) < Size
  <2>1. head < Base + Size /\ Base <= Low
    BY <1>1, TicketsFit, Tickets
  <2> QED
    BY <2>1, LineIsRest, Tickets
<1>4. Line' = Append(Line, e)
  <2>1. Len(served) \in 0 .. Len(claims)
    BY LineIsRest
  <2>2. Line' = Rest(Append(claims, e), Len(served)) /\ Line = Rest(claims, Len(served))
    BY <1>1 DEF Line, Rest
  <2> QED
    BY <1>1, <2>1, <2>2, RestAppend, LineIsRest
<1>5. Ready' = Ready
  <2>1. TQ!InLine' = TQ!InLine \cup {e}
    <3>1. TQ!InLine = In(Line) /\ TQ!InLine' = In(Line')
      BY DEF TQ!InLine, In
    <3> QED
      BY <1>1, <1>4, <3>1, InAppend, LineIsRest
  <2>2. Unreleased' = Unreleased \cup {e}
    BY <1>1 DEF Unreleased, Visit
  <2> QED
    BY <1>2, <2>1, <2>2 DEF Ready
<1>6. TQ!Claim(e)
  BY <1>1, <1>2, <1>3, <1>4, <1>5 DEF TQ!Claim, Ready, TQ!InLine
<1> HIDE DEF e
<1> QED
  BY <1>1, <1>6

LEMMA PublishRefines ==
  ASSUME IInv, UniqueInv, NEW v \in Visitors, VisitorRelease(v)
  PROVE  \E e \in Elements : TQ!Publish(e)
<1> USE DEF IInv
<1> DEFINE e == Visit(v)
<1>1. /\ e \in Elements /\ v \in Owners
      /\ claims' = claims /\ served' = served
      /\ visits' = [visits EXCEPT ![v] = @ + 1] /\ Owners' = Owners \ {v}
  BY VisitType, VisitorGoes DEF VisitorRelease, StateStore, Owners
<1>2. Line' = Line /\ TQ!InLine' = TQ!InLine
  BY <1>1 DEF Line, TQ!InLine
<1>3. \A u \in Visitors : u # v => Visit(u)' = Visit(u)
  BY <1>1 DEF Visit, TypeInv, TypeOK
<1>4. Unreleased' = Unreleased \ {e}
  BY <1>1, <1>3, UnreleasedInLine DEF Unreleased, Owners
<1>5. e \in TQ!InLine /\ e \in Unreleased
  BY <1>1, UnreleasedInLine DEF Unreleased
<1>6. Ready' = Ready \cup {e}
  BY <1>2, <1>4, <1>5 DEF Ready
<1>7. TQ!Publish(e)
  BY <1>1, <1>2, <1>5, <1>6 DEF TQ!Publish, Ready, TQ!InLine
<1>8. PICK f \in Elements : f = e
  BY <1>1
<1>9. TQ!Publish(f)
  BY <1>7, <1>8 DEF TQ!Publish
<1> QED
  BY <1>9

LEMMA TakeRefines ==
  ASSUME IInv, UniqueInv, MasterFetch \/ SkipTake
  PROVE  TQ!Take
<1> USE DEF IInv
<1> DEFINE e == claims[tail + 1]
<1>1. /\ Owners' = Owners /\ Low = tail /\ ExchangeReady
      /\ served' = Append(served, data[At(tail)])
      /\ claims' = claims /\ visits' = visits
  BY MasterGoes DEF MasterFetch, MasterSkip, SkipTake, ExchangeReady, FindReady, Low
<1>2. tail \in Low .. head - 1 /\ ~Owned(tail)
  BY <1>1, OldestIsReady
<1>3. /\ data[At(tail)] = e /\ Len(served) = tail /\ tail \in 0 .. Len(claims) - 1
      /\ e \in Elements
  BY <1>1, <1>2, LineIsRest, Tickets DEF FifoInv
<1>4. Line # << >> /\ Head(Line) = e /\ Tail(Line) = Rest(claims, tail + 1)
  BY <1>1, <1>3, RestTail, LineIsRest
<1>5. Len(served') = tail + 1
  BY <1>1, <1>3, AppendProperties DEF TypeInv, TypeOK
<1>6. Line' = Tail(Line)
  BY <1>1, <1>4, <1>5 DEF Line, Rest
<1>7. e \in TQ!InLine /\ TQ!InLine' = TQ!InLine \ {e}
  <2>1. \A i, j \in 1 .. Len(Line) : Line[i] = Line[j] => i = j
    BY LineIsRest, RestInjective DEF UniqueInv
  <2>2. Head(Line) \in In(Line) /\ In(Tail(Line)) = In(Line) \ {Head(Line)}
    BY <1>4, <2>1, InTail, LineIsRest
  <2>3. TQ!InLine = In(Line) /\ TQ!InLine' = In(Line')
    BY DEF TQ!InLine, In
  <2> QED
    BY <1>4, <1>6, <2>2, <2>3
<1>8. e \notin Unreleased
  <2> SUFFICES ASSUME NEW u \in Owners, e = Visit(u)
               PROVE  FALSE
    BY DEF Unreleased
  <2>1. tail + 1 = index[u] + 1
    BY <1>3, UnreleasedInLine, LineIsRest, Tickets
  <2>2. index[u] = tail
    BY <2>1, Tickets DEF SlotInv
  <2> QED
    BY <1>2, <2>2 DEF Owned
<1>9. Unreleased' = Unreleased
  BY <1>1 DEF Unreleased, Visit
<1>10. Ready' = Ready \ {e}
  BY <1>7, <1>9 DEF Ready
<1> QED
  BY <1>1, <1>3, <1>4, <1>6, <1>7, <1>8, <1>10 DEF TQ!Take, Ready, TQ!InLine

LEMMA NextRefines ==
  ASSUME IInv, UniqueInv, [Next]_vars
  PROVE  [TQ!Next]_(TQ!vars)
<1>1. ASSUME NEW v \in Visitors, FetchClaim(v) \/ VisitorRelease(v)
      PROVE  TQ!Next
  BY <1>1, ClaimRefines, PublishRefines DEF TQ!Next
<1>2. CASE MasterFetch \/ SkipTake
  BY <1>2, TakeRefines DEF TQ!Next
<1>3. ASSUME Owners' = Owners, UNCHANGED <<claims, served, visits>>
      PROVE  UNCHANGED TQ!vars
  <2>1. Line' = Line /\ Unreleased' = Unreleased
    BY <1>3 DEF Line, Unreleased, Visit
  <2> QED
    BY <1>3, <2>1 DEF TQ!vars
<1> QED
  BY <1>1, <1>2, <1>3, Elsewhere DEF IInv

(* The ring implements the abstract line of tickets: the master obtains the *)
(* elements, skipped ones included, in the order in which visitors fetched  *)
(* them, each once and with what its visitor left in it.                    *)
THEOREM RingImplementsTicketQueue == WrapSafe /\ InOrder => (Spec => ImplementsTicketQueue)
<1> SUFFICES ASSUME WrapSafe, InOrder
             PROVE  Spec => TQ!Spec
  BY DEF ImplementsTicketQueue
<1>1. IInv /\ UniqueInv /\ [Next]_vars => (IInv /\ UniqueInv)'
  BY Inductive, NextUnique DEF IInv
<1>2. Init => IInv /\ UniqueInv /\ TQ!Init
  BY Inductive, InitUnique, InitRefines
<1>3. IInv /\ UniqueInv /\ [Next]_vars => [TQ!Next]_(TQ!vars)
  BY NextRefines
<1> QED
  BY <1>1, <1>2, <1>3, PTL DEF Spec, TQ!Spec
=============================================================================
