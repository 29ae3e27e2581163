----------------------- MODULE LockedContainersProofs -----------------------
(***************************************************************************)
(* Theorems about LockedContainers, for any finite set of threads, any     *)
(* elements, and any capacity that divides the range of std::size_t:       *)
(*                                                                         *)
(*   TypeCorrect              the containers keep their bounds             *)
(*   GrabsAreUndisturbed      a grabbed container is its thread's alone    *)
(*   WakeupsAreCovered        CondvarQueue loses no wakeup but by a        *)
(*                            timeout                                      *)
(*   ContainersImplementBoundedQueue  first-in first-out queues of         *)
(*                            Capacity elements                            *)
(***************************************************************************)
EXTENDS LockedContainers, FiniteSetTheorems, SequenceTheorems, TLAPS

-----------------------------------------------------------------------------
(* Slots of counters that wrap at a multiple of the number of slots.        *)

(* The quotient and the remainder that % and \div stand for. *)
LEMMA DivMod ==
  ASSUME NEW a \in Nat, NEW n \in Nat \ {0}
  PROVE  /\ a \div n \in Nat
         /\ a % n \in 0 .. n - 1
         /\ a = n * (a \div n) + (a % n)
  BY Z3

(* Two multiples of n that are less than n apart are the same one. *)
LEMMA QuotientUnique ==
  ASSUME NEW n \in Nat \ {0}, NEW q \in Int, NEW r \in Int,
         n * q - n * r < n, n * r - n * q < n
  PROVE  q = r
<1>1. n * q - n * r = n * (q - r) /\ n * r - n * q = n * (r - q)
  OBVIOUS
<1>2. CASE q > r
  <2>1. n * (q - r) >= n
    BY <1>2
  <2> QED
    BY <1>1, <2>1
<1>3. CASE r > q
  <2>1. n * (r - q) >= n
    BY <1>3
  <2> QED
    BY <1>1, <2>1
<1> QED
  BY <1>2, <1>3

(* The slot of a ticket, and the lap it is in, when the counter wraps at a  *)
(* multiple m of the number n of slots.                                     *)
LEMMA SlotEquation ==
  ASSUME NEW i \in Nat, NEW n \in Nat \ {0}, NEW m \in Nat \ {0}, m % n = 0
  PROVE  \E k \in Int : i = n * k + ((i % m) % n)
<1> DEFINE t == m \div n
           q == i \div m
           r == i % m
           u == r \div n
           v == r % n
<1>1. t \in Nat /\ m = n * t
  BY DivMod
<1>2. q \in Nat /\ r \in Nat /\ i = m * q + r
  BY DivMod
<1>3. u \in Nat /\ v \in Nat /\ r = n * u + v
  BY <1>2, DivMod
<1> HIDE DEF t, q, r, u, v
<1>4. t * q \in Nat /\ (n * t) * q = n * (t * q)
  BY <1>1, <1>2
<1>5. n * (t * q) + n * u = n * (t * q + u)
  BY <1>3, <1>4
<1>6. i = n * (t * q + u) + v
  BY <1>1, <1>2, <1>3, <1>4, <1>5
<1>7. t * q + u \in Int
  BY <1>3, <1>4
<1> QED
  BY <1>6, <1>7 DEF v, r

LEMMA WrappedSlot ==
  ASSUME NEW i \in Nat, NEW n \in Nat \ {0}, NEW m \in Nat \ {0}
  PROVE  (i % m) % n \in 0 .. n - 1
  BY DivMod

(* Slots of tickets less than n apart differ. *)
LEMMA WrappedSlotsDiffer ==
  ASSUME NEW i \in Nat, NEW j \in Nat, NEW n \in Nat \ {0}, NEW m \in Nat \ {0},
         m % n = 0, i # j, i < j + n, j < i + n
  PROVE  (i % m) % n # (j % m) % n
<1> DEFINE v == (i % m) % n
           w == (j % m) % n
<1>1. v \in 0 .. n - 1 /\ w \in 0 .. n - 1
  BY WrappedSlot
<1>2. PICK k \in Int : i = n * k + v
  BY SlotEquation
<1>3. PICK l \in Int : j = n * l + w
  BY SlotEquation
<1> HIDE DEF v, w
<1>4. ASSUME v = w
      PROVE  FALSE
  <2>1. n * k - n * l = i - j /\ n * l - n * k = j - i
    BY <1>1, <1>2, <1>3, <1>4
  <2>2. k = l
    BY <2>1, QuotientUnique
  <2> QED
    BY <1>2, <1>3, <1>4, <2>2
<1> QED
  BY <1>4 DEF v, w

(* A sum may be reduced before the last term is added. *)
LEMMA ModAdd ==
  ASSUME NEW a \in Nat, NEW b \in Nat, NEW n \in Nat \ {0}
  PROVE  ((a % n) + b) % n = (a + b) % n
<1> DEFINE r == a % n
           v == (r + b) % n
           w == (a + b) % n
           q == a \div n
           u == (r + b) \div n
           l == (a + b) \div n
<1>1. q \in Nat /\ r \in Nat /\ a = n * q + r
  BY DivMod
<1>2. u \in Nat /\ v \in 0 .. n - 1 /\ r + b = n * u + v
  <2>1. r + b \in Nat
    BY <1>1
  <2> QED
    BY <2>1, DivMod
<1>3. l \in Nat /\ w \in 0 .. n - 1 /\ a + b = n * l + w
  <2>1. a + b \in Nat
    OBVIOUS
  <2> QED
    BY <2>1, DivMod
<1> HIDE DEF q, r, u, v, l, w
<1>4. n * (q + u) = n * q + n * u
  BY <1>1, <1>2
<1>5. n * (q + u) - n * l = w - v /\ n * l - n * (q + u) = v - w
  BY <1>1, <1>2, <1>3, <1>4
<1>6. q + u = l
  BY <1>1, <1>2, <1>3, <1>5, QuotientUnique
<1>7. v = w
  BY <1>2, <1>3, <1>5, <1>6
<1> QED
  BY <1>7 DEF v, w, r

(* Reducing twice is reducing once. *)
LEMMA ModSmall ==
  ASSUME NEW n \in Nat \ {0}, NEW a \in 0 .. n - 1
  PROVE  a % n = a
  BY Z3

-----------------------------------------------------------------------------
(* Windows: the c elements of an array of n slots that start at the index   *)
(* t, where indexes wrap at m, a multiple of n.                             *)

ArraysOf(n, S)           == [0 .. n - 1 -> S]
WindowSlot(t, i, n, m)   == ((t + i - 1) % m) % n
Window(ring, t, c, n, m) == [i \in 1 .. c |-> ring[WindowSlot(t, i, n, m)]]
Held(ring, s)            == ring[s]
Stored(ring, s, e)       == [ring EXCEPT ![s] = e]

LEMMA WindowSlotType ==
  ASSUME NEW n \in Nat \ {0}, NEW m \in Nat \ {0}, NEW t \in Nat, NEW i \in Nat \ {0}
  PROVE  WindowSlot(t, i, n, m) \in 0 .. n - 1
<1>1. t + i - 1 \in Nat
  OBVIOUS
<1> QED
  BY <1>1, WrappedSlot DEF WindowSlot

LEMMA WindowType ==
  ASSUME NEW S, NEW n \in Nat \ {0}, NEW m \in Nat \ {0},
         NEW ring \in ArraysOf(n, S), NEW t \in Nat, NEW c \in Nat
  PROVE  /\ Window(ring, t, c, n, m) \in Seq(S)
         /\ Len(Window(ring, t, c, n, m)) = c
<1>1. \A i \in 1 .. c : WindowSlot(t, i, n, m) \in 0 .. n - 1
  BY WindowSlotType
<1>2. \A i \in 1 .. c : ring[WindowSlot(t, i, n, m)] \in S
  BY <1>1 DEF ArraysOf
<1>3. Window(ring, t, c, n, m) \in [1 .. c -> S]
  BY <1>2 DEF Window
<1> QED
  BY <1>3

(* An element is put behind the others, which stay where they are.          *)
LEMMA WindowPut ==
  ASSUME NEW S, NEW n \in Nat \ {0}, NEW m \in Nat \ {0}, m % n = 0,
         NEW ring \in ArraysOf(n, S), NEW t \in Nat, NEW c \in 0 .. n - 1, NEW e \in S
  PROVE  Window(Stored(ring, ((t + c) % m) % n, e), t, c + 1, n, m)
           = Append(Window(ring, t, c, n, m), e)
<1> DEFINE s == ((t + c) % m) % n
           a == Stored(ring, s, e)
           v == Window(ring, t, c, n, m)
           w == Window(a, t, c + 1, n, m)
<1>0. c \in Nat /\ c + 1 \in Nat /\ t + c \in Nat
  OBVIOUS
<1>1. s \in 0 .. n - 1 /\ a = [ring EXCEPT ![s] = e]
  BY <1>0, WrappedSlot DEF Stored
<1>2. WindowSlot(t, c + 1, n, m) = s
  <2>1. t + (c + 1) - 1 = t + c
    OBVIOUS
  <2> QED
    BY <2>1 DEF WindowSlot
<1>3. ASSUME NEW i \in 1 .. c
      PROVE  WindowSlot(t, i, n, m) # s
  <2> DEFINE j == t + i - 1
             k == t + c
  <2>1. j \in Nat /\ k \in Nat /\ j # k /\ j < k + n /\ k < j + n
    OBVIOUS
  <2>2. WindowSlot(t, i, n, m) = (j % m) % n /\ s = (k % m) % n
    BY DEF WindowSlot
  <2> HIDE DEF j, k, s
  <2> QED
    BY <2>1, <2>2, WrappedSlotsDiffer
<1> HIDE DEF s, a
<1>4. a \in ArraysOf(n, S)
  BY <1>1 DEF ArraysOf
<1>5. a[s] = e /\ \A j \in 0 .. n - 1 : j # s => a[j] = ring[j]
  BY <1>1 DEF ArraysOf
<1>6. /\ v \in Seq(S) /\ Len(v) = c /\ \A i \in 1 .. c : v[i] = ring[WindowSlot(t, i, n, m)]
  BY <1>0, WindowType DEF Window
<1>a. \A i \in 1 .. c : WindowSlot(t, i, n, m) \in 0 .. n - 1
  <2>1. \A i \in 1 .. c : i \in Nat \ {0}
    OBVIOUS
  <2>2. \A i \in Nat \ {0} : WindowSlot(t, i, n, m) \in 0 .. n - 1
    BY WindowSlotType
  <2> QED
    BY <2>1, <2>2
<1>7. /\ w \in Seq(S) /\ Len(w) = c + 1
      /\ \A i \in 1 .. c + 1 : w[i] = a[WindowSlot(t, i, n, m)]
  BY <1>0, <1>4, WindowType DEF Window
<1> HIDE DEF v, w
<1>8. /\ Append(v, e) \in Seq(S) /\ Len(Append(v, e)) = c + 1
      /\ \A i \in 1 .. c : Append(v, e)[i] = v[i]
      /\ Append(v, e)[c + 1] = e
  BY <1>6, AppendProperties
<1>9. \A i \in 1 .. c : w[i] = v[i]
  <2> SUFFICES ASSUME NEW i \in 1 .. c
               PROVE  w[i] = v[i]
    OBVIOUS
  <2>1. i \in 1 .. c + 1
    OBVIOUS
  <2>2. w[i] = a[WindowSlot(t, i, n, m)] /\ v[i] = ring[WindowSlot(t, i, n, m)]
    BY <1>6, <1>7, <2>1
  <2> QED
    BY <1>3, <1>5, <1>a, <2>2
<1>10. w[c + 1] = e
  BY <1>0, <1>2, <1>5, <1>7
<1>11. \A i \in 1 .. c + 1 : w[i] = Append(v, e)[i]
  <2>1. \A i \in 1 .. c + 1 : i \in 1 .. c \/ i = c + 1
    OBVIOUS
  <2> QED
    BY <1>8, <1>9, <1>10, <2>1
<1>12. w = Append(v, e)
  BY <1>7, <1>8, <1>11, SeqEqual
<1> QED
  BY <1>12 DEF w, v, a, s

(* The oldest element is taken, and the others move up by one.              *)
LEMMA WindowGet ==
  ASSUME NEW S, NEW n \in Nat \ {0}, NEW m \in Nat \ {0},
         NEW ring \in ArraysOf(n, S), NEW t \in 0 .. m - 1, NEW c \in Nat \ {0}
  PROVE  /\ Window(ring, t, c, n, m) # << >>
         /\ Head(Window(ring, t, c, n, m)) = Held(ring, t % n)
         /\ Tail(Window(ring, t, c, n, m)) = Window(ring, (t + 1) % m, c - 1, n, m)
<1> DEFINE u == (t + 1) % m
           w == Window(ring, t, c, n, m)
           v == Window(ring, u, c - 1, n, m)
<1>0. c - 1 \in Nat /\ t + 1 \in Nat /\ c \in Nat /\ t \in Nat
  OBVIOUS
<1>1. u \in Nat
  BY <1>0, DivMod
<1>2. /\ w \in Seq(S) /\ Len(w) = c /\ \A i \in 1 .. c : w[i] = ring[WindowSlot(t, i, n, m)]
  BY <1>0, WindowType DEF Window
<1>3. ASSUME NEW i \in 1 .. c - 1
      PROVE  WindowSlot(u, i, n, m) = WindowSlot(t, i + 1, n, m)
  <2>1. i - 1 \in Nat
    OBVIOUS
  <2>2. (u + (i - 1)) % m = ((t + 1) + (i - 1)) % m
    BY <1>0, <2>1, ModAdd
  <2> HIDE DEF u
  <2>3. u + (i - 1) = u + i - 1 /\ (t + 1) + (i - 1) = t + (i + 1) - 1
    BY <1>1
  <2> QED
    BY <2>2, <2>3 DEF WindowSlot
<1> HIDE DEF u
<1>4. /\ v \in Seq(S) /\ Len(v) = c - 1
      /\ \A i \in 1 .. c - 1 : v[i] = ring[WindowSlot(u, i, n, m)]
  <2> DEFINE d == c - 1
  <2>1. d \in Nat
    BY <1>0
  <2> HIDE DEF d
  <2>2. /\ Window(ring, u, d, n, m) \in Seq(S) /\ Len(Window(ring, u, d, n, m)) = d
        /\ \A i \in 1 .. d : Window(ring, u, d, n, m)[i] = ring[WindowSlot(u, i, n, m)]
    BY <1>1, <2>1, WindowType DEF Window
  <2> QED
    BY <2>2 DEF d
<1>5. WindowSlot(t, 1, n, m) = t % n
  <2>1. t + 1 - 1 = t /\ t % m = t
    BY ModSmall
  <2> QED
    BY <2>1 DEF WindowSlot
<1> HIDE DEF v, w
<1>6. w # << >> /\ Head(w) = ring[t % n]
  BY <1>2, <1>5
<1>7. /\ Tail(w) \in Seq(S) /\ Len(Tail(w)) = c - 1
      /\ \A i \in 1 .. c - 1 : Tail(w)[i] = w[i + 1]
  BY <1>2, <1>6, HeadTailProperties
<1>8. \A i \in 1 .. c - 1 : v[i] = Tail(w)[i]
  <2>1. \A i \in 1 .. c - 1 : i + 1 \in 1 .. c
    OBVIOUS
  <2> QED
    BY <1>2, <1>3, <1>4, <1>7, <2>1
<1>9. v = Tail(w)
  BY <1>4, <1>7, <1>8, SeqEqual
<1> QED
  BY <1>6, <1>9 DEF v, w, u, Held

-----------------------------------------------------------------------------
(* The inductive invariant *)

(* One mutex: the thread that holds it is the one whose grab has the        *)
(* container, which one grab at a time has; only CondvarQueue has waiters,  *)
(* and it is not grabbed.                                                   *)
GrabInv ==
  /\ \A t \in Threads : cont[t] \in {{}, {"first"}, {"moved"}}
  /\ \A t \in Threads : cont[t] # {} <=> holder = t
  /\ \A t \in Threads : cont[t] # {} => container # "CondvarQueue"
  /\ \A t \in Threads : pc[t] # "idle" => container = "CondvarQueue"

CallTypes ==
  /\ container \in Containers
  /\ holder \in Threads \cup {NoThread}
  /\ alive \in [Threads -> SUBSET Grabs]
  /\ cont \in [Threads -> SUBSET Grabs]
  /\ \A t \in Threads : cont[t] \subseteq alive[t]
  /\ known \in [Threads -> Seq(Elements)]
  /\ pc \in [Threads -> {"idle", "asleep", "woken"}]
  /\ got \in [Threads -> Elements \cup {Nothing}]
  /\ lapsed \in BOOLEAN

(* The indexes of RingArray stay count_ apart, whatever wraps, and what     *)
(* waits was put there.                                                     *)
ContentInv ==
  /\ head = (tail + count) % SizeRange
  /\ Content \in Seq(Elements)

DataInv ==
  /\ queue \in Seq(Elements) /\ Len(queue) <= Capacity
  /\ arr \in [Slots -> Elements \cup {Nothing}]
  /\ count \in 0 .. Capacity
  /\ head \in 0 .. SizeRange - 1
  /\ tail \in 0 .. SizeRange - 1
  /\ ContentInv

IInv == DataInv /\ CallTypes /\ GrabInv /\ GrabUndisturbed

-----------------------------------------------------------------------------
(* What a call does to the content, whichever the container                 *)

Values == Elements \cup {Nothing}

LEMMA Numbers ==
  /\ Capacity \in Nat \ {0} /\ SizeRange \in Nat \ {0} /\ Capacity \in Nat
  /\ SizeRange > Capacity /\ SizeRange % Capacity = 0
BY ConstantsAssumption

LEMMA RingContent ==
  ASSUME DataInv, container = "RingArray"
  PROVE  /\ Content = Window(arr, tail, count, Capacity, SizeRange)
         /\ arr \in ArraysOf(Capacity, Values)
         /\ Len(Content) = count
<1>1. Content = Window(arr, tail, count, Capacity, SizeRange)
  BY DEF Content, Window, WindowSlot, At
<1>2. arr \in ArraysOf(Capacity, Values)
  BY DEF DataInv, ArraysOf, Slots, Values
<1>3. tail \in Nat /\ count \in Nat
  BY Numbers DEF DataInv
<1>4. Len(Window(arr, tail, count, Capacity, SizeRange)) = count
  BY <1>2, <1>3, Numbers, WindowType
<1> QED
  BY <1>1, <1>2, <1>4

(* A put appends its element to the others.                                 *)
LEMMA PutAppends ==
  ASSUME DataInv, NEW e \in Elements, PutElement(e), container' = container
  PROVE  /\ Content' = Append(Content, e) /\ Len(Content) < Capacity
         /\ DataInv'
         /\ Len(queue') <= Len(queue) + 1
<1>1. CASE container = "RingArray"
  <2>1. RingPut(e)
    BY <1>1 DEF PutElement
  <2>2. /\ count \in 0 .. Capacity - 1 /\ count \in Nat /\ tail \in Nat /\ head \in Nat
        /\ count' = count + 1 /\ tail' = tail /\ queue' = queue /\ head' = Inc(head)
        /\ arr' = [arr EXCEPT ![At(head)] = e]
        /\ head = (tail + count) % SizeRange
    BY <2>1, Numbers DEF RingPut, HasRoom, DataInv, ContentInv
  <2>3. /\ Content = Window(arr, tail, count, Capacity, SizeRange)
        /\ arr \in ArraysOf(Capacity, Values)
        /\ Len(Content) = count
    BY <1>1, RingContent
  <2>4. arr' = Stored(arr, ((tail + count) % SizeRange) % Capacity, e)
    BY <2>2 DEF At, Stored
  <2>5. Window(arr', tail, count + 1, Capacity, SizeRange)
          = Append(Window(arr, tail, count, Capacity, SizeRange), e)
    <3>1. e \in Values
      BY DEF Values
    <3>2. tail \in Nat /\ count \in 0 .. Capacity - 1
      BY <2>2
    <3>3. arr \in ArraysOf(Capacity, Values)
      BY <2>3
    <3>4. Window(Stored(arr, ((tail + count) % SizeRange) % Capacity, e),
                 tail, count + 1, Capacity, SizeRange)
            = Append(Window(arr, tail, count, Capacity, SizeRange), e)
      <4>1. Capacity \in Nat \ {0}
        BY Numbers
      <4>2. SizeRange \in Nat \ {0}
        BY Numbers
      <4>3. SizeRange % Capacity = 0
        BY Numbers
      <4> QED
        BY <3>1, <3>2, <3>3, <4>1, <4>2, <4>3, WindowPut
    <3> QED
      BY <2>4, <3>4
  <2>6. Content' = Window(arr', tail, count + 1, Capacity, SizeRange)
    BY <1>1, <2>2 DEF Content, Window, WindowSlot, At
  <2>7. Content' = Append(Content, e) /\ Len(Content) < Capacity
    <3>1. Content' = Append(Content, e)
      BY <2>3, <2>5, <2>6
    <3>2. Len(Content) < Capacity
      BY <2>2, <2>3, Numbers
    <3> QED
      BY <3>1, <3>2
  <2>8. Content' \in Seq(Elements)
    BY <2>7, AppendProperties DEF DataInv, ContentInv
  <2>9. head' \in 0 .. SizeRange - 1 /\ head' = (tail' + count') % SizeRange
    <3>1. head + 1 \in Nat /\ tail + count \in Nat /\ 1 \in Nat
      BY <2>2
    <3>2. (((tail + count) % SizeRange) + 1) % SizeRange = ((tail + count) + 1) % SizeRange
      BY <3>1, Numbers, ModAdd
    <3>3. (head + 1) % SizeRange \in 0 .. SizeRange - 1
      BY <3>1, Numbers, DivMod
    <3>4. (tail + count) + 1 = tail' + count'
      BY <2>2
    <3> QED
      BY <2>2, <3>2, <3>3, <3>4 DEF Inc
  <2>10. arr' \in [Slots -> Elements \cup {Nothing}] /\ count' \in 0 .. Capacity
    <3>1. e \in Elements \cup {Nothing} /\ arr \in [Slots -> Elements \cup {Nothing}]
      BY DEF DataInv
    <3>2. [arr EXCEPT ![At(head)] = e] \in [Slots -> Elements \cup {Nothing}]
      BY <3>1
    <3>3. count' \in 0 .. Capacity
      BY <2>2, Numbers
    <3> QED
      BY <2>2, <3>2, <3>3
  <2>11. Len(queue') <= Len(queue) + 1
    BY <2>2 DEF DataInv
  <2> QED
    BY <2>2, <2>7, <2>8, <2>9, <2>10, <2>11 DEF DataInv, ContentInv
<1>2. CASE container # "RingArray"
  <2>1. /\ Len(queue) < Capacity /\ queue' = Append(queue, e)
        /\ UNCHANGED <<arr, count, head, tail>>
    BY <1>2 DEF PutElement, QueuePush, ringVars
  <2>2. Content = queue /\ Content' = queue'
    BY <1>2 DEF Content
  <2>3. queue' \in Seq(Elements) /\ Len(queue') = Len(queue) + 1
    BY <2>1, AppendProperties DEF DataInv
  <2>4. Len(queue') <= Capacity
    BY <2>1, <2>3, Numbers DEF DataInv
  <2> QED
    BY <2>1, <2>2, <2>3, <2>4 DEF DataInv, ContentInv
<1> QED
  BY <1>1, <1>2

(* A get obtains the oldest element and removes it.                         *)
LEMMA GetRemoves ==
  ASSUME DataInv, NEW t \in Threads, GetElement(t), container' = container
  PROVE  /\ Content # << >> /\ Head(Content) \in Elements
         /\ got' = [got EXCEPT ![t] = Head(Content)]
         /\ Content' = Tail(Content)
         /\ DataInv'
         /\ container # "RingArray" => Len(queue') = Len(queue) - 1
<1>0. Content # << >> => Head(Content) \in Elements /\ Tail(Content) \in Seq(Elements)
  BY HeadTailProperties DEF DataInv, ContentInv
<1>1. CASE container = "RingArray"
  <2>1. RingGet(t)
    BY <1>1 DEF GetElement
  <2>2. /\ count \in Nat \ {0} /\ tail \in 0 .. SizeRange - 1 /\ tail \in Nat
        /\ count' = count - 1 /\ tail' = (tail + 1) % SizeRange
        /\ UNCHANGED <<queue, arr, head>>
        /\ got' = [got EXCEPT ![t] = arr[tail % Capacity]]
        /\ head = (tail + count) % SizeRange
    BY <2>1, Numbers DEF RingGet, Oldest, At, Inc, DataInv, ContentInv
  <2>3. /\ Content = Window(arr, tail, count, Capacity, SizeRange)
        /\ arr \in ArraysOf(Capacity, Values)
    BY <1>1, RingContent
  <2>4. /\ Window(arr, tail, count, Capacity, SizeRange) # << >>
        /\ Head(Window(arr, tail, count, Capacity, SizeRange)) = Held(arr, tail % Capacity)
        /\ Tail(Window(arr, tail, count, Capacity, SizeRange))
             = Window(arr, (tail + 1) % SizeRange, count - 1, Capacity, SizeRange)
    <3>1. count \in Nat \ {0} /\ tail \in 0 .. SizeRange - 1
      BY <2>2
    <3>2. arr \in ArraysOf(Capacity, Values)
      BY <2>3
    <3>3. Window(arr, tail, count, Capacity, SizeRange) # << >>
      BY <3>1, <3>2, Numbers, WindowGet
    <3>4. Head(Window(arr, tail, count, Capacity, SizeRange)) = Held(arr, tail % Capacity)
      BY <3>1, <3>2, Numbers, WindowGet
    <3>5. Tail(Window(arr, tail, count, Capacity, SizeRange))
            = Window(arr, (tail + 1) % SizeRange, count - 1, Capacity, SizeRange)
      BY <3>1, <3>2, Numbers, WindowGet
    <3> QED
      BY <3>3, <3>4, <3>5
  <2>5. Content' = Window(arr, (tail + 1) % SizeRange, count - 1, Capacity, SizeRange)
    BY <1>1, <2>2 DEF Content, Window, WindowSlot, At
  <2>6. tail' \in 0 .. SizeRange - 1 /\ head' = (tail' + count') % SizeRange
    <3>1. tail + 1 \in Nat /\ count - 1 \in Nat
      BY <2>2
    <3>2. (((tail + 1) % SizeRange) + (count - 1)) % SizeRange
            = ((tail + 1) + (count - 1)) % SizeRange
      BY <3>1, Numbers, ModAdd
    <3>3. (tail + 1) % SizeRange \in 0 .. SizeRange - 1
      BY <3>1, Numbers, DivMod
    <3>4. (tail + 1) + (count - 1) = tail + count
      BY <2>2
    <3> QED
      BY <2>2, <3>2, <3>3, <3>4
  <2>7. count' \in 0 .. Capacity
    BY <2>2, Numbers DEF DataInv
  <2>8. Content # << >> /\ Head(Content) = arr[tail % Capacity] /\ Content' = Tail(Content)
    BY <2>3, <2>4, <2>5 DEF Held
  <2>9. Content' \in Seq(Elements)
    BY <1>0, <2>8
  <2>10. DataInv'
    BY <2>2, <2>6, <2>7, <2>9 DEF DataInv, ContentInv
  <2> QED
    BY <1>0, <1>1, <2>2, <2>8, <2>10
<1>2. CASE container # "RingArray"
  <2>1. /\ queue # << >> /\ queue' = Tail(queue) /\ got' = [got EXCEPT ![t] = Head(queue)]
        /\ UNCHANGED <<arr, count, head, tail>>
    BY <1>2 DEF GetElement, QueuePop, ringVars
  <2>2. Content = queue /\ Content' = queue'
    BY <1>2 DEF Content
  <2>3. queue' \in Seq(Elements) /\ Len(queue') = Len(queue) - 1
    BY <2>1, HeadTailProperties DEF DataInv
  <2>4. Len(queue') <= Capacity
    BY <2>3, Numbers DEF DataInv
  <2> QED
    BY <1>0, <2>1, <2>2, <2>3, <2>4 DEF DataInv, ContentInv
<1> QED
  BY <1>1, <1>2

LEMMA ContentStays ==
  ASSUME DataInv, UNCHANGED <<container, queue, ringVars>>
  PROVE  Content' = Content /\ DataInv'
<1>1. Content' = Content
  BY DEF ringVars, Content, At
<1> QED
  BY <1>1 DEF DataInv, ContentInv, ringVars

LEMMA ClearEmpties ==
  ASSUME DataInv, NEW t \in Threads, Clear(t)
  PROVE  Content' = << >> /\ DataInv'
<1>1. container # "RingArray" /\ container' = container /\ queue' = << >>
      /\ UNCHANGED <<arr, count, head, tail>>
  BY DEF Clear, ringVars
<1>2. Content' = << >>
  BY <1>1 DEF Content
<1>3. << >> \in Seq(Elements) /\ Len(<< >>) = 0
  OBVIOUS
<1> QED
  BY <1>1, <1>2, <1>3, Numbers DEF DataInv, ContentInv
-----------------------------------------------------------------------------
(* The invariant is inductive *)

LEMMA IInvTypes == IInv => TypeOK
  BY DEF IInv, DataInv, CallTypes, TypeOK

(* A thread that can lock sees no grab: the mutex is free.                  *)
LEMMA NobodyGrabs ==
  ASSUME CallTypes, GrabInv, holder = NoThread \/ container = "CondvarQueue"
  PROVE  \A s \in Threads : cont[s] = {}
  BY ConstantsAssumption DEF GrabInv

LEMMA InitIInv == Init => IInv
<1> SUFFICES ASSUME Init
             PROVE  IInv
  OBVIOUS
<1>1. 0 \in 0 .. SizeRange - 1 /\ 0 \in 0 .. Capacity
  BY Numbers
<1>2. 0 % SizeRange = 0
  BY <1>1, Numbers, ModSmall
<1>3. head = (tail + count) % SizeRange
  BY <1>2 DEF Init
<1>4. << >> \in Seq(Elements) /\ Len(<< >>) = 0
  OBVIOUS
<1>5. Content = << >>
  <2>1. CASE container = "RingArray"
    <3>1. Content = [i \in 1 .. 0 |-> arr[At((tail + i - 1) % SizeRange)]]
      BY <2>1 DEF Init, Content
    <3> QED
      BY <3>1
  <2>2. CASE container # "RingArray"
    BY <2>2 DEF Init, Content
  <2> QED
    BY <2>1, <2>2
<1>6. DataInv
  BY <1>1, <1>3, <1>4, <1>5, Numbers DEF Init, DataInv, ContentInv
<1>7. CallTypes
  BY <1>4 DEF Init, CallTypes
<1>8. GrabInv /\ GrabUndisturbed
  BY ConstantsAssumption DEF Init, GrabInv, GrabUndisturbed
<1> QED
  BY <1>6, <1>7, <1>8 DEF IInv

(* A step that leaves the grabs alone while nobody grabs.                   *)
LEMMA NoGrabStep ==
  ASSUME CallTypes, GrabInv, UNCHANGED <<container, grabVars>>,
         holder = NoThread \/ container = "CondvarQueue",
         pc' = pc \/ container = "CondvarQueue",
         pc' \in [Threads -> {"idle", "asleep", "woken"}],
         got' \in [Threads -> Elements \cup {Nothing}],
         lapsed' \in BOOLEAN
  PROVE  CallTypes' /\ GrabInv' /\ GrabUndisturbed'
<1>1. \A s \in Threads : cont'[s] = {}
  BY NobodyGrabs DEF grabVars
<1>2. CallTypes'
  BY DEF CallTypes, grabVars
<1>3. GrabInv'
  BY DEF GrabInv, grabVars
<1>4. GrabUndisturbed'
  BY <1>1 DEF GrabUndisturbed
<1> QED
  BY <1>2, <1>3, <1>4

LEMMA NotifyTypes ==
  ASSUME CallTypes, NotifyOne
  PROVE  pc' \in [Threads -> {"idle", "asleep", "woken"}]
  BY DEF NotifyOne, Asleep, CallTypes

LEMMA CallIInv ==
  ASSUME IInv, NEW t \in Threads, Call(t)
  PROVE  IInv'
<1>0. DataInv /\ CallTypes /\ GrabInv
  BY DEF IInv
<1>1. ASSUME NEW e \in Elements, Push(t, e)
      PROVE  IInv'
  <2>1. DataInv'
    BY <1>0, <1>1, PutAppends DEF Push
  <2>2. pc' \in [Threads -> {"idle", "asleep", "woken"}] /\ (pc' = pc \/ container = "CondvarQueue")
    <3>1. CASE container = "CondvarQueue"
      BY <1>0, <1>1, <3>1, NotifyTypes DEF Push
    <3>2. CASE container # "CondvarQueue"
      BY <1>0, <1>1, <3>2 DEF Push, CallTypes
    <3> QED
      BY <3>1, <3>2
  <2>3. holder = NoThread /\ UNCHANGED <<container, grabVars, got>> /\ lapsed' \in BOOLEAN
    BY <1>1 DEF Push, Locks, Debt
  <2>4. got' \in [Threads -> Elements \cup {Nothing}]
    BY <1>0, <2>3 DEF CallTypes
  <2> QED
    BY <1>0, <2>1, <2>2, <2>3, <2>4, NoGrabStep DEF IInv
<1>2. CASE Pop(t)
  <2>1. DataInv' /\ got' = [got EXCEPT ![t] = Head(Content)] /\ Head(Content) \in Elements
    BY <1>0, <1>2, GetRemoves DEF Pop
  <2>2. /\ got' \in [Threads -> Elements \cup {Nothing}]
        /\ pc' \in [Threads -> {"idle", "asleep", "woken"}]
    BY <1>0, <1>2, <2>1 DEF CallTypes, Pop
  <2>3. holder = NoThread /\ UNCHANGED <<container, grabVars, pc>> /\ lapsed' \in BOOLEAN
    BY <1>2 DEF Pop, Locks, Debt
  <2> QED
    BY <1>0, <2>1, <2>2, <2>3, NoGrabStep DEF IInv
<1>3. CASE Clear(t)
  <2>1. DataInv'
    BY <1>0, <1>3, ClearEmpties
  <2>2. holder = NoThread /\ UNCHANGED <<container, grabVars, pc, got>> /\ lapsed' \in BOOLEAN
    BY <1>3 DEF Clear, Locks, Debt
  <2>3. /\ got' \in [Threads -> Elements \cup {Nothing}]
        /\ pc' \in [Threads -> {"idle", "asleep", "woken"}]
    BY <1>0, <2>2 DEF CallTypes
  <2> QED
    BY <1>0, <2>1, <2>2, <2>3, NoGrabStep DEF IInv
<1> QED
  BY <1>1, <1>2, <1>3 DEF Call

(* Who sleeps or was woken waits in CondvarQueue.                           *)
LEMMA TimedIInv ==
  ASSUME IInv, NEW t \in Threads, Timed(t)
  PROVE  IInv'
<1>0. DataInv /\ CallTypes /\ GrabInv
  BY DEF IInv
<1>1. container = "CondvarQueue" /\ container' = container /\ UNCHANGED grabVars
  BY <1>0 DEF Timed, Wait, PopAgain, WaitAgain, WakeSpuriously, TimeOut, Sleep, GrabInv, grabVars
<1>2. pc' \in [Threads -> {"idle", "asleep", "woken"}]
  BY <1>0 DEF Timed, Wait, PopAgain, WaitAgain, WakeSpuriously, TimeOut, Sleep, CallTypes
<1>3. lapsed' \in BOOLEAN
  BY <1>0 DEF Timed, Wait, PopAgain, WaitAgain, WakeSpuriously, TimeOut, Sleep, CallTypes, Debt
<1>4. CASE PopAgain(t)
  <2>1. GetElement(t)
    BY <1>1, <1>4 DEF PopAgain, GetElement
  <2>2. DataInv' /\ got' = [got EXCEPT ![t] = Head(Content)] /\ Head(Content) \in Elements
    BY <1>0, <1>1, <2>1, GetRemoves
  <2>3. got' \in [Threads -> Elements \cup {Nothing}]
    BY <1>0, <2>2 DEF CallTypes
  <2> QED
    BY <1>0, <1>1, <1>2, <1>3, <2>2, <2>3, NoGrabStep DEF IInv
<1>5. CASE Wait(t) \/ WaitAgain(t) \/ WakeSpuriously(t) \/ TimeOut(t)
  <2>1. UNCHANGED <<container, queue, ringVars, got>>
    BY <1>5 DEF Wait, WaitAgain, WakeSpuriously, TimeOut, Sleep
  <2>2. DataInv' /\ got' \in [Threads -> Elements \cup {Nothing}]
    BY <1>0, <2>1, ContentStays DEF CallTypes
  <2> QED
    BY <1>0, <1>1, <1>2, <1>3, <2>2, NoGrabStep DEF IInv
<1> QED
  BY <1>4, <1>5 DEF Timed

LEMMA GrabbedIInv ==
  ASSUME IInv, NEW t \in Threads, Grabbed(t)
  PROVE  IInv'
<1>0. DataInv /\ CallTypes /\ GrabInv /\ GrabUndisturbed
  BY DEF IInv
(* A thread with the container is the only one.                             *)
<1>a. cont[t] # {} => /\ holder = t /\ container # "CondvarQueue"
                      /\ \A s \in Threads : s # t => cont[s] = {}
  BY <1>0 DEF GrabInv
<1>1. CASE Grab(t)
  <2>1. DataInv' /\ Content' = Content
    BY <1>0, <1>1, ContentStays DEF Grab
  <2>2. \A s \in Threads : cont[s] = {}
    BY <1>0, <1>1, NobodyGrabs DEF Grab, Locks
  <2>3. \A s \in Threads : cont'[s] = IF s = t THEN {"first"} ELSE {}
    BY <1>0, <1>1, <2>2 DEF Grab, CallTypes
  <2>4. Content \in Seq(Elements)
    BY <1>0 DEF DataInv, ContentInv
  <2>5. CallTypes'
    BY <1>0, <1>1, <2>4 DEF Grab, CallTypes, Grabs, waitVars
  <2>6. GrabInv'
    BY <1>0, <1>1, <2>3 DEF Grab, GrabInv, waitVars
  <2>7. GrabUndisturbed'
    <3>1. known'[t] = Content
      BY <1>0, <1>1 DEF Grab, CallTypes
    <3> QED
      BY <2>1, <2>3, <3>1 DEF GrabUndisturbed
  <2> QED
    BY <2>1, <2>5, <2>6, <2>7 DEF IInv
<1>2. CASE MoveGrab(t)
  <2>1. DataInv' /\ Content' = Content
    BY <1>0, <1>2, ContentStays DEF MoveGrab
  <2>2. \A s \in Threads : cont'[s] = IF s = t THEN {"moved"} ELSE cont[s]
    BY <1>0, <1>2 DEF MoveGrab, Moved, CallTypes
  <2>3. CallTypes'
    BY <1>0, <1>2 DEF MoveGrab, CallTypes, Grabs, Moved, waitVars
  <2>4. GrabInv'
    BY <1>0, <1>2, <2>2 DEF MoveGrab, GrabInv, waitVars
  <2>5. GrabUndisturbed'
    BY <1>0, <1>2, <2>1, <2>2 DEF MoveGrab, GrabUndisturbed
  <2> QED
    BY <2>1, <2>3, <2>4, <2>5 DEF IInv
<1>3. ASSUME NEW g \in Grabs, DropGrab(t, g)
      PROVE  IInv'
  <2>1. DataInv' /\ Content' = Content
    BY <1>0, <1>3, ContentStays DEF DropGrab
  <2>2. \A s \in Threads : /\ cont'[s] = IF s = t THEN cont[t] \ {g} ELSE cont[s]
                           /\ alive'[s] = IF s = t THEN alive[t] \ {g} ELSE alive[s]
    BY <1>0, <1>3 DEF DropGrab, CallTypes
  <2>3. cont[t] \in {{}, {"first"}, {"moved"}}
    BY <1>0 DEF GrabInv
  <2>4. CallTypes'
    <3>1. cont' \in [Threads -> SUBSET Grabs] /\ alive' \in [Threads -> SUBSET Grabs]
      BY <1>0, <1>3 DEF DropGrab, CallTypes
    <3>2. \A s \in Threads : cont'[s] \subseteq alive'[s]
      BY <1>0, <2>2 DEF CallTypes
    <3>3. known' \in [Threads -> Seq(Elements)]
      <4>1. << >> \in Seq(Elements)
        OBVIOUS
      <4> QED
        BY <1>0, <1>3, <4>1 DEF DropGrab, CallTypes
    <3> QED
      BY <1>0, <1>3, <3>1, <3>2, <3>3 DEF DropGrab, CallTypes, waitVars
  <2>5. CASE g \in cont[t]
    <3>1. cont[t] \ {g} = {}
      BY <2>3, <2>5
    <3>2. \A s \in Threads : cont'[s] = {}
      BY <1>a, <2>2, <2>5, <3>1
    <3>3. GrabInv'
      BY <1>0, <1>3, <2>5, <3>2, ConstantsAssumption DEF DropGrab, GrabInv, waitVars
    <3>4. GrabUndisturbed'
      BY <3>2 DEF GrabUndisturbed
    <3> QED
      BY <2>1, <2>4, <3>3, <3>4 DEF IInv
  <2>6. CASE g \notin cont[t]
    <3>1. \A s \in Threads : cont'[s] = cont[s]
      BY <2>2, <2>6
    <3>2. GrabInv'
      BY <1>0, <1>3, <2>6, <3>1 DEF DropGrab, GrabInv, waitVars
    <3>3. \A s \in Threads : cont[s] # {} => known'[s] = known[s]
      BY <1>0, <1>3, <3>1 DEF DropGrab, CallTypes
    <3>4. GrabUndisturbed'
      BY <1>0, <2>1, <3>1, <3>3 DEF GrabUndisturbed
    <3> QED
      BY <2>1, <2>4, <3>2, <3>4 DEF IInv
  <2> QED
    BY <2>5, <2>6
<1>4. ASSUME NEW e \in Elements, GrabPush(t, e)
      PROVE  IInv'
  <2>1. DataInv' /\ Content' = Append(Content, e)
    BY <1>0, <1>4, PutAppends DEF GrabPush
  <2>2. known[t] = Content
    BY <1>0, <1>4 DEF GrabPush, GrabUndisturbed
  <2>3. known'[t] = Content'
    BY <1>0, <1>4, <2>1, <2>2 DEF GrabPush, CallTypes
  <2>4. CallTypes'
    <3>1. Append(known[t], e) \in Seq(Elements)
      BY <1>0, AppendProperties DEF CallTypes
    <3>2. known' \in [Threads -> Seq(Elements)]
      BY <1>0, <1>4, <3>1 DEF GrabPush, CallTypes
    <3> QED
      BY <1>0, <1>4, <3>2 DEF GrabPush, CallTypes, waitVars
  <2>5. GrabInv'
    BY <1>0, <1>4 DEF GrabPush, GrabInv, waitVars
  <2>6. GrabUndisturbed'
    BY <1>4, <1>a, <2>3 DEF GrabPush, GrabUndisturbed
  <2> QED
    BY <2>1, <2>4, <2>5, <2>6 DEF IInv
<1>5. CASE GrabPop(t)
  <2>1. /\ DataInv' /\ Content # << >> /\ Content' = Tail(Content)
        /\ got' = [got EXCEPT ![t] = Head(Content)] /\ Head(Content) \in Elements
    BY <1>0, <1>5, GetRemoves DEF GrabPop
  <2>2. known[t] = Content /\ Content \in Seq(Elements)
    BY <1>0, <1>5 DEF GrabPop, GrabUndisturbed, DataInv, ContentInv
  <2>3. known' = [known EXCEPT ![t] = Tail(@)]
    BY <1>5 DEF GrabPop
  <2>4. known'[t] = Content'
    BY <1>0, <2>1, <2>2, <2>3 DEF CallTypes
  <2>5. CallTypes'
    <3>1. Tail(known[t]) \in Seq(Elements)
      BY <2>1, <2>2, HeadTailProperties
    <3>2. known' \in [Threads -> Seq(Elements)]
      BY <1>0, <2>3, <3>1 DEF CallTypes
    <3>3. got' \in [Threads -> Elements \cup {Nothing}]
      BY <1>0, <2>1 DEF CallTypes
    <3> QED
      BY <1>0, <1>5, <3>2, <3>3 DEF GrabPop, CallTypes, waitVars
  <2>6. GrabInv'
    BY <1>0, <1>5 DEF GrabPop, GrabInv, waitVars
  <2>7. GrabUndisturbed'
    BY <1>5, <1>a, <2>4 DEF GrabPop, GrabUndisturbed
  <2> QED
    BY <2>1, <2>5, <2>6, <2>7 DEF IInv
<1> QED
  BY <1>1, <1>2, <1>3, <1>4, <1>5 DEF Grabbed

LEMMA NextIInv == IInv /\ [Next]_vars => IInv'
<1> SUFFICES ASSUME IInv, [Next]_vars
             PROVE  IInv'
  OBVIOUS
<1>1. ASSUME NEW t \in Threads, Call(t) \/ Timed(t) \/ Grabbed(t)
      PROVE  IInv'
  BY <1>1, CallIInv, TimedIInv, GrabbedIInv
<1>2. CASE UNCHANGED vars
  <2>1. DataInv' /\ Content' = Content
    BY <1>2, ContentStays DEF IInv, vars
  <2>2. CallTypes' /\ GrabInv'
    BY <1>2 DEF IInv, CallTypes, GrabInv, vars, grabVars, waitVars
  <2>3. GrabUndisturbed'
    BY <1>2, <2>1 DEF IInv, GrabUndisturbed, vars, grabVars
  <2> QED
    BY <2>1, <2>2, <2>3 DEF IInv
<1> QED
  BY <1>1, <1>2 DEF Next

(* The ring and the queue keep their bounds, and the calls their states     *)
(* (mt_containers.h:39-59, 119-163, condvar_queue.h:33-72).                 *)
THEOREM TypeCorrect == Spec => []TypeOK
  BY InitIInv, NextIInv, IInvTypes, PTL DEF Spec

(* As long as a thread has a container in a ContainerGrab, moved or not,    *)
(* nobody else changes what is in there (container_grab.h:31-60).           *)
THEOREM GrabsAreUndisturbed == Spec => []GrabUndisturbed
<1>1. IInv => GrabUndisturbed
  BY DEF IInv
<1> QED
  BY InitIInv, NextIInv, <1>1, PTL DEF Spec

-----------------------------------------------------------------------------
(* Wakeups *)

LEMMA Sizes ==
  /\ IsFiniteSet(Woken) /\ Cardinality(Woken) \in Nat
  /\ IsFiniteSet(Woken') /\ Cardinality(Woken') \in Nat
<1>1. Woken \subseteq Threads /\ Woken' \subseteq Threads
  BY DEF Woken
<1>2. IsFiniteSet(Woken) /\ IsFiniteSet(Woken')
  BY <1>1, ConstantsAssumption, FS_Subset
<1> QED
  BY <1>2, FS_CardinalityType

(* Without a debt afterwards there is nothing left, or there was none.      *)
LEMMA NoDebt ==
  ASSUME NEW more, Debt(more), ~lapsed'
  PROVE  queue' = << >> \/ (~lapsed /\ ~more)
  BY Zenon DEF Debt

LEMMA NextWakeups == IInv /\ WakeupsCover /\ [Next]_vars => WakeupsCover'
<1> SUFFICES ASSUME IInv, WakeupsCover, [Next]_vars, Asleep' # {}, ~lapsed'
             PROVE  Len(queue') <= Cardinality(Woken')
  BY DEF WakeupsCover
<1>0. /\ Cardinality(Woken) \in Nat /\ Cardinality(Woken') \in Nat
      /\ Len(queue) \in Nat /\ queue \in Seq(Elements)
      /\ pc \in [Threads -> {"idle", "asleep", "woken"}]
      /\ DataInv
  BY Sizes DEF IInv, DataInv, CallTypes
(* Where there was a sleeper and no debt, the wakeups sufficed.             *)
<1>00. Asleep # {} /\ ~lapsed => Len(queue) <= Cardinality(Woken)
  BY DEF WakeupsCover
<1>a. queue' = << >> => Len(queue') <= Cardinality(Woken')
  <2>1. Len(<< >>) = 0
    OBVIOUS
  <2> QED
    BY <1>0, <2>1
<1>b. container' = "CondvarQueue"
  BY NextIInv DEF IInv, GrabInv, Asleep
<1>1. ASSUME NEW t \in Threads, NEW e \in Elements, Push(t, e)
      PROVE  Len(queue') <= Cardinality(Woken')
  <2>1. container = "CondvarQueue"
    BY <1>1, <1>b DEF Push
  <2>2. Debt(FALSE) /\ NotifyOne
    BY <1>1, <2>1, Zenon DEF Push
  <2>3. Len(queue') <= Len(queue) + 1 /\ Len(queue') \in Nat
    BY <1>0, <1>1, PutAppends DEF Push, DataInv
  <2>4. queue' = << >> \/ ~lapsed
    BY <2>2, NoDebt, Zenon
  <2>5. Asleep # {}
    BY <2>2 DEF NotifyOne, Asleep
  <2>6. PICK s \in Asleep : pc' = [pc EXCEPT ![s] = "woken"]
    BY <2>2, <2>5 DEF NotifyOne
  <2>7. Woken' = Woken \cup {s} /\ s \notin Woken
    BY <1>0, <2>6 DEF Woken, Asleep
  <2>8. Cardinality(Woken') = Cardinality(Woken) + 1
    BY <2>7, Sizes, FS_AddElement
  <2> QED
    BY <1>0, <1>00, <1>a, <2>3, <2>4, <2>5, <2>8
<1>2. ASSUME NEW t \in Threads, Pop(t)
      PROVE  Len(queue') <= Cardinality(Woken')
  <2>1. container = "CondvarQueue" /\ container' = container
    BY <1>2, <1>b DEF Pop
  <2>2. Len(queue') = Len(queue) - 1
    BY <1>0, <1>2, <2>1, GetRemoves DEF Pop
  <2>3. queue' = << >> \/ ~lapsed
    <3>1. Debt(FALSE)
      BY <1>2, Zenon DEF Pop
    <3> QED
      BY <3>1, NoDebt, Zenon
  <2>4. Woken' = Woken /\ Asleep' = Asleep
    BY <1>2 DEF Pop, Woken, Asleep
  <2> QED
    BY <1>0, <1>00, <1>a, <2>2, <2>3, <2>4
<1>3. ASSUME NEW t \in Threads, Clear(t)
      PROVE  Len(queue') <= Cardinality(Woken')
  BY <1>a, <1>3 DEF Clear
<1>4. ASSUME NEW t \in Threads, Wait(t) \/ WaitAgain(t)
      PROVE  Len(queue') <= Cardinality(Woken')
  BY <1>a, <1>4 DEF Wait, WaitAgain, Sleep
<1>5. ASSUME NEW t \in Threads, PopAgain(t)
      PROVE  Len(queue') <= Cardinality(Woken')
  <2>1. Len(queue') = Len(queue) - 1
    BY <1>0, <1>5, HeadTailProperties DEF PopAgain, QueuePop
  <2>2. queue' = << >> \/ ~lapsed
    <3>1. Debt(FALSE)
      BY <1>5, Zenon DEF PopAgain
    <3> QED
      BY <3>1, NoDebt, Zenon
  <2>3. Woken' = Woken \ {t} /\ t \in Woken /\ Asleep' = Asleep
    BY <1>0, <1>5 DEF PopAgain, Woken, Asleep
  <2>4. Cardinality(Woken') = Cardinality(Woken) - 1
    BY <2>3, Sizes, FS_RemoveElement
  <2> QED
    BY <1>0, <1>00, <1>a, <2>1, <2>2, <2>3, <2>4
<1>6. ASSUME NEW t \in Threads, WakeSpuriously(t)
      PROVE  Len(queue') <= Cardinality(Woken')
  <2>1. Woken' = Woken \cup {t} /\ t \notin Woken /\ t \in Asleep
    BY <1>0, <1>6 DEF WakeSpuriously, Woken, Asleep
  <2>2. Cardinality(Woken') = Cardinality(Woken) + 1
    BY <2>1, Sizes, FS_AddElement
  <2>3. queue' = queue /\ lapsed' = lapsed
    BY <1>6 DEF WakeSpuriously
  <2> QED
    BY <1>0, <1>00, <2>1, <2>2, <2>3
<1>7. ASSUME NEW t \in Threads, TimeOut(t)
      PROVE  Len(queue') <= Cardinality(Woken')
  <2>1. Debt(pc[t] = "woken") /\ queue' = queue
    BY <1>7, Zenon DEF TimeOut
  <2>2. queue' = << >> \/ (~lapsed /\ ~(pc[t] = "woken"))
    BY <2>1, NoDebt
  <2>3. CASE ~lapsed /\ ~(pc[t] = "woken")
    <3>1. Woken' = Woken /\ t \in Asleep
      BY <1>0, <1>7, <2>3 DEF TimeOut, Woken, Asleep
    <3> QED
      BY <1>00, <2>1, <2>3, <3>1
  <2> QED
    BY <1>a, <2>2, <2>3
<1>8. ASSUME NEW t \in Threads, Grabbed(t)
      PROVE  Len(queue') <= Cardinality(Woken')
  (* CondvarQueue is not grabbed, and grabs that are left change nothing.   *)
  <2>1. container = "CondvarQueue"
    BY <1>8, <1>b DEF Grabbed, Grab, MoveGrab, DropGrab, GrabPush, GrabPop
  <2>2. cont[t] = {}
    BY <2>1 DEF IInv, GrabInv
  <2>3. queue' = queue /\ UNCHANGED waitVars
    BY <1>8, <2>1, <2>2 DEF Grabbed, Grab, MoveGrab, DropGrab, GrabPush, GrabPop
  <2>4. Woken' = Woken /\ Asleep' = Asleep /\ lapsed' = lapsed
    BY <2>3 DEF waitVars, Woken, Asleep
  <2> QED
    BY <1>00, <2>3, <2>4
<1>9. CASE UNCHANGED vars
  <2>1. Woken' = Woken /\ Asleep' = Asleep /\ queue' = queue /\ lapsed' = lapsed
    BY <1>9 DEF vars, waitVars, Woken, Asleep
  <2> QED
    BY <1>00, <2>1
<1> QED
  BY <1>1, <1>2, <1>3, <1>4, <1>5, <1>6, <1>7, <1>8, <1>9 DEF Next, Call, Timed

(* No wakeup is lost but by a timeout, with any number of threads that      *)
(* push, clear, pop, and wait (condvar_queue.h:33-72).                      *)
THEOREM WakeupsAreCovered == Spec => []WakeupsCover
<1>1. Init => WakeupsCover
  BY DEF Init, WakeupsCover, Asleep
<1> QED
  BY InitIInv, NextIInv, <1>1, NextWakeups, PTL DEF Spec

-----------------------------------------------------------------------------
(* Refinement *)

LEMMA InitRefines == Init => Line!Init
<1> SUFFICES ASSUME Init
             PROVE  Line!Init
  OBVIOUS
<1>1. Content = << >>
  <2>1. CASE container = "RingArray"
    <3>1. Content = [i \in 1 .. 0 |-> arr[At((tail + i - 1) % SizeRange)]]
      BY <2>1 DEF Init, Content
    <3> QED
      BY <3>1
  <2>2. CASE container # "RingArray"
    BY <2>2 DEF Init, Content
  <2> QED
    BY <2>1, <2>2
<1> QED
  BY <1>1 DEF Init, Line!Init

LEMMA PutRefines ==
  ASSUME DataInv, NEW e \in Elements, PutElement(e), UNCHANGED <<container, got>>
  PROVE  Line!Next
<1>1. Line!Put(e)
  BY PutAppends DEF Line!Put
<1> QED
  BY <1>1 DEF Line!Next

LEMMA GetRefines ==
  ASSUME DataInv, NEW t \in Threads, GetElement(t), container' = container
  PROVE  Line!Next
<1>1. Line!Get(t)
  BY GetRemoves DEF Line!Get
<1> QED
  BY <1>1 DEF Line!Next

LEMMA NextRefines == IInv /\ [Next]_vars => [Line!Next]_(Line!vars)
<1> SUFFICES ASSUME IInv, [Next]_vars
             PROVE  [Line!Next]_(Line!vars)
  OBVIOUS
<1>0. DataInv
  BY DEF IInv
<1>a. UNCHANGED <<container, queue, ringVars, got>> => UNCHANGED Line!vars
  BY <1>0, ContentStays DEF Line!vars
<1>1. ASSUME NEW t \in Threads, Call(t)
      PROVE  [Line!Next]_(Line!vars)
  <2>1. ASSUME NEW e \in Elements, Push(t, e)
        PROVE  Line!Next
    BY <1>0, <2>1, PutRefines DEF Push
  <2>2. CASE Pop(t)
    BY <1>0, <2>2, GetRefines DEF Pop
  <2>3. CASE Clear(t)
    BY <1>0, <2>3, ClearEmpties DEF Clear, Line!Next, Line!Clear
  <2> QED
    BY <1>1, <2>1, <2>2, <2>3 DEF Call
<1>2. ASSUME NEW t \in Threads, Timed(t)
      PROVE  [Line!Next]_(Line!vars)
  <2>1. CASE PopAgain(t)
    <3>1. container = "CondvarQueue"
      BY <2>1 DEF PopAgain, IInv, GrabInv
    <3>2. GetElement(t) /\ container' = container
      BY <2>1, <3>1 DEF PopAgain, GetElement
    <3> QED
      BY <1>0, <3>2, GetRefines
  <2>2. CASE Wait(t) \/ WaitAgain(t) \/ WakeSpuriously(t) \/ TimeOut(t)
    BY <1>a, <2>2 DEF Wait, WaitAgain, WakeSpuriously, TimeOut, Sleep
  <2> QED
    BY <1>2, <2>1, <2>2 DEF Timed
<1>3. ASSUME NEW t \in Threads, Grabbed(t)
      PROVE  [Line!Next]_(Line!vars)
  <2>1. ASSUME NEW e \in Elements, GrabPush(t, e)
        PROVE  Line!Next
    BY <1>0, <2>1, PutRefines DEF GrabPush
  <2>2. CASE GrabPop(t)
    BY <1>0, <2>2, GetRefines DEF GrabPop
  <2>3. CASE Grab(t) \/ MoveGrab(t) \/ \E g \in Grabs : DropGrab(t, g)
    BY <1>a, <2>3 DEF Grab, MoveGrab, DropGrab
  <2> QED
    BY <1>3, <2>1, <2>2, <2>3 DEF Grabbed
<1>4. CASE UNCHANGED vars
  BY <1>a, <1>4 DEF vars
<1> QED
  BY <1>1, <1>2, <1>3, <1>4 DEF Next

(* Queue, RingArray and CondvarQueue are bounded queues, whether their      *)
(* calls lock one by one or through a grab, through the laps and wraps of   *)
(* a RingArray whose capacity divides the range of std::size_t, as          *)
(* ConstantsAssumption says (mt_containers.h:39-59, 119-163,                *)
(* container_grab.h:31-60).                                                 *)
THEOREM ContainersImplementBoundedQueue == Spec => ImplementsBoundedQueue
<1>1. Spec => []IInv
  BY InitIInv, NextIInv, PTL DEF Spec
<1> QED
  BY <1>1, InitRefines, NextRefines, PTL DEF Spec, ImplementsBoundedQueue, Line!Spec
=============================================================================
