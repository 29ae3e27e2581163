--------------------------- MODULE ScmpQueueProofs ---------------------------
(***************************************************************************)
(* Theorems about ScmpQueue, for any finite sets of producers and of       *)
(* addresses, and any number of pushes:                                    *)
(*                                                                         *)
(*   TypeCorrect              the queue's variables keep their types       *)
(*   HeapIsSound              no thread uses a deleted node, none leaks,   *)
(*                            no access to one races                       *)
(*   RejectionsAreJust        pop is rejected at a gap or at the end only  *)
(*   QueueImplementsTicketQueue  a line of which elements leave in the     *)
(*                            order in which they were claimed             *)
(*                                                                         *)
(* The links do not say in which order the elements are while a producer   *)
(* is between TEAR and BIND: the list is in pieces then.  The invariant    *)
(* numbers the nodes by the claims, so that it can speak of the whole      *)
(* list and say where it is torn.                                          *)
(***************************************************************************)
EXTENDS ScmpQueue, FiniteSetTheorems, SequenceTheorems, TLAPS

-----------------------------------------------------------------------------
(* Lines: what is left of a history c of those who came, when n of them     *)
(* were served.                                                             *)

Rest(c, n) == SubSeq(c, n + 1, Len(c))
In(s)      == {s[i] : i \in 1 .. Len(s)}

LEMMA RestFacts ==
  ASSUME NEW S, NEW c \in Seq(S), NEW n \in 0 .. Len(c)
  PROVE  /\ Rest(c, n) \in Seq(S)
         /\ Len(Rest(c, n)) = Len(c) - n
         /\ \A i \in 1 .. Len(c) - n : Rest(c, n)[i] = c[n + i]
<1> DEFINE k == n + 1
           l == Len(c)
<1>1. l \in Nat /\ k \in Int /\ n \in Nat /\ n <= l
  OBVIOUS
<1>2. \A i \in k .. l : c[i] \in S
  OBVIOUS
<1>3. /\ SubSeq(c, k, l) \in Seq(S)
      /\ Len(SubSeq(c, k, l)) = IF k <= l THEN l - k + 1 ELSE 0
      /\ \A i \in 1 .. l - k + 1 : SubSeq(c, k, l)[i] = c[k + i - 1]
  <2> HIDE DEF k, l
  <2> QED
    BY <1>1, <1>2, SubSeqProperties
<1> HIDE DEF l
<1>4. \A i \in 1 .. l - n : k + i - 1 = n + i /\ i \in 1 .. l - k + 1
  BY <1>1
<1> QED
  BY <1>1, <1>3, <1>4 DEF Rest, l

(* One more comes: he is the last of the line. *)
LEMMA RestAppend ==
  ASSUME NEW S, NEW c \in Seq(S), NEW n \in 0 .. Len(c), NEW e \in S
  PROVE  Rest(Append(c, e), n) = Append(Rest(c, n), e)
<1> DEFINE d == Append(c, e)
           r == Rest(c, n)
           s == Rest(d, n)
<1>1. /\ d \in Seq(S) /\ Len(d) = Len(c) + 1 /\ d[Len(c) + 1] = e
      /\ \A i \in 1 .. Len(c) : d[i] = c[i]
      /\ Len(c) \in Nat
  BY AppendProperties
<1> HIDE DEF d
<1>2. r \in Seq(S) /\ Len(r) = Len(c) - n /\ \A i \in 1 .. Len(c) - n : r[i] = c[n + i]
  BY RestFacts
<1>3. s \in Seq(S) /\ Len(s) = Len(d) - n /\ \A i \in 1 .. Len(d) - n : s[i] = d[n + i]
  <2>1. n \in 0 .. Len(d)
    BY <1>1
  <2> QED
    BY <1>1, <2>1, RestFacts
<1> HIDE DEF r, s
<1>4. /\ Append(r, e) \in Seq(S) /\ Len(Append(r, e)) = Len(r) + 1
      /\ \A i \in 1 .. Len(r) : Append(r, e)[i] = r[i]
      /\ Append(r, e)[Len(r) + 1] = e
  BY <1>2, AppendProperties
<1>5. ASSUME NEW i \in 1 .. Len(s)
      PROVE  s[i] = Append(r, e)[i]
  <2>1. CASE i \in 1 .. Len(r)
    <3>1. n + i \in 1 .. Len(c) /\ i \in 1 .. Len(c) - n /\ i \in 1 .. Len(d) - n
      BY <1>1, <1>2, <2>1
    <3> QED
      BY <1>1, <1>2, <1>3, <1>4, <2>1, <3>1
  <2>2. CASE i = Len(r) + 1
    <3>1. n + i = Len(c) + 1 /\ i \in 1 .. Len(d) - n
      BY <1>1, <1>2, <2>2
    <3> QED
      BY <1>1, <1>3, <1>4, <2>2, <3>1
  <2>3. Len(s) = Len(r) + 1 /\ Len(r) \in Nat
    BY <1>1, <1>2, <1>3
  <2> QED
    BY <2>1, <2>2, <2>3
<1>6. Len(s) = Len(Append(r, e))
  BY <1>1, <1>2, <1>3, <1>4
<1>7. s = Append(r, e)
  BY <1>3, <1>4, <1>5, <1>6, SeqEqual
<1> QED
  BY <1>7 DEF d, r, s

(* One is served: he was the first of the line. *)
LEMMA RestTail ==
  ASSUME NEW S, NEW c \in Seq(S), NEW n \in 0 .. Len(c) - 1
  PROVE  /\ Rest(c, n) # << >>
         /\ Head(Rest(c, n)) = c[n + 1]
         /\ Tail(Rest(c, n)) = Rest(c, n + 1)
<1>1. n + 1 \in 1 .. Len(c) /\ Len(c) \in n + 1 .. Len(c) /\ n \in 0 .. Len(c)
  OBVIOUS
<1>2. /\ Head(Rest(c, n)) = c[n + 1]
      /\ Tail(Rest(c, n)) = SubSeq(c, (n + 1) + 1, Len(c))
  BY <1>1, HeadTailOfSubSeq DEF Rest
<1>3. Rest(c, n) \in Seq(S) /\ Len(Rest(c, n)) = Len(c) - n /\ Len(c) - n > 0
  BY <1>1, RestFacts
<1>4. Rest(c, n) # << >>
  BY <1>3, EmptySeq
<1>5. (n + 1) + 1 = n + 2 /\ Tail(Rest(c, n)) = Rest(c, n + 1)
  BY <1>2 DEF Rest
<1> QED
  BY <1>2, <1>4, <1>5

LEMMA InAppend ==
  ASSUME NEW S, NEW s \in Seq(S), NEW e \in S
  PROVE  In(Append(s, e)) = In(s) \cup {e}
<1>1. /\ Len(Append(s, e)) = Len(s) + 1 /\ Append(s, e)[Len(s) + 1] = e
      /\ \A i \in 1 .. Len(s) : Append(s, e)[i] = s[i]
      /\ Len(s) \in Nat
  BY AppendProperties
<1>2. 1 .. Len(s) + 1 = (1 .. Len(s)) \cup {Len(s) + 1}
  BY <1>1
<1> QED
  BY <1>1, <1>2 DEF In

LEMMA InTail ==
  ASSUME NEW S, NEW s \in Seq(S), s # << >>,
         \A i, j \in 1 .. Len(s) : s[i] = s[j] => i = j
  PROVE  Head(s) \in In(s) /\ In(Tail(s)) = In(s) \ {Head(s)}
<1>1. /\ Len(s) \in Nat \ {0} /\ Len(Tail(s)) = Len(s) - 1 /\ Head(s) = s[1]
      /\ \A i \in 1 .. Len(Tail(s)) : Tail(s)[i] = s[i + 1]
  BY HeadTailProperties
<1>2. ASSUME NEW i \in 1 .. Len(Tail(s))
      PROVE  Tail(s)[i] \in In(s) \ {Head(s)}
  <2>1. i + 1 \in 1 .. Len(s) /\ i + 1 # 1 /\ 1 \in 1 .. Len(s)
    BY <1>1
  <2> QED
    BY <1>1, <2>1 DEF In
<1>3. ASSUME NEW i \in 1 .. Len(s), s[i] # Head(s)
      PROVE  s[i] \in In(Tail(s))
  <2>1. i - 1 \in 1 .. Len(Tail(s)) /\ Tail(s)[i - 1] = s[(i - 1) + 1]
    BY <1>1, <1>3
  <2> QED
    BY <2>1 DEF In
<1>4. Head(s) \in In(s)
  BY <1>1 DEF In
<1>5. In(Tail(s)) \subseteq In(s) \ {Head(s)}
  BY <1>2 DEF In
<1>6. \A x \in In(s) \ {Head(s)} : x \in In(Tail(s))
  BY <1>3 DEF In
<1> QED
  BY <1>4, <1>5, <1>6

LEMMA RestInjective ==
  ASSUME NEW S, NEW c \in Seq(S), NEW n \in 0 .. Len(c),
         \A i, j \in 1 .. Len(c) : c[i] = c[j] => i = j
  PROVE  \A i, j \in 1 .. Len(Rest(c, n)) : Rest(c, n)[i] = Rest(c, n)[j] => i = j
<1> DEFINE r == Rest(c, n)
<1>1. Len(r) = Len(c) - n /\ \A i \in 1 .. Len(c) - n : r[i] = c[n + i]
  BY RestFacts
<1> HIDE DEF r
<1>2. ASSUME NEW i \in 1 .. Len(r), NEW j \in 1 .. Len(r), r[i] = r[j]
      PROVE  i = j
  <2>1. n + i \in 1 .. Len(c) /\ n + j \in 1 .. Len(c) /\ c[n + i] = c[n + j]
    BY <1>1, <1>2
  <2>2. n + i = n + j
    BY <2>1
  <2> QED
    BY <2>2
<1> QED
  BY <1>2 DEF r

-----------------------------------------------------------------------------
(* The inductive invariant *)

Live    == pc[Consumer] \notin {"drop", "gone"}
Tearing == {p \in Producers : pc[p] = "tear"}

(* Each producer claims its elements one by one, each at most once, with a  *)
(* node that is nobody else's; a queue is destroyed when no push runs.      *)
PushInv ==
  /\ \A p \in Producers : pc[p] # "idle" => pushed[p] < MaxPush /\ node[p] \in Nodes
  /\ \A p \in Tearing : next[node[p]] = NoNode /\ data[node[p]] = NextElement(p)
  /\ \A p, q \in Tearing : node[p] = node[q] => p = q
  /\ ~Live => \A p \in Producers : pc[p] = "idle"

ClaimInv ==
  /\ \A i \in 1 .. Len(claims) : \A p \in Producers :
       claims[i][1] = p =>
         claims[i][2] <= pushed[p] \/ (claims[i] = NextElement(p) /\ pc[p] = "bind")
  /\ \A i, j \in 1 .. Len(claims) : claims[i] = claims[j] => i = j

MemoryInv ==
  /\ Live => Cardinality(alive) = 1 + (Len(claims) - Popped) + Cardinality(Tearing)
  /\ Gone => alive = {}

(* The list from the node that was consumed last: nd[i] is the node of the  *)
(* i-th element, and b the number of elements that have left.               *)
Chain(nd, b) ==
  /\ Live => b = Popped
  /\ Len(received) <= b
  /\ nd[b] = head /\ nd[Len(claims)] = tail
  /\ \A i, j \in b .. Len(claims) : nd[i] = nd[j] => i = j
  /\ \A p \in Tearing : \A i \in b .. Len(claims) : node[p] # nd[i]
  /\ alive = {nd[i] : i \in b .. Len(claims)} \cup {node[p] : p \in Tearing}

(* It is torn apart exactly before the elements that are not bound yet.     *)
Links(nd, b) ==
  /\ \A i \in b .. Len(claims) - 1 :
       next[nd[i]] = IF claims[i + 1] \in Unbound THEN NoNode ELSE nd[i + 1]
  /\ next[tail] = NoNode
  /\ \A i \in b .. Len(claims) : i > Len(received) => data[nd[i]] = claims[i]
  /\ \A p \in Producers : pc[p] = "bind" =>
       \E i \in b .. Len(claims) - 1 :
         claims[i + 1] = NextElement(p) /\ node[p] = nd[i + 1] /\ old[p] = nd[i]
  /\ pc[Consumer] = "delete" =>
       b < Len(claims) /\ first = nd[b + 1] /\ claims[b + 1] \notin Unbound

Node(n) == {DataOf(n), LinkOf(n)}

(* A bound link carries what made its node, as the tail does; who is about  *)
(* to use a node has seen it.                                               *)
Order(nd, b) ==
  Live =>
    /\ Node(head) \subseteq seen[Consumer]
    /\ pc[Consumer] = "delete" => Node(first) \subseteq seen[Consumer]
    /\ \A p \in Producers : pc[p] # "idle" => Node(node[p]) \subseteq seen[p]
    /\ \A p \in Producers : pc[p] = "bind" => LinkOf(old[p]) \in seen[p]
    /\ \/ LinkOf(tail) \in rel[TailAtomic]
       \/ \A p \in Producers : LinkOf(tail) \in seen[p]
    /\ \A i \in b .. Len(claims) - 1 :
         claims[i + 1] \notin Unbound => Node(nd[i + 1]) \subseteq rel[LinkOf(nd[i])]

ListInv(nd, b) == Chain(nd, b) /\ Links(nd, b) /\ Order(nd, b)

Numbering == [Nat -> Nodes]

IInv ==
  /\ TypeOK /\ PushInv /\ ClaimInv /\ MemoryInv
  /\ ~Gone => \E b \in 0 .. Len(claims) : \E nd \in Numbering : ListInv(nd, b)

-----------------------------------------------------------------------------
(* Facts about elements and places *)

LEMMA ElementFacts ==
  ASSUME TypeOK
  PROVE  /\ \A p, q \in Producers : NextElement(p) = NextElement(q) => p = q
         /\ \A p \in Producers : NextElement(p)[1] = p /\ NextElement(p)[2] = pushed[p] + 1
         /\ \A p \in Producers : pushed[p] \in Nat
         /\ \A p \in Producers : pushed[p] < MaxPush => NextElement(p) \in Elements
         /\ \A e \in Elements : e[1] \in Producers /\ e[2] \in Nat
         /\ Len(claims) \in Nat
         /\ \A i \in 1 .. Len(claims) : claims[i] \in Elements
<1>1. MaxPush \in Nat
  BY ConstantsAssumption
<1>2. \A p \in Producers : pushed[p] \in Nat
  BY <1>1 DEF TypeOK
<1>3. \A e \in Elements : e[1] \in Producers /\ e[2] \in Nat
  BY DEF Elements
<1>4. \A p \in Producers : pushed[p] < MaxPush => NextElement(p) \in Elements
  BY <1>1, <1>2 DEF NextElement, Elements
<1>5. Len(claims) \in Nat /\ \A i \in 1 .. Len(claims) : claims[i] \in Elements
  BY DEF TypeOK
<1> QED
  BY <1>2, <1>3, <1>4, <1>5 DEF NextElement

LEMMA NodeFacts ==
  /\ \A n \in Nodes : Node(n) \subseteq Places /\ LinkOf(n) \in Node(n) /\ DataOf(n) \in Node(n)
  /\ \A m, n \in Nodes : m # n => Node(m) \cap Node(n) = {}
  /\ \A m, n \in Nodes : LinkOf(m) = LinkOf(n) => m = n
  /\ \A m, n \in Nodes : LinkOf(m) # DataOf(n)
  /\ TailAtomic \in Atomics
  /\ \A n \in Nodes : LinkOf(n) \in Atomics /\ LinkOf(n) # TailAtomic
  BY DEF Node, LinkOf, DataOf, Places, TailAtomic, Atomics

LEMMA TouchNodeFacts ==
  ASSUME TypeOK, NEW t \in Threads, NEW n \in Nodes, TouchNode(t, n)
  PROVE  /\ \A u \in Threads : seen'[u] = IF u = t THEN seen[u] \cup Node(n) ELSE seen[u] \ Node(n)
         /\ \A a \in Atomics : rel'[a] = rel[a] \ Node(n)
         /\ seen' \in [Threads -> SUBSET Places]
         /\ rel' \in [Atomics -> SUBSET Places]
<1> DEFINE s == Touch(seen, t, DataOf(n))
           r == Forget(rel, DataOf(n))
<1>1. /\ s \in [Threads -> SUBSET Places]
      /\ \A u \in Threads : s[u] = IF u = t THEN seen[u] \cup {DataOf(n)} ELSE seen[u] \ {DataOf(n)}
  BY NodeFacts DEF TypeOK, Touch
<1>2. /\ r \in [Atomics -> SUBSET Places]
      /\ \A a \in Atomics : r[a] = rel[a] \ {DataOf(n)}
  BY DEF TypeOK, Forget
<1>3. seen' = Touch(s, t, LinkOf(n)) /\ rel' = Forget(r, LinkOf(n))
  BY DEF TouchNode
<1> HIDE DEF s, r
<1>4. /\ seen' \in [Threads -> SUBSET Places]
      /\ \A u \in Threads : seen'[u] = IF u = t THEN s[u] \cup {LinkOf(n)} ELSE s[u] \ {LinkOf(n)}
  BY <1>1, <1>3, NodeFacts DEF Touch
<1>5. /\ rel' \in [Atomics -> SUBSET Places]
      /\ \A a \in Atomics : rel'[a] = r[a] \ {LinkOf(n)}
  BY <1>2, <1>3 DEF Forget
<1>6. Node(n) = {DataOf(n), LinkOf(n)}
  BY DEF Node
<1>7. \A u \in Threads : seen'[u] = IF u = t THEN seen[u] \cup Node(n) ELSE seen[u] \ Node(n)
  BY <1>1, <1>4, <1>6
<1>8. \A a \in Atomics : rel'[a] = rel[a] \ Node(n)
  BY <1>2, <1>5, <1>6
<1> QED
  BY <1>4, <1>5, <1>7, <1>8

(* An element is claimed once.                                              *)
LEMMA NotClaimed ==
  ASSUME TypeOK, ClaimInv, NEW p \in Producers, pc[p] # "bind"
  PROVE  \A i \in 1 .. Len(claims) : claims[i] # NextElement(p)
<1> SUFFICES ASSUME NEW i \in 1 .. Len(claims), claims[i] = NextElement(p)
             PROVE  FALSE
  OBVIOUS
<1>1. claims[i][1] = p /\ claims[i][2] = pushed[p] + 1 /\ pushed[p] \in Nat
  BY ElementFacts
<1> QED
  BY <1>1 DEF ClaimInv

-----------------------------------------------------------------------------
(* Initially *)

LEMMA InitIInv == Init => IInv
<1> SUFFICES ASSUME Init
             PROVE  IInv
  OBVIOUS
<1>0. /\ Len(claims) = 0 /\ Len(received) = 0 /\ MaxPush \in Nat
      /\ Consumer \in Threads /\ Producers \subseteq Threads /\ Consumer \notin Producers
  BY ConstantsAssumption DEF Init, Threads
<1>1. TypeOK
  <2>1. pushed \in [Producers -> 0 .. MaxPush]
    BY <1>0 DEF Init
  <2>2. pc \in [Threads -> {"idle"}] /\ \A t \in Threads : pc[t] = "idle"
    BY DEF Init
  <2>3. data \in [Nodes -> Elements \cup {NoData}] /\ next \in [Nodes -> Nodes \cup {NoNode}]
    BY DEF Init
  <2>4. claims \in Seq(Elements) /\ received \in Seq(Elements \cup {NoData})
    BY DEF Init
  <2>5. seen \in [Threads -> SUBSET Places] /\ rel \in [Atomics -> SUBSET Places]
    BY DEF Init
  <2> QED
    BY <1>0, <2>1, <2>2, <2>3, <2>4, <2>5 DEF Init, TypeOK
<1>2. \A t \in Threads : pc[t] = "idle"
  BY DEF Init
<1>3. Tearing = {} /\ Live /\ ~Gone /\ Popped = 0
  BY <1>0, <1>2 DEF Tearing, Live, Gone, Popped
<1>4. PushInv
  BY <1>0, <1>2, <1>3 DEF PushInv
<1>5. ClaimInv
  BY <1>0 DEF ClaimInv
<1>6. MemoryInv
  <2>1. Cardinality({}) = 0 /\ Cardinality({head}) = 1
    BY FS_EmptySet, FS_Singleton
  <2> QED
    BY <1>0, <1>3, <2>1 DEF Init, MemoryInv
<1>7. ListInv([i \in Nat |-> head], 0)
  <2> DEFINE nd == [i \in Nat |-> head]
  <2>1. \A i \in 0 .. Len(claims) : i = 0
    BY <1>0
  <2>2. nd[0] = head /\ tail = head /\ 0 \in 0 .. Len(claims)
    BY <1>0 DEF Init
  <2> HIDE DEF nd
  <2>3. Chain(nd, 0)
    <3>1. alive = {nd[i] : i \in 0 .. Len(claims)} \cup {node[p] : p \in Tearing}
      BY <1>3, <2>1, <2>2 DEF Init
    <3> QED
      BY <1>0, <1>3, <2>1, <2>2, <3>1 DEF Chain
  <2>4. Links(nd, 0)
    BY <1>0, <1>2, <2>1, <2>2 DEF Init, Links
  <2>5. Order(nd, 0)
    <3>1. Node(head) \subseteq Places /\ LinkOf(head) \in Places
      BY NodeFacts DEF Init
    <3> QED
      BY <1>0, <1>2, <2>2, <3>1 DEF Init, Order
  <2> QED
    BY <2>3, <2>4, <2>5 DEF ListInv, nd
<1>8. [i \in Nat |-> head] \in Numbering /\ 0 \in 0 .. Len(claims)
  BY <1>0 DEF Init, Numbering
<1> QED
  BY <1>1, <1>4, <1>5, <1>6, <1>7, <1>8 DEF IInv

-----------------------------------------------------------------------------
(* The steps of push *)

(* The nodes of the list, and those that are about to enter it, are alive.  *)
LEMMA ListFacts ==
  ASSUME TypeOK, PushInv, NEW b \in 0 .. Len(claims), NEW nd \in Numbering, Chain(nd, b)
  PROVE  /\ b \in Nat /\ Len(claims) \in Nat /\ b <= Len(claims)
         /\ b \in b .. Len(claims) /\ Len(claims) \in b .. Len(claims)
         /\ \A i \in b .. Len(claims) : i \in Nat /\ nd[i] \in Nodes /\ nd[i] \in alive
         /\ \A i \in b .. Len(claims) - 1 : i \in b .. Len(claims) /\ i + 1 \in b .. Len(claims)
                                            /\ i + 1 \in 1 .. Len(claims)
         /\ \A p \in Tearing : node[p] \in Nodes /\ node[p] \in alive
         /\ head \in alive /\ tail \in alive
<1>1. Len(claims) \in Nat
  BY ElementFacts
<1>2. /\ b \in Nat /\ b <= Len(claims)
      /\ b \in b .. Len(claims) /\ Len(claims) \in b .. Len(claims)
      /\ \A i \in b .. Len(claims) - 1 : i \in b .. Len(claims) /\ i + 1 \in b .. Len(claims)
                                         /\ i + 1 \in 1 .. Len(claims)
  BY <1>1
<1>3. \A i \in b .. Len(claims) : i \in Nat /\ nd[i] \in Nodes /\ nd[i] \in alive
  BY <1>1, <1>2 DEF Numbering, Chain
<1>4. \A p \in Tearing : node[p] \in Nodes /\ node[p] \in alive
  BY DEF PushInv, Tearing, Chain
<1> QED
  BY <1>1, <1>2, <1>3, <1>4 DEF Chain

LEMMA PushNewStep ==
  ASSUME TypeOK, PushInv, ClaimInv, MemoryInv, NEW p \in Producers, PushNew(p),
         NEW b \in 0 .. Len(claims), NEW nd \in Numbering, ListInv(nd, b)
  PROVE  TypeOK' /\ PushInv' /\ ClaimInv' /\ MemoryInv' /\ ListInv(nd, b)'
<1> PICK n \in Nodes \ alive :
      /\ alive' = alive \cup {n}
      /\ next' = [next EXCEPT ![n] = NoNode]
      /\ data' = [data EXCEPT ![n] = NextElement(p)]
      /\ node' = [node EXCEPT ![p] = n]
      /\ TouchNode(p, n)
  BY DEF PushNew
<1>0. /\ pc[p] = "idle" /\ pushed[p] < MaxPush /\ Live
      /\ pc' = [pc EXCEPT ![p] = "tear"]
      /\ UNCHANGED <<head, tail, old, pushed, first, claims, received>>
  BY DEF PushNew, Goto, Live
<1>1. /\ p \in Threads /\ Consumer \in Threads /\ Consumer # p /\ \A q \in Producers : q \in Threads
      /\ \A q \in Producers : pc'[q] = IF q = p THEN "tear" ELSE pc[q]
      /\ pc'[Consumer] = pc[Consumer]
      /\ \A q \in Producers : node'[q] = IF q = p THEN n ELSE node[q]
      /\ \A q \in Producers : NextElement(q)' = NextElement(q)
  BY <1>0, ConstantsAssumption DEF TypeOK, Threads, NextElement
<1>2. Tearing' = Tearing \cup {p} /\ p \notin Tearing
  BY <1>0, <1>1 DEF Tearing
<1>3. Unbound' = Unbound /\ Popped' = Popped /\ Live'
  BY <1>0, <1>1 DEF Unbound, Popped, Live
<1>4. /\ b \in Nat /\ Len(claims) \in Nat /\ b <= Len(claims)
      /\ b \in b .. Len(claims) /\ Len(claims) \in b .. Len(claims)
      /\ \A i \in b .. Len(claims) : i \in Nat /\ nd[i] \in Nodes /\ nd[i] \in alive
      /\ \A i \in b .. Len(claims) - 1 : i \in b .. Len(claims) /\ i + 1 \in b .. Len(claims)
      /\ \A q \in Tearing : node[q] \in Nodes /\ node[q] \in alive
      /\ head \in alive /\ tail \in alive
  BY ListFacts DEF ListInv
<1>5. /\ \A m \in Nodes : next'[m] = IF m = n THEN NoNode ELSE next[m]
      /\ \A m \in Nodes : data'[m] = IF m = n THEN NextElement(p) ELSE data[m]
  BY DEF TypeOK
<1>6. /\ \A u \in Threads : seen'[u] = IF u = p THEN seen[u] \cup Node(n) ELSE seen[u] \ Node(n)
      /\ \A a \in Atomics : rel'[a] = rel[a] \ Node(n)
      /\ seen' \in [Threads -> SUBSET Places] /\ rel' \in [Atomics -> SUBSET Places]
  BY <1>1, TouchNodeFacts
<1>7. TypeOK'
  <2>1. NextElement(p) \in Elements
    BY <1>0, ElementFacts
  <2>2. pc' \in [Threads -> {"idle", "tear", "bind", "delete", "move", "drop", "gone"}]
    BY <1>0 DEF TypeOK
  <2>3. \A q \in Producers : pc'[q] \in {"idle", "tear", "bind"}
    BY <1>1 DEF TypeOK
  <2>4. next' \in [Nodes -> Nodes \cup {NoNode}] /\ data' \in [Nodes -> Elements \cup {NoData}]
    BY <2>1 DEF TypeOK
  <2>5. alive' \subseteq Nodes /\ node' \in [Producers -> Nodes \cup {NoNode}]
    BY DEF TypeOK
  <2>6. UNCHANGED <<head, tail, old, pushed, first, claims, received>>
    BY <1>0
  <2>7. pc'[Consumer] \notin {"tear", "bind"}
    BY <1>1 DEF TypeOK
  <2> QED
    BY <1>6, <2>2, <2>3, <2>4, <2>5, <2>6, <2>7 DEF TypeOK
<1>8. PushInv'
  <2>1. \A q \in Tearing' : next'[node'[q]] = NoNode /\ data'[node'[q]] = NextElement(q)'
    <3>1. ASSUME NEW q \in Tearing
          PROVE  next'[node'[q]] = NoNode /\ data'[node'[q]] = NextElement(q)'
      <4>1. /\ q \in Producers /\ q # p /\ node'[q] = node[q]
            /\ node[q] \in Nodes /\ node[q] # n
        BY <1>1, <1>2, <1>4 DEF Tearing
      <4>2. next[node[q]] = NoNode /\ data[node[q]] = NextElement(q)
        BY DEF PushInv
      <4>3. next'[node[q]] = next[node[q]] /\ data'[node[q]] = data[node[q]]
        BY <1>5, <4>1
      <4>4. NextElement(q)' = NextElement(q)
        BY <1>1, <4>1
      <4> QED
        BY <4>1, <4>2, <4>3, <4>4
    <3>2. next'[node'[p]] = NoNode /\ data'[node'[p]] = NextElement(p)'
      BY <1>1, <1>5
    <3> QED
      BY <1>2, <3>1, <3>2
  <2>2. \A q, r \in Tearing' : node'[q] = node'[r] => q = r
    BY <1>1, <1>2, <1>4 DEF PushInv, Tearing
  <2>3. \A q \in Producers : pc'[q] # "idle" => pushed'[q] < MaxPush /\ node'[q] \in Nodes
    BY <1>0, <1>1 DEF PushInv
  <2> QED
    BY <1>3, <2>1, <2>2, <2>3 DEF PushInv
<1>9. ClaimInv'
  <2>1. \A i \in 1 .. Len(claims) : claims[i] \in Elements /\ claims[i][1] \in Producers
    BY ElementFacts
  <2> QED
    BY <1>0, <1>1, <2>1 DEF ClaimInv
<1>10. MemoryInv'
  <2>1. IsFiniteSet(alive) /\ IsFiniteSet(Tearing) /\ Cardinality(alive) \in Nat
    BY ConstantsAssumption, FS_Subset, FS_CardinalityType DEF TypeOK, Tearing
  <2>2. /\ Cardinality(alive') = Cardinality(alive) + 1
        /\ Cardinality(Tearing') = Cardinality(Tearing) + 1
    BY <1>2, <2>1, FS_AddElement
  <2>3. Cardinality(Tearing) \in Nat /\ Popped \in Int
    BY <2>1, FS_CardinalityType DEF Popped, TypeOK
  <2>4. Cardinality(alive) = 1 + (Len(claims) - Popped) + Cardinality(Tearing)
    BY <1>0 DEF MemoryInv
  <2>5. Cardinality(alive') = 1 + (Len(claims) - Popped) + Cardinality(Tearing')
    BY <1>4, <2>1, <2>2, <2>3, <2>4
  <2>6. claims' = claims /\ ~Gone'
    BY <1>0, <1>3 DEF Live, Gone
  <2> QED
    BY <1>3, <2>5, <2>6 DEF MemoryInv
<1>11. Chain(nd, b)'
  <2>1. {node'[q] : q \in Tearing'} = {node[q] : q \in Tearing} \cup {n}
    BY <1>1, <1>2 DEF Tearing
  <2>2. alive' = {nd[i] : i \in b .. Len(claims)} \cup {node'[q] : q \in Tearing'}
    BY <2>1 DEF ListInv, Chain
  <2>3. \A q \in Tearing' : \A i \in b .. Len(claims) : node'[q] # nd[i]
    BY <1>1, <1>2, <1>4 DEF ListInv, Chain, Tearing
  <2> QED
    BY <1>0, <1>3, <2>2, <2>3 DEF ListInv, Chain
<1>12. Links(nd, b)'
  <2>1. \A i \in b .. Len(claims) : next'[nd[i]] = next[nd[i]] /\ data'[nd[i]] = data[nd[i]]
    BY <1>4, <1>5
  <2>2. next'[tail] = next[tail]
    BY <1>4, <1>5 DEF TypeOK
  <2> QED
    BY <1>0, <1>1, <1>3, <1>4, <2>1, <2>2 DEF ListInv, Links
<1>13. Order(nd, b)'
  <2>0. Order(nd, b) /\ Chain(nd, b) /\ Links(nd, b)
    BY DEF ListInv
  <2>1. \A m \in Nodes : m # n => Node(m) \cap Node(n) = {} /\ LinkOf(m) \notin Node(n)
    BY NodeFacts
  <2>2. Node(head) \subseteq seen'[Consumer]
    BY <1>0, <1>1, <1>4, <1>6, <2>0, <2>1 DEF Order, TypeOK
  <2>3. pc[Consumer] = "delete" => Node(first) \subseteq seen'[Consumer]
    <3>1. pc[Consumer] = "delete" => first \in alive
      BY <1>4, <2>0 DEF Links
    <3> QED
      BY <1>0, <1>1, <1>6, <2>0, <2>1, <3>1 DEF Order, TypeOK
  <2>4. \A q \in Producers : pc'[q] # "idle" => Node(node'[q]) \subseteq seen'[q]
    <3>1. ASSUME NEW q \in Producers, q # p, pc[q] # "idle"
          PROVE  node[q] \in Nodes /\ node[q] # n
      <4>1. CASE pc[q] = "tear"
        BY <1>4, <4>1 DEF Tearing
      <4>2. CASE pc[q] = "bind"
        BY <1>4, <2>0, <4>2 DEF Links
      <4> QED
        BY <3>1, <4>1, <4>2 DEF TypeOK
    <3> QED
      BY <1>0, <1>1, <1>6, <2>0, <2>1, <3>1 DEF Order
  <2>5. \A q \in Producers : pc'[q] = "bind" => LinkOf(old[q]) \in seen'[q]
    <3>1. \A q \in Producers : pc[q] = "bind" => old[q] \in alive /\ old[q] \in Nodes
      BY <1>4, <2>0 DEF Links
    <3> QED
      BY <1>0, <1>1, <1>6, <2>0, <2>1, <3>1 DEF Order
  <2>6. \/ LinkOf(tail) \in rel'[TailAtomic]
        \/ \A q \in Producers : LinkOf(tail) \in seen'[q]
    <3>1. LinkOf(tail) \notin Node(n)
      BY <1>4, <2>1 DEF TypeOK
    <3> QED
      BY <1>0, <1>1, <1>6, <2>0, <3>1, NodeFacts DEF Order
  <2>7. ASSUME NEW i \in b .. Len(claims) - 1, claims[i + 1] \notin Unbound
        PROVE  Node(nd[i + 1]) \subseteq rel'[LinkOf(nd[i])]
    <3>1. nd[i] \in Nodes /\ nd[i + 1] \in Nodes /\ nd[i + 1] # n
      BY <1>4
    <3>2. LinkOf(nd[i]) \in Atomics
      BY <3>1, NodeFacts
    <3>3. Node(nd[i + 1]) \cap Node(n) = {}
      BY <2>1, <3>1
    <3>4. Node(nd[i + 1]) \subseteq rel[LinkOf(nd[i])]
      BY <1>0, <2>0, <2>7 DEF Order
    <3> QED
      BY <1>6, <3>2, <3>3, <3>4
  <2> QED
    BY <1>0, <1>1, <1>3, <2>2, <2>3, <2>4, <2>5, <2>6, <2>7 DEF Order
<1> QED
  BY <1>7, <1>8, <1>9, <1>10, <1>11, <1>12, <1>13 DEF ListInv

LEMMA PushTearStep ==
  ASSUME TypeOK, PushInv, ClaimInv, MemoryInv, NEW p \in Producers, PushTear(p),
         NEW b \in 0 .. Len(claims), NEW nd \in Numbering, ListInv(nd, b)
  PROVE  /\ TypeOK' /\ PushInv' /\ ClaimInv' /\ MemoryInv'
         /\ b \in 0 .. Len(claims)'
         /\ \E md \in Numbering : ListInv(md, b)'
<1> DEFINE l == Len(claims)
<1>0. /\ pc[p] = "tear"
      /\ old' = [old EXCEPT ![p] = tail] /\ tail' = node[p]
      /\ seen' = [seen EXCEPT ![p] = @ \cup rel[TailAtomic]]
      /\ rel' = [rel EXCEPT ![TailAtomic] = @ \cup seen'[p]]
      /\ claims' = Append(claims, NextElement(p))
      /\ pc' = [pc EXCEPT ![p] = "bind"]
      /\ UNCHANGED <<head, next, data, alive, node, pushed, first, received>>
  BY DEF PushTear, Goto, Acquire, RmwRelease
<1>a. Live /\ pushed[p] < MaxPush /\ node[p] \in Nodes /\ p \in Tearing
  BY <1>0 DEF PushInv, Live, Tearing
<1>1. /\ p \in Threads /\ Consumer \in Threads /\ Consumer # p /\ \A q \in Producers : q \in Threads
      /\ \A q \in Producers : pc'[q] = IF q = p THEN "bind" ELSE pc[q]
      /\ pc'[Consumer] = pc[Consumer]
      /\ \A q \in Producers : old'[q] = IF q = p THEN tail ELSE old[q]
      /\ \A q \in Producers : NextElement(q)' = NextElement(q)
  BY <1>0, ConstantsAssumption DEF TypeOK, Threads, NextElement
<1>2. Tearing' = Tearing \ {p}
  BY <1>1 DEF Tearing
<1>3. Unbound' = Unbound \cup {NextElement(p)} /\ Popped' = Popped /\ Live'
  BY <1>0, <1>1, <1>a DEF Unbound, Popped, Live
<1>4. /\ b \in Nat /\ l \in Nat /\ b <= l /\ b \in b .. l /\ l \in b .. l
      /\ \A i \in b .. l : i \in Nat /\ nd[i] \in Nodes /\ nd[i] \in alive
      /\ \A i \in b .. l - 1 : i \in b .. l /\ i + 1 \in b .. l /\ i + 1 \in 1 .. l
      /\ \A q \in Tearing : node[q] \in Nodes /\ node[q] \in alive
      /\ head \in alive /\ tail \in alive
  BY ListFacts DEF ListInv
<1>5. /\ NextElement(p) \in Elements
      /\ \A i \in 1 .. l : claims[i] # NextElement(p)
      /\ \A q \in Producers : NextElement(q) = NextElement(p) => q = p
      /\ NextElement(p)[1] = p
  BY <1>0, <1>a, ElementFacts, NotClaimed
<1>6. /\ claims' \in Seq(Elements) /\ Len(claims') = l + 1
      /\ \A i \in 1 .. l : claims'[i] = claims[i]
      /\ claims'[l + 1] = NextElement(p)
  BY <1>0, <1>5, AppendProperties DEF TypeOK
<1>7. /\ seen' \in [Threads -> SUBSET Places] /\ rel' \in [Atomics -> SUBSET Places]
      /\ \A u \in Threads : seen[u] \subseteq seen'[u]
      /\ \A a \in Atomics : a # TailAtomic => rel'[a] = rel[a]
      /\ rel[TailAtomic] \subseteq seen'[p] /\ seen'[p] \subseteq rel'[TailAtomic]
  <2>1. rel[TailAtomic] \subseteq Places /\ TailAtomic \in Atomics
    BY NodeFacts DEF TypeOK
  <2>2. /\ seen' \in [Threads -> SUBSET Places]
        /\ \A u \in Threads : seen[u] \subseteq seen'[u]
        /\ rel[TailAtomic] \subseteq seen'[p]
    BY <1>0, <1>1, <2>1 DEF TypeOK
  <2>3. seen'[p] \subseteq Places
    BY <1>1, <2>2
  <2>4. /\ rel' \in [Atomics -> SUBSET Places]
        /\ \A a \in Atomics : a # TailAtomic => rel'[a] = rel[a]
        /\ seen'[p] \subseteq rel'[TailAtomic]
    BY <1>0, <2>1, <2>3 DEF TypeOK
  <2> QED
    BY <2>2, <2>4
(* The new node gets the next number. *)
<1>8. PICK md \in Numbering : \A i \in Nat : md[i] = IF i = l + 1 THEN node[p] ELSE nd[i]
  <2> DEFINE m == [nd EXCEPT ![l + 1] = node[p]]
  <2>1. m \in Numbering /\ \A i \in Nat : m[i] = IF i = l + 1 THEN node[p] ELSE nd[i]
    BY <1>4, <1>a DEF Numbering
  <2> HIDE DEF m
  <2> QED
    BY <2>1
<1> HIDE DEF l
<1>9. /\ \A i \in b .. l : md[i] = nd[i]
      /\ md[l + 1] = node[p]
  <2>1. l + 1 \in Nat /\ \A i \in b .. l : i # l + 1
    BY <1>4
  <2> QED
    BY <1>4, <1>8, <2>1
<1>10. b .. l + 1 = (b .. l) \cup {l + 1} /\ l + 1 \notin b .. l
  BY <1>4
<1>11. TypeOK'
  <2>1. pc' \in [Threads -> {"idle", "tear", "bind", "delete", "move", "drop", "gone"}]
    BY <1>0 DEF TypeOK
  <2>2. \A q \in Producers : pc'[q] \in {"idle", "tear", "bind"}
    BY <1>1 DEF TypeOK
  <2>3. pc'[Consumer] \notin {"tear", "bind"}
    BY <1>1 DEF TypeOK
  <2>4. old' \in [Producers -> Nodes \cup {NoNode}] /\ tail' \in Nodes
    BY <1>0, <1>a DEF TypeOK
  <2>5. UNCHANGED <<head, next, data, alive, node, pushed, first, received>>
    BY <1>0
  <2> QED
    BY <1>6, <1>7, <2>1, <2>2, <2>3, <2>4, <2>5 DEF TypeOK
<1>12. PushInv'
  <2>1. \A q \in Tearing' : q \in Tearing /\ q \in Producers
    BY <1>2 DEF Tearing
  <2>2. UNCHANGED <<next, data, node, pushed>>
    BY <1>0
  <2>3. \A q \in Tearing' : next'[node'[q]] = NoNode /\ data'[node'[q]] = NextElement(q)'
    BY <1>1, <2>1, <2>2 DEF PushInv
  <2>4. \A q, r \in Tearing' : node'[q] = node'[r] => q = r
    BY <2>1, <2>2 DEF PushInv
  <2>5. \A q \in Producers : pc'[q] # "idle" => pushed'[q] < MaxPush /\ node'[q] \in Nodes
    BY <1>1, <1>a, <2>2 DEF PushInv
  <2> QED
    BY <1>3, <2>3, <2>4, <2>5 DEF PushInv
<1>13. ClaimInv'
  <2>1. \A i \in 1 .. l + 1 : i \in 1 .. l \/ i = l + 1
    BY <1>4
  <2>2. ASSUME NEW i \in 1 .. l, NEW q \in Producers, claims'[i][1] = q
        PROVE  claims'[i][2] <= pushed'[q] \/ (claims'[i] = NextElement(q)' /\ pc'[q] = "bind")
    <3>1. claims'[i] = claims[i]
      BY <1>6
    <3>2. claims[i][2] <= pushed[q] \/ (claims[i] = NextElement(q) /\ pc[q] = "bind")
      BY <2>2, <3>1 DEF ClaimInv, l
    <3>3. pushed' = pushed
      BY <1>0
    <3> QED
      BY <1>1, <3>1, <3>2, <3>3
  <2>3. ASSUME NEW q \in Producers, claims'[l + 1][1] = q
        PROVE  claims'[l + 1] = NextElement(q)' /\ pc'[q] = "bind"
    BY <1>1, <1>5, <1>6, <2>3
  <2>4. \A i, j \in 1 .. l + 1 : claims'[i] = claims'[j] => i = j
    BY <1>5, <1>6, <2>1 DEF ClaimInv, l
  <2> QED
    BY <1>6, <2>1, <2>2, <2>3, <2>4 DEF ClaimInv
<1>14. MemoryInv'
  <2>1. IsFiniteSet(Tearing)
    BY ConstantsAssumption, FS_Subset DEF Tearing
  <2>2. Cardinality(Tearing') = Cardinality(Tearing) - 1
    BY <1>2, <1>a, <2>1, FS_RemoveElement
  <2>3. Cardinality(Tearing) \in Nat /\ Popped \in Int
    BY <2>1, FS_CardinalityType DEF Popped, TypeOK
  <2>4. Cardinality(alive) = 1 + (l - Popped) + Cardinality(Tearing)
    BY <1>a DEF MemoryInv, l
  <2>5. Cardinality(alive) = 1 + ((l + 1) - Popped) + Cardinality(Tearing')
    BY <1>4, <2>2, <2>3, <2>4
  <2>6. alive' = alive /\ ~Gone'
    BY <1>0, <1>3 DEF Live, Gone
  <2> QED
    BY <1>3, <1>6, <2>5, <2>6 DEF MemoryInv
<1>15. Chain(nd, b) /\ Links(nd, b) /\ Order(nd, b)
  BY DEF ListInv
<1>16. Chain(md, b)'
  <2>1. md[b] = head /\ md[l + 1] = tail'
    BY <1>0, <1>4, <1>9, <1>15 DEF Chain
  <2>2. \A i, j \in b .. l + 1 : md[i] = md[j] => i = j
    BY <1>9, <1>10, <1>15, <1>a DEF Chain, l
  <2>3. \A q \in Tearing' : \A i \in b .. l + 1 : node[q] # md[i]
    BY <1>2, <1>9, <1>10, <1>15, <1>a DEF Chain, PushInv, l
  <2>4. alive = {md[i] : i \in b .. l + 1} \cup {node[q] : q \in Tearing'}
    <3>1. alive = {nd[i] : i \in b .. l} \cup {node[q] : q \in Tearing}
      BY <1>15 DEF Chain, l
    <3>2. {md[i] : i \in b .. l + 1} = {nd[i] : i \in b .. l} \cup {node[p]}
      BY <1>9, <1>10
    <3>3. {node[q] : q \in Tearing} = {node[q] : q \in Tearing'} \cup {node[p]}
      BY <1>2, <1>a
    <3> QED
      BY <3>1, <3>2, <3>3
  <2>5. head' = head /\ node' = node /\ alive' = alive /\ received' = received
    BY <1>0
  <2>6. alive' = {md[i] : i \in b .. Len(claims')} \cup {node'[q] : q \in Tearing'}
    BY <1>6, <2>4, <2>5
  <2> QED
    BY <1>3, <1>6, <1>15, <1>a, <2>1, <2>2, <2>3, <2>5, <2>6 DEF Chain
<1>17. Links(md, b)'
  <2>1. ASSUME NEW i \in b .. l
        PROVE  next[md[i]] = IF claims'[i + 1] \in Unbound' THEN NoNode ELSE md[i + 1]
    <3>1. CASE i = l
      BY <1>3, <1>4, <1>6, <1>9, <1>15, <3>1 DEF Links, Chain, l
    <3>2. CASE i # l
      <4>1. i \in b .. l - 1 /\ i + 1 \in 1 .. l /\ i + 1 \in b .. l
        BY <1>4, <3>2
      <4>2. claims'[i + 1] = claims[i + 1] /\ claims[i + 1] # NextElement(p)
        BY <1>5, <1>6, <4>1
      <4>3. next[nd[i]] = IF claims[i + 1] \in Unbound THEN NoNode ELSE nd[i + 1]
        BY <1>15, <4>1 DEF Links, l
      <4> QED
        BY <1>3, <1>9, <4>1, <4>2, <4>3
    <3> QED
      BY <3>1, <3>2
  <2>2. next[tail'] = NoNode
    BY <1>0, <1>a DEF PushInv
  <2>3. ASSUME NEW i \in b .. l + 1, i > Len(received)
        PROVE  data[md[i]] = claims'[i]
    <3>1. CASE i = l + 1
      BY <1>6, <1>9, <1>a, <3>1 DEF PushInv
    <3>2. CASE i \in b .. l
      <4>1. i \in 1 .. l
        BY <1>4, <2>3, <3>2 DEF TypeOK
      <4>2. data[nd[i]] = claims[i]
        BY <1>15, <2>3, <3>2 DEF Links, l
      <4> QED
        BY <1>6, <1>9, <3>2, <4>1, <4>2
    <3> QED
      BY <1>10, <3>1, <3>2
  <2>4. ASSUME NEW q \in Producers, pc'[q] = "bind"
        PROVE  \E i \in b .. l :
                 claims'[i + 1] = NextElement(q) /\ node[q] = md[i + 1] /\ old'[q] = md[i]
    <3>1. CASE q = p
      <4>1. claims'[l + 1] = NextElement(q) /\ node[q] = md[l + 1] /\ old'[q] = md[l]
        BY <1>1, <1>4, <1>6, <1>9, <1>15, <3>1 DEF Chain, l
      <4> QED
        BY <1>4, <4>1
    <3>2. CASE q # p
      <4>1. pc[q] = "bind" /\ old'[q] = old[q]
        BY <1>1, <2>4, <3>2
      <4>2. PICK i \in b .. l - 1 :
              claims[i + 1] = NextElement(q) /\ node[q] = nd[i + 1] /\ old[q] = nd[i]
        BY <1>15, <4>1 DEF Links, l
      <4>3. i \in b .. l /\ i + 1 \in b .. l /\ i + 1 \in 1 .. l
        BY <1>4
      <4>4. claims'[i + 1] = NextElement(q) /\ node[q] = md[i + 1] /\ old'[q] = md[i]
        BY <1>6, <1>9, <4>1, <4>2, <4>3
      <4> QED
        BY <4>3, <4>4
    <3> QED
      BY <3>1, <3>2
  <2>5. pc[Consumer] = "delete" =>
          b < l + 1 /\ first = md[b + 1] /\ claims'[b + 1] \notin Unbound'
    <3> SUFFICES ASSUME pc[Consumer] = "delete"
                 PROVE  b < l + 1 /\ first = md[b + 1] /\ claims'[b + 1] \notin Unbound'
      OBVIOUS
    <3>1. b < l /\ first = nd[b + 1] /\ claims[b + 1] \notin Unbound
      BY <1>15 DEF Links, l
    <3>2. b + 1 \in b .. l /\ b + 1 \in 1 .. l
      BY <1>4, <3>1
    <3> QED
      BY <1>3, <1>4, <1>5, <1>6, <1>9, <3>1, <3>2
  <2>6. UNCHANGED <<next, data, received, first, node>> /\ (l + 1) - 1 = l
    BY <1>0, <1>4
  <2> QED
    BY <1>1, <1>6, <2>1, <2>2, <2>3, <2>4, <2>5, <2>6 DEF Links
<1>18. Order(md, b)'
  <2>1. Node(head) \subseteq seen'[Consumer]
    BY <1>1, <1>7, <1>15, <1>a DEF Order
  <2>2. pc[Consumer] = "delete" => Node(first) \subseteq seen'[Consumer]
    BY <1>1, <1>7, <1>15, <1>a DEF Order
  <2>3. ASSUME NEW q \in Producers, pc'[q] # "idle"
        PROVE  Node(node[q]) \subseteq seen'[q]
    BY <1>0, <1>1, <1>7, <1>15, <1>a, <2>3 DEF Order
  <2>4. ASSUME NEW q \in Producers, pc'[q] = "bind"
        PROVE  LinkOf(old'[q]) \in seen'[q]
    <3>1. CASE q = p
      BY <1>1, <1>7, <1>15, <1>a, <3>1 DEF Order
    <3>2. CASE q # p
      BY <1>1, <1>7, <1>15, <1>a, <2>4, <3>2 DEF Order
    <3> QED
      BY <3>1, <3>2
  <2>5. LinkOf(tail') \in rel'[TailAtomic]
    <3>1. Node(node[p]) \subseteq seen'[p]
      BY <1>0, <1>1, <2>3
    <3> QED
      BY <1>0, <1>7, <1>a, <3>1, NodeFacts
  <2>6. ASSUME NEW i \in b .. l, claims'[i + 1] \notin Unbound'
        PROVE  Node(md[i + 1]) \subseteq rel'[LinkOf(md[i])]
    <3>1. i # l
      BY <1>3, <1>6, <2>6
    <3>2. i \in b .. l - 1 /\ i + 1 \in b .. l /\ i + 1 \in 1 .. l
      BY <1>4, <3>1
    <3>3. claims[i + 1] \notin Unbound
      BY <1>3, <1>6, <2>6, <3>2
    <3>4. Node(nd[i + 1]) \subseteq rel[LinkOf(nd[i])]
      BY <1>15, <1>a, <3>2, <3>3 DEF Order, l
    <3>5. LinkOf(nd[i]) \in Atomics /\ LinkOf(nd[i]) # TailAtomic
      BY <1>4, NodeFacts
    <3> QED
      BY <1>7, <1>9, <3>2, <3>4, <3>5
  <2>7. UNCHANGED <<head, first, node>> /\ (l + 1) - 1 = l
    BY <1>0, <1>4
  <2> QED
    BY <1>1, <1>6, <2>1, <2>2, <2>3, <2>4, <2>5, <2>6, <2>7 DEF Order
<1>19. b \in 0 .. Len(claims)'
  BY <1>4, <1>6
<1>20. ListInv(md, b)'
  BY <1>16, <1>17, <1>18 DEF ListInv
<1> QED
  BY <1>8, <1>11, <1>12, <1>13, <1>14, <1>19, <1>20

(* Who binds leaves the producers that have something unbound.              *)
LEMMA BindUnbound ==
  ASSUME TypeOK, NEW p \in Producers, PushBind(p)
  PROVE  Unbound' = Unbound \ {NextElement(p)} /\ NextElement(p) \in Unbound
<1>1. /\ \A q \in Producers : NextElement(q) = NextElement(p) => q = p
      /\ \A q \in Producers : q # p => NextElement(q)' = NextElement(q)
  BY ElementFacts DEF PushBind, NextElement, TypeOK
<1>2. pc[p] = "bind" /\ \A q \in Producers : pc'[q] = IF q = p THEN "idle" ELSE pc[q]
  BY DEF PushBind, Goto, TypeOK, Threads
<1>3. Unbound' = {NextElement(q)' : q \in {r \in Producers : pc'[r] = "bind"}}
  BY DEF Unbound
<1>4. {r \in Producers : pc'[r] = "bind"} = {r \in Producers : pc[r] = "bind"} \ {p}
  BY <1>2
<1> QED
  BY <1>1, <1>2, <1>3, <1>4 DEF Unbound

LEMMA PushBindStep ==
  ASSUME TypeOK, PushInv, ClaimInv, MemoryInv, NEW p \in Producers, PushBind(p),
         NEW b \in 0 .. Len(claims), NEW nd \in Numbering, ListInv(nd, b)
  PROVE  TypeOK' /\ PushInv' /\ ClaimInv' /\ MemoryInv' /\ ListInv(nd, b)'
<1>0. /\ pc[p] = "bind"
      /\ next' = [next EXCEPT ![old[p]] = node[p]]
      /\ rel' = [rel EXCEPT ![LinkOf(old[p])] = seen[p]]
      /\ pushed' = [pushed EXCEPT ![p] = @ + 1]
      /\ pc' = [pc EXCEPT ![p] = "idle"]
      /\ UNCHANGED <<head, tail, data, alive, node, old, first, claims, received, seen>>
  BY DEF PushBind, Goto, StoreRelease
<1>a. Live /\ pushed[p] < MaxPush /\ node[p] \in Nodes /\ p \notin Tearing
  BY <1>0 DEF PushInv, Live, Tearing
<1>1. /\ p \in Threads /\ Consumer \in Threads /\ Consumer # p /\ \A q \in Producers : q \in Threads
      /\ \A q \in Producers : pc'[q] = IF q = p THEN "idle" ELSE pc[q]
      /\ pc'[Consumer] = pc[Consumer]
      /\ \A q \in Producers : pushed'[q] = IF q = p THEN pushed[p] + 1 ELSE pushed[q]
      /\ \A q \in Producers : q # p => NextElement(q)' = NextElement(q)
  BY <1>0, ConstantsAssumption DEF TypeOK, Threads, NextElement
<1>2. Tearing' = Tearing
  BY <1>0, <1>1 DEF Tearing
<1>3. Popped' = Popped /\ Live'
  BY <1>0, <1>1, <1>a DEF Popped, Live
<1>4. /\ b \in Nat /\ Len(claims) \in Nat /\ b <= Len(claims)
      /\ b \in b .. Len(claims) /\ Len(claims) \in b .. Len(claims)
      /\ \A i \in b .. Len(claims) : i \in Nat /\ nd[i] \in Nodes /\ nd[i] \in alive
      /\ \A i \in b .. Len(claims) - 1 : i \in b .. Len(claims) /\ i + 1 \in b .. Len(claims)
                                         /\ i + 1 \in 1 .. Len(claims)
      /\ \A q \in Tearing : node[q] \in Nodes /\ node[q] \in alive
      /\ head \in alive /\ tail \in alive
  BY ListFacts DEF ListInv
<1>5. Chain(nd, b) /\ Links(nd, b) /\ Order(nd, b)
  BY DEF ListInv
(* The gap that p closes. *)
<1>6. PICK g \in b .. Len(claims) - 1 :
        claims[g + 1] = NextElement(p) /\ node[p] = nd[g + 1] /\ old[p] = nd[g]
  BY <1>0, <1>5 DEF Links
<1>7. /\ g \in b .. Len(claims) /\ g + 1 \in b .. Len(claims) /\ g + 1 \in 1 .. Len(claims)
      /\ g \in Nat /\ g # Len(claims) /\ nd[g] \in Nodes
      /\ \A i \in b .. Len(claims) : i # g => nd[i] # nd[g]
      /\ \A i \in 1 .. Len(claims) : i # g + 1 => claims[i] # NextElement(p)
  <2>1. g \in b .. Len(claims) /\ g + 1 \in b .. Len(claims) /\ g + 1 \in 1 .. Len(claims)
    BY <1>4
  <2>2. g \in Nat /\ g # Len(claims) /\ nd[g] \in Nodes
    BY <1>4, <2>1
  <2>3. \A i \in b .. Len(claims) : i # g => nd[i] # nd[g]
    BY <1>5, <2>1 DEF Chain
  <2>4. \A i \in 1 .. Len(claims) : i # g + 1 => claims[i] # NextElement(p)
    BY <1>6, <2>1 DEF ClaimInv
  <2> QED
    BY <2>1, <2>2, <2>3, <2>4
<1>8. Unbound' = Unbound \ {NextElement(p)} /\ NextElement(p) \in Unbound
  BY BindUnbound
<1>9. \A m \in Nodes : next'[m] = IF m = nd[g] THEN nd[g + 1] ELSE next[m]
  BY <1>0, <1>6, <1>7 DEF TypeOK
<1>10. TypeOK'
  <2>1. pc' \in [Threads -> {"idle", "tear", "bind", "delete", "move", "drop", "gone"}]
    BY <1>0 DEF TypeOK
  <2>2. \A q \in Producers : pc'[q] \in {"idle", "tear", "bind"}
    BY <1>1 DEF TypeOK
  <2>3. pc'[Consumer] \notin {"tear", "bind"}
    BY <1>1 DEF TypeOK
  <2>4. next' \in [Nodes -> Nodes \cup {NoNode}]
    BY <1>0, <1>a DEF TypeOK
  <2>5. pushed' \in [Producers -> 0 .. MaxPush]
    <3>1. pushed[p] + 1 \in 0 .. MaxPush
      BY <1>a, ElementFacts, ConstantsAssumption
    <3> QED
      BY <1>0, <3>1 DEF TypeOK
  <2>6. rel' \in [Atomics -> SUBSET Places]
    <3>1. seen[p] \subseteq Places
      BY <1>1 DEF TypeOK
    <3> QED
      BY <1>0, <3>1 DEF TypeOK
  <2>7. UNCHANGED <<head, tail, data, alive, node, old, first, claims, received, seen>>
    BY <1>0
  <2> QED
    BY <2>1, <2>2, <2>3, <2>4, <2>5, <2>6, <2>7 DEF TypeOK
<1>11. PushInv'
  <2>1. ASSUME NEW q \in Tearing
        PROVE  next'[node[q]] = NoNode /\ data'[node[q]] = NextElement(q)'
    <3>1. q \in Producers /\ q # p /\ node[q] \in Nodes /\ node[q] # nd[g]
      BY <1>4, <1>5, <1>7, <1>a DEF Tearing, Chain
    <3>2. next[node[q]] = NoNode /\ data[node[q]] = NextElement(q)
      BY DEF PushInv
    <3> QED
      BY <1>0, <1>1, <1>9, <3>1, <3>2
  <2>2. \A q, r \in Tearing : node[q] = node[r] => q = r
    BY DEF PushInv
  <2>3. \A q \in Producers : pc'[q] # "idle" => pushed'[q] < MaxPush /\ node[q] \in Nodes
    BY <1>1 DEF PushInv
  <2>4. node' = node
    BY <1>0
  <2> QED
    BY <1>2, <1>3, <2>1, <2>2, <2>3, <2>4 DEF PushInv
<1>12. ClaimInv'
  <2>1. ASSUME NEW i \in 1 .. Len(claims), NEW q \in Producers, claims[i][1] = q
        PROVE  claims[i][2] <= pushed'[q] \/ (claims[i] = NextElement(q)' /\ pc'[q] = "bind")
    <3>1. claims[i][2] <= pushed[q] \/ (claims[i] = NextElement(q) /\ pc[q] = "bind")
      BY <2>1 DEF ClaimInv
    <3>2. NextElement(q)[2] = pushed[q] + 1 /\ pushed[q] \in Nat /\ claims[i][2] \in Nat
      BY ElementFacts
    <3>3. CASE q = p
      <4>1. pushed'[q] = pushed[q] + 1
        BY <1>1, <3>3
      <4> QED
        BY <3>1, <3>2, <4>1
    <3>4. CASE q # p
      BY <1>1, <3>1, <3>4
    <3> QED
      BY <3>3, <3>4
  <2>2. claims' = claims
    BY <1>0
  <2> QED
    BY <2>1, <2>2 DEF ClaimInv
<1>13. MemoryInv'
  <2>1. ~Gone' /\ alive' = alive /\ claims' = claims
    BY <1>0, <1>3 DEF Live, Gone
  <2> QED
    BY <1>2, <1>3, <1>a, <2>1 DEF MemoryInv
<1>14. Chain(nd, b)'
  BY <1>0, <1>2, <1>3, <1>5, <1>a DEF Chain
<1>15. Links(nd, b)'
  <2>1. ASSUME NEW i \in b .. Len(claims) - 1
        PROVE  next'[nd[i]] = IF claims[i + 1] \in Unbound' THEN NoNode ELSE nd[i + 1]
    <3>1. CASE i = g
      BY <1>6, <1>7, <1>8, <1>9, <3>1
    <3>2. CASE i # g
      <4>1. nd[i] \in Nodes /\ nd[i] # nd[g] /\ i + 1 \in 1 .. Len(claims) /\ i + 1 # g + 1
        BY <1>4, <1>7, <3>2
      <4>2. claims[i + 1] # NextElement(p)
        BY <1>7, <4>1
      <4>3. next[nd[i]] = IF claims[i + 1] \in Unbound THEN NoNode ELSE nd[i + 1]
        BY <1>5 DEF Links
      <4> QED
        BY <1>8, <1>9, <4>1, <4>2, <4>3
    <3> QED
      BY <3>1, <3>2
  <2>2. next'[tail] = NoNode
    <3>1. tail \in Nodes /\ tail # nd[g]
      BY <1>4, <1>5, <1>7 DEF TypeOK, Chain
    <3> QED
      BY <1>5, <1>9, <3>1 DEF Links
  <2>3. ASSUME NEW q \in Producers, pc'[q] = "bind"
        PROVE  \E i \in b .. Len(claims) - 1 :
                 claims[i + 1] = NextElement(q)' /\ node[q] = nd[i + 1] /\ old[q] = nd[i]
    <3>1. q # p /\ pc[q] = "bind" /\ NextElement(q)' = NextElement(q)
      BY <1>1, <2>3
    <3> QED
      BY <1>5, <3>1 DEF Links
  <2>4. pc[Consumer] = "delete" =>
          b < Len(claims) /\ first = nd[b + 1] /\ claims[b + 1] \notin Unbound'
    BY <1>5, <1>8 DEF Links
  <2>5. \A i \in b .. Len(claims) : i > Len(received) => data[nd[i]] = claims[i]
    BY <1>5 DEF Links
  <2>6. UNCHANGED <<tail, data, node, old, first, claims, received>>
    BY <1>0
  <2> QED
    BY <1>1, <2>1, <2>2, <2>3, <2>4, <2>5, <2>6 DEF Links
<1>16. Order(nd, b)'
  <2>1. \A m \in Nodes : m # nd[g] => rel'[LinkOf(m)] = rel[LinkOf(m)]
    BY <1>0, <1>6, <1>7, NodeFacts DEF TypeOK
  <2>2. rel'[LinkOf(nd[g])] = seen[p] /\ rel'[TailAtomic] = rel[TailAtomic]
    BY <1>0, <1>6, <1>7, NodeFacts DEF TypeOK
  <2>3. ASSUME NEW i \in b .. Len(claims) - 1, claims[i + 1] \notin Unbound'
        PROVE  Node(nd[i + 1]) \subseteq rel'[LinkOf(nd[i])]
    <3>1. CASE i = g
      <4>1. Node(node[p]) \subseteq seen[p]
        BY <1>0, <1>5, <1>a DEF Order
      <4> QED
        BY <1>6, <2>2, <3>1, <4>1
    <3>2. CASE i # g
      <4>1. nd[i] \in Nodes /\ nd[i] # nd[g] /\ i + 1 \in 1 .. Len(claims) /\ i + 1 # g + 1
        BY <1>4, <1>7, <3>2
      <4>2. claims[i + 1] # NextElement(p)
        BY <1>7, <4>1
      <4>3. claims[i + 1] \notin Unbound
        BY <1>8, <2>3, <4>2
      <4>4. Node(nd[i + 1]) \subseteq rel[LinkOf(nd[i])]
        BY <1>5, <1>a, <4>3 DEF Order
      <4> QED
        BY <2>1, <4>1, <4>4
    <3> QED
      BY <3>1, <3>2
  <2>4. UNCHANGED <<head, tail, first, node, old, claims, seen>>
    BY <1>0
  <2> QED
    BY <1>1, <1>5, <1>a, <2>2, <2>3, <2>4 DEF Order
<1> QED
  BY <1>10, <1>11, <1>12, <1>13, <1>14, <1>15, <1>16 DEF ListInv
-----------------------------------------------------------------------------
(* The steps of pop and of the destructor *)

LEMMA ConsumerStep ==
  ASSUME TypeOK, PushInv, ClaimInv, UNCHANGED <<tail, next, data, node, old, pushed, claims>>,
         pc' = pc \/ \E label : Goto(Consumer, label),
         Live' \/ \A p \in Producers : pc[p] = "idle"
  PROVE  /\ \A p \in Producers : pc'[p] = pc[p] /\ NextElement(p)' = NextElement(p)
         /\ \A label : Goto(Consumer, label) => pc'[Consumer] = label
         /\ Tearing' = Tearing /\ Unbound' = Unbound
         /\ PushInv' /\ ClaimInv'
<1>1. \A p \in Producers : pc'[p] = pc[p] /\ NextElement(p)' = NextElement(p)
  BY ConstantsAssumption DEF TypeOK, Threads, Goto, NextElement
<1>2. \A label : Goto(Consumer, label) => pc'[Consumer] = label
  BY DEF TypeOK, Threads, Goto
<1>3. Tearing' = Tearing /\ Unbound' = Unbound
  BY <1>1 DEF Tearing, Unbound
<1>4. PushInv'
  BY <1>1, <1>3 DEF PushInv, Tearing
<1>5. ClaimInv'
  BY <1>1 DEF ClaimInv
<1> QED
  BY <1>1, <1>2, <1>3, <1>4, <1>5

(* What the consumer sees of the list.                                      *)
LEMMA HeadLink ==
  ASSUME TypeOK, PushInv, NEW b \in 0 .. Len(claims), NEW nd \in Numbering, ListInv(nd, b)
  PROVE  /\ next[head] # NoNode =>
              /\ b < Len(claims) /\ next[head] = nd[b + 1] /\ claims[b + 1] \notin Unbound
              /\ b \in b .. Len(claims) - 1 /\ b + 1 \in b .. Len(claims)
         /\ next[head] = NoNode => b = Len(claims) \/ claims[b + 1] \in Unbound
<1>1. /\ b \in Nat /\ Len(claims) \in Nat /\ b <= Len(claims)
      /\ \A i \in b .. Len(claims) : nd[i] \in Nodes
  BY ListFacts DEF ListInv
<1>2. nd[b] = head /\ nd[Len(claims)] = tail /\ next[tail] = NoNode
  BY DEF ListInv, Chain, Links
<1>3. CASE b = Len(claims)
  BY <1>2, <1>3
<1>4. CASE b < Len(claims)
  <2>1. b \in b .. Len(claims) - 1 /\ b + 1 \in b .. Len(claims)
    BY <1>1, <1>4
  <2>2. next[head] = IF claims[b + 1] \in Unbound THEN NoNode ELSE nd[b + 1]
    BY <1>2, <2>1 DEF ListInv, Links
  <2>3. nd[b + 1] # NoNode
    BY <1>1, <2>1, ConstantsAssumption
  <2> QED
    BY <1>4, <2>1, <2>2, <2>3
<1> QED
  BY <1>1, <1>3, <1>4

LEMMA PopReadStep ==
  ASSUME TypeOK, PushInv, ClaimInv, MemoryInv, PopRead,
         NEW b \in 0 .. Len(claims), NEW nd \in Numbering, ListInv(nd, b)
  PROVE  TypeOK' /\ PushInv' /\ ClaimInv' /\ MemoryInv' /\ ListInv(nd, b)'
<1>0. /\ pc[Consumer] = "idle" /\ next[head] # NoNode /\ first' = next[head]
      /\ seen' = [seen EXCEPT ![Consumer] = @ \cup rel[LinkOf(head)]]
      /\ Goto(Consumer, "delete")
      /\ UNCHANGED <<head, tail, next, data, alive, node, old, pushed, claims, received, rel>>
  BY DEF PopRead, PopReadUnchecked, Acquire
<1>1. Consumer \in Threads /\ pc'[Consumer] = "delete" /\ Live /\ Live' /\ Popped' = Popped
  BY <1>0 DEF Threads, Goto, TypeOK, Live, Popped
<1>2. /\ \A p \in Producers : pc'[p] = pc[p] /\ NextElement(p)' = NextElement(p)
      /\ Tearing' = Tearing /\ Unbound' = Unbound
      /\ PushInv' /\ ClaimInv'
  BY <1>0, <1>1, ConsumerStep
<1>3. /\ b < Len(claims) /\ next[head] = nd[b + 1] /\ claims[b + 1] \notin Unbound
      /\ b \in b .. Len(claims) - 1 /\ b + 1 \in b .. Len(claims)
  BY <1>0, HeadLink
<1>4. Chain(nd, b) /\ Links(nd, b) /\ Order(nd, b)
  BY DEF ListInv
<1>5. LinkOf(head) \in Atomics /\ rel[LinkOf(head)] \subseteq Places
  BY NodeFacts DEF TypeOK
<1>6. /\ seen' \in [Threads -> SUBSET Places]
      /\ \A u \in Threads : seen[u] \subseteq seen'[u]
      /\ rel[LinkOf(head)] \subseteq seen'[Consumer]
  BY <1>0, <1>1, <1>5 DEF TypeOK
<1>7. TypeOK'
  <2>1. pc' \in [Threads -> {"idle", "tear", "bind", "delete", "move", "drop", "gone"}]
    BY <1>0 DEF TypeOK, Goto
  <2>2. first' \in Nodes \cup {NoNode}
    BY <1>0 DEF TypeOK
  <2>3. /\ \A p \in Producers : pc'[p] \in {"idle", "tear", "bind"}
        /\ pc'[Consumer] \notin {"tear", "bind"}
    BY <1>1, <1>2 DEF TypeOK
  <2>4. UNCHANGED <<head, tail, next, data, alive, node, old, pushed, claims, received, rel>>
    BY <1>0
  <2> QED
    BY <1>6, <2>1, <2>2, <2>3, <2>4 DEF TypeOK
<1>8. MemoryInv'
  BY <1>0, <1>1, <1>2 DEF MemoryInv, Gone
<1>9. Chain(nd, b)'
  BY <1>0, <1>1, <1>2, <1>4 DEF Chain
<1>10. Links(nd, b)'
  BY <1>0, <1>1, <1>2, <1>3, <1>4 DEF Links
<1>11. Order(nd, b)'
  <2>1. Node(first') \subseteq seen'[Consumer]
    <3>1. nd[b] = head
      BY <1>4 DEF Chain
    <3>2. Node(nd[b + 1]) \subseteq rel[LinkOf(nd[b])]
      BY <1>1, <1>3, <1>4 DEF Order
    <3> QED
      BY <1>0, <1>3, <1>6, <3>1, <3>2
  <2>2. \A p \in Producers : p \in Threads
    BY DEF Threads
  <2> QED
    BY <1>0, <1>1, <1>2, <1>4, <1>6, <2>1, <2>2 DEF Order
<1> QED
  BY <1>2, <1>7, <1>8, <1>9, <1>10, <1>11 DEF ListInv

(* head_ leaves the list: the next node is the first of what remains.       *)
LEMMA HeadLeaves ==
  ASSUME TypeOK, PushInv, NEW b \in 0 .. Len(claims), NEW nd \in Numbering,
         Chain(nd, b), b < Len(claims)
  PROVE  /\ alive \ {head} = {nd[i] : i \in b + 1 .. Len(claims)} \cup {node[p] : p \in Tearing}
         /\ \A i \in b + 1 .. Len(claims) : i \in b .. Len(claims) /\ nd[i] \in Nodes /\ nd[i] # head
         /\ \A p \in Tearing : node[p] # head
         /\ b + 1 \in 0 .. Len(claims)
<1>1. /\ b \in Nat /\ Len(claims) \in Nat /\ b <= Len(claims) /\ b \in b .. Len(claims)
      /\ \A i \in b .. Len(claims) : nd[i] \in Nodes
  BY ListFacts
<1>2. /\ \A i \in b + 1 .. Len(claims) : i \in b .. Len(claims) /\ i # b
      /\ b .. Len(claims) = {b} \cup (b + 1 .. Len(claims))
  BY <1>1
<1>3. \A i \in b + 1 .. Len(claims) : nd[i] # head
  BY <1>1, <1>2 DEF Chain
<1>4. \A p \in Tearing : node[p] # head
  BY <1>1 DEF Chain
<1>5. {nd[i] : i \in b .. Len(claims)} = {head} \cup {nd[i] : i \in b + 1 .. Len(claims)}
  BY <1>2 DEF Chain
<1>6. alive = {nd[i] : i \in b .. Len(claims)} \cup {node[p] : p \in Tearing}
  BY DEF Chain
<1>7. alive \ {head} = {nd[i] : i \in b + 1 .. Len(claims)} \cup {node[p] : p \in Tearing}
  BY <1>3, <1>4, <1>5, <1>6
<1> QED
  BY <1>1, <1>2, <1>3, <1>4, <1>7

LEMMA PopDeleteStep ==
  ASSUME TypeOK, PushInv, ClaimInv, MemoryInv, PopDelete,
         NEW b \in 0 .. Len(claims), NEW nd \in Numbering, ListInv(nd, b)
  PROVE  /\ TypeOK' /\ PushInv' /\ ClaimInv' /\ MemoryInv'
         /\ b + 1 \in 0 .. Len(claims)' /\ ListInv(nd, b + 1)'
<1>0. /\ pc[Consumer] = "delete" /\ alive' = alive \ {head} /\ head' = first
      /\ TouchNode(Consumer, head)
      /\ Goto(Consumer, "move")
      /\ UNCHANGED <<tail, next, data, node, old, pushed, first, claims, received>>
  BY DEF PopDelete
<1>1. /\ Consumer \in Threads /\ pc'[Consumer] = "move" /\ Live /\ Live'
      /\ Popped = Len(received) /\ Popped' = Len(received) + 1 /\ Len(received) \in Nat
  BY <1>0 DEF Threads, Goto, TypeOK, Live, Popped
<1>2. /\ \A p \in Producers : pc'[p] = pc[p] /\ NextElement(p)' = NextElement(p)
      /\ Tearing' = Tearing /\ Unbound' = Unbound
      /\ PushInv' /\ ClaimInv'
  BY <1>0, <1>1, ConsumerStep
<1>3. Chain(nd, b) /\ Links(nd, b) /\ Order(nd, b)
  BY DEF ListInv
<1>4. b < Len(claims) /\ first = nd[b + 1] /\ claims[b + 1] \notin Unbound /\ b = Len(received)
  BY <1>0, <1>1, <1>3 DEF Links, Chain
<1>5. /\ alive \ {head} = {nd[i] : i \in b + 1 .. Len(claims)} \cup {node[p] : p \in Tearing}
      /\ \A i \in b + 1 .. Len(claims) : i \in b .. Len(claims) /\ nd[i] \in Nodes /\ nd[i] # head
      /\ \A p \in Tearing : node[p] # head
      /\ b + 1 \in 0 .. Len(claims)
  BY <1>3, <1>4, HeadLeaves
<1>6. /\ b \in Nat /\ Len(claims) \in Nat /\ b + 1 \in Nat
      /\ b + 1 \in b + 1 .. Len(claims) /\ Len(claims) \in b + 1 .. Len(claims)
      /\ \A i \in b + 1 .. Len(claims) - 1 : /\ i \in b .. Len(claims) - 1
                                             /\ i \in b + 1 .. Len(claims)
                                             /\ i + 1 \in b + 1 .. Len(claims)
      /\ head \in alive /\ head \in Nodes
  BY <1>3, <1>4, ListFacts DEF TypeOK
<1>7. /\ \A u \in Threads : seen'[u] = IF u = Consumer THEN seen[u] \cup Node(head)
                                                       ELSE seen[u] \ Node(head)
      /\ \A a \in Atomics : rel'[a] = rel[a] \ Node(head)
      /\ seen' \in [Threads -> SUBSET Places] /\ rel' \in [Atomics -> SUBSET Places]
  BY <1>0, <1>1, <1>6, TouchNodeFacts
(* A gap is not before the element that is taken.                           *)
<1>8. ASSUME NEW p \in Producers, pc[p] = "bind"
      PROVE  \E i \in b + 1 .. Len(claims) - 1 :
               claims[i + 1] = NextElement(p) /\ node[p] = nd[i + 1] /\ old[p] = nd[i]
  <2>1. PICK i \in b .. Len(claims) - 1 :
          claims[i + 1] = NextElement(p) /\ node[p] = nd[i + 1] /\ old[p] = nd[i]
    BY <1>3, <1>8 DEF Links
  <2>2. NextElement(p) \in Unbound
    BY <1>8 DEF Unbound
  <2>3. i # b
    BY <1>4, <2>1, <2>2
  <2>4. i \in b + 1 .. Len(claims) - 1
    BY <1>6, <2>3
  <2> QED
    BY <2>1, <2>4
<1>9. TypeOK'
  <2>1. pc' \in [Threads -> {"idle", "tear", "bind", "delete", "move", "drop", "gone"}]
    BY <1>0 DEF TypeOK, Goto
  <2>2. head' \in Nodes /\ alive' \subseteq Nodes
    BY <1>0, <1>4, <1>5, <1>6 DEF TypeOK
  <2>3. /\ \A p \in Producers : pc'[p] \in {"idle", "tear", "bind"}
        /\ pc'[Consumer] \notin {"tear", "bind"}
    BY <1>1, <1>2 DEF TypeOK
  <2>4. UNCHANGED <<tail, next, data, node, old, pushed, first, claims, received>>
    BY <1>0
  <2> QED
    BY <1>7, <2>1, <2>2, <2>3, <2>4 DEF TypeOK
<1>10. MemoryInv'
  <2>1. IsFiniteSet(alive) /\ IsFiniteSet(Tearing)
    BY ConstantsAssumption, FS_Subset DEF TypeOK, Tearing
  <2>2. Cardinality(alive') = Cardinality(alive) - 1 /\ Cardinality(Tearing) \in Nat
    BY <1>0, <1>6, <2>1, FS_RemoveElement, FS_CardinalityType
  <2>3. Cardinality(alive) = 1 + (Len(claims) - Len(received)) + Cardinality(Tearing)
    BY <1>1 DEF MemoryInv
  <2>4. Cardinality(alive') = 1 + (Len(claims) - (Len(received) + 1)) + Cardinality(Tearing)
    BY <1>1, <1>6, <2>2, <2>3
  <2>5. claims' = claims /\ ~Gone'
    BY <1>0, <1>1 DEF Gone
  <2> QED
    BY <1>1, <1>2, <2>4, <2>5 DEF MemoryInv
<1>11. Chain(nd, b + 1)'
  <2>1. nd[b + 1] = head' /\ nd[Len(claims)] = tail
    BY <1>0, <1>3, <1>4 DEF Chain
  <2>2. \A i, j \in b + 1 .. Len(claims) : nd[i] = nd[j] => i = j
    BY <1>3, <1>5 DEF Chain
  <2>3. \A p \in Tearing : \A i \in b + 1 .. Len(claims) : node[p] # nd[i]
    BY <1>3, <1>5 DEF Chain
  <2>4. UNCHANGED <<tail, claims, node, received>>
    BY <1>0
  <2> QED
    BY <1>0, <1>1, <1>2, <1>4, <1>5, <2>1, <2>2, <2>3, <2>4 DEF Chain
<1>12. Links(nd, b + 1)'
  <2>1. \A i \in b + 1 .. Len(claims) - 1 :
          next[nd[i]] = IF claims[i + 1] \in Unbound THEN NoNode ELSE nd[i + 1]
    BY <1>3, <1>6 DEF Links
  <2>2. \A i \in b + 1 .. Len(claims) : i > Len(received) => data[nd[i]] = claims[i]
    BY <1>3, <1>5 DEF Links
  <2>3. next[tail] = NoNode
    BY <1>3 DEF Links
  <2>4. UNCHANGED <<tail, next, data, node, old, first, claims, received>>
    BY <1>0
  <2> QED
    BY <1>1, <1>2, <1>8, <2>1, <2>2, <2>3, <2>4 DEF Links
<1>13. Order(nd, b + 1)'
  <2>1. \A m \in Nodes : m # head =>
          /\ LinkOf(m) \notin Node(head) /\ Node(m) \cap Node(head) = {} /\ LinkOf(m) \in Atomics
    BY <1>6, NodeFacts
  <2>2. Node(head') \subseteq seen'[Consumer]
    <3>1. Node(first) \subseteq seen[Consumer]
      BY <1>0, <1>1, <1>3 DEF Order
    <3> QED
      BY <1>0, <1>1, <1>7, <3>1
  <2>3. ASSUME NEW p \in Producers, pc[p] # "idle"
        PROVE  Node(node[p]) \subseteq seen'[p]
    <3>1. node[p] \in Nodes /\ node[p] # head
      <4>1. CASE pc[p] = "tear"
        BY <1>5, <4>1 DEF Tearing, PushInv
      <4>2. CASE pc[p] = "bind"
        BY <1>5, <1>6, <1>8, <4>2
      <4> QED
        BY <2>3, <4>1, <4>2 DEF TypeOK
    <3>2. Node(node[p]) \subseteq seen[p] /\ p \in Threads /\ p # Consumer
      BY <1>1, <1>3, <2>3, ConstantsAssumption DEF Order, Threads
    <3> QED
      BY <1>7, <2>1, <3>1, <3>2
  <2>4. ASSUME NEW p \in Producers, pc[p] = "bind"
        PROVE  LinkOf(old[p]) \in seen'[p]
    <3>1. old[p] \in Nodes /\ old[p] # head
      BY <1>5, <1>6, <1>8, <2>4
    <3>2. LinkOf(old[p]) \in seen[p] /\ p \in Threads /\ p # Consumer
      BY <1>1, <1>3, <2>4, ConstantsAssumption DEF Order, Threads
    <3> QED
      BY <1>7, <2>1, <3>1, <3>2
  <2>5. \/ LinkOf(tail) \in rel'[TailAtomic]
        \/ \A p \in Producers : LinkOf(tail) \in seen'[p]
    <3>1. LinkOf(tail) \notin Node(head)
      <4>1. tail \in Nodes /\ tail # head
        BY <1>3, <1>5, <1>6 DEF Chain
      <4> QED
        BY <2>1, <4>1
    <3>2. TailAtomic \in Atomics /\ \A p \in Producers : p \in Threads /\ p # Consumer
      BY NodeFacts, ConstantsAssumption DEF Threads
    <3> QED
      BY <1>1, <1>3, <1>7, <3>1, <3>2 DEF Order
  <2>6. ASSUME NEW i \in b + 1 .. Len(claims) - 1, claims[i + 1] \notin Unbound
        PROVE  Node(nd[i + 1]) \subseteq rel'[LinkOf(nd[i])]
    <3>1. /\ nd[i] \in Nodes /\ nd[i] # head /\ nd[i + 1] \in Nodes /\ nd[i + 1] # head
      BY <1>5, <1>6
    <3>2. Node(nd[i + 1]) \subseteq rel[LinkOf(nd[i])]
      BY <1>1, <1>3, <1>6, <2>6 DEF Order
    <3> QED
      BY <1>7, <2>1, <3>1, <3>2
  <2>7. UNCHANGED <<tail, first, node, old, claims>>
    BY <1>0
  <2> QED
    BY <1>1, <1>2, <2>2, <2>3, <2>4, <2>5, <2>6, <2>7 DEF Order
<1>14. b + 1 \in 0 .. Len(claims)'
  BY <1>0, <1>5
<1> QED
  BY <1>2, <1>9, <1>10, <1>11, <1>12, <1>13, <1>14 DEF ListInv

LEMMA PopMoveStep ==
  ASSUME TypeOK, PushInv, ClaimInv, MemoryInv, PopMove,
         NEW b \in 0 .. Len(claims), NEW nd \in Numbering, ListInv(nd, b)
  PROVE  TypeOK' /\ PushInv' /\ ClaimInv' /\ MemoryInv' /\ ListInv(nd, b)'
<1>0. /\ pc[Consumer] = "move" /\ received' = Append(received, data[head])
      /\ seen' = Touch(seen, Consumer, DataOf(head))
      /\ rel' = Forget(rel, DataOf(head))
      /\ Goto(Consumer, "idle")
      /\ UNCHANGED <<head, tail, next, data, alive, node, old, pushed, first, claims>>
  BY DEF PopMove
<1>a. data[head] \in Elements \cup {NoData}
  BY DEF TypeOK
<1>b. /\ received' \in Seq(Elements \cup {NoData})
      /\ Len(received') = Len(received) + 1 /\ Len(received) \in Nat
  BY <1>0, <1>a, AppendProperties DEF TypeOK
<1>1. /\ Consumer \in Threads /\ pc'[Consumer] = "idle" /\ Live /\ Live'
      /\ Popped = Len(received) + 1 /\ Popped' = Len(received) + 1
  BY <1>0, <1>b DEF Threads, Goto, TypeOK, Live, Popped
<1>2. /\ \A p \in Producers : pc'[p] = pc[p] /\ NextElement(p)' = NextElement(p)
      /\ Tearing' = Tearing /\ Unbound' = Unbound
      /\ PushInv' /\ ClaimInv'
  BY <1>0, <1>1, ConsumerStep
<1>3. Chain(nd, b) /\ Links(nd, b) /\ Order(nd, b)
  BY DEF ListInv
<1>4. b = Len(received) + 1
  BY <1>1, <1>3 DEF Chain
<1>5. /\ b \in Nat /\ Len(claims) \in Nat
      /\ \A i \in b .. Len(claims) : nd[i] \in Nodes
      /\ \A i \in b .. Len(claims) - 1 : i \in b .. Len(claims) /\ i + 1 \in b .. Len(claims)
      /\ head \in Nodes
  BY <1>3, ListFacts DEF TypeOK
<1>6. /\ \A u \in Threads : seen'[u] = IF u = Consumer THEN seen[u] \cup {DataOf(head)}
                                                       ELSE seen[u] \ {DataOf(head)}
      /\ \A a \in Atomics : rel'[a] = rel[a] \ {DataOf(head)}
      /\ seen' \in [Threads -> SUBSET Places] /\ rel' \in [Atomics -> SUBSET Places]
  <2>1. DataOf(head) \in Places
    BY <1>5, NodeFacts
  <2> QED
    BY <1>0, <2>1 DEF Touch, Forget, TypeOK
<1>7. TypeOK'
  <2>1. pc' \in [Threads -> {"idle", "tear", "bind", "delete", "move", "drop", "gone"}]
    BY <1>0 DEF TypeOK, Goto
  <2>2. /\ \A p \in Producers : pc'[p] \in {"idle", "tear", "bind"}
        /\ pc'[Consumer] \notin {"tear", "bind"}
    BY <1>1, <1>2 DEF TypeOK
  <2>3. UNCHANGED <<head, tail, next, data, alive, node, old, pushed, first, claims>>
    BY <1>0
  <2> QED
    BY <1>6, <1>b, <2>1, <2>2, <2>3 DEF TypeOK
<1>8. MemoryInv'
  BY <1>0, <1>1, <1>2 DEF MemoryInv, Gone
<1>9. Chain(nd, b)'
  BY <1>0, <1>1, <1>2, <1>3, <1>4, <1>b DEF Chain
<1>10. Links(nd, b)'
  <2>1. \A i \in b .. Len(claims) : i > Len(received) => data[nd[i]] = claims[i]
    BY <1>3 DEF Links
  <2>2. \A i \in b .. Len(claims) : i > Len(received') => data[nd[i]] = claims[i]
    BY <1>5, <1>b, <2>1
  <2>3. UNCHANGED <<tail, next, data, node, old, first, claims>>
    BY <1>0
  <2> QED
    BY <1>1, <1>2, <1>3, <2>2, <2>3 DEF Links
<1>11. Order(nd, b)'
  <2>1. \A m \in Nodes : LinkOf(m) # DataOf(head) /\ LinkOf(m) \in Atomics
    BY <1>5, NodeFacts
  <2>2. \A m \in Nodes : m # head => DataOf(head) \notin Node(m)
    BY <1>5, NodeFacts
  <2>3. Node(head) \subseteq seen'[Consumer]
    BY <1>1, <1>3, <1>6 DEF Order
  <2>4. ASSUME NEW p \in Producers, pc[p] # "idle"
        PROVE  Node(node[p]) \subseteq seen'[p]
    <3>1. node[p] \in Nodes /\ node[p] # head
      <4>1. CASE pc[p] = "tear"
        BY <1>3, <1>5, <4>1 DEF Tearing, PushInv, Chain
      <4>2. CASE pc[p] = "bind"
        <5>1. PICK i \in b .. Len(claims) - 1 : node[p] = nd[i + 1]
          BY <1>3, <4>2 DEF Links
        <5>2. i + 1 \in b .. Len(claims) /\ i + 1 # b /\ b \in b .. Len(claims)
          BY <1>5
        <5> QED
          BY <1>3, <1>5, <5>1, <5>2 DEF Chain
      <4> QED
        BY <2>4, <4>1, <4>2 DEF TypeOK
    <3>2. Node(node[p]) \subseteq seen[p] /\ p \in Threads /\ p # Consumer
      BY <1>1, <1>3, <2>4, ConstantsAssumption DEF Order, Threads
    <3> QED
      BY <1>6, <2>2, <3>1, <3>2
  <2>5. ASSUME NEW p \in Producers, pc[p] = "bind"
        PROVE  LinkOf(old[p]) \in seen'[p]
    <3>1. old[p] \in Nodes
      BY <1>3, <1>5, <2>5 DEF Links
    <3>2. LinkOf(old[p]) \in seen[p] /\ p \in Threads /\ p # Consumer
      BY <1>1, <1>3, <2>5, ConstantsAssumption DEF Order, Threads
    <3> QED
      BY <1>6, <2>1, <3>1, <3>2
  <2>6. \/ LinkOf(tail) \in rel'[TailAtomic]
        \/ \A p \in Producers : LinkOf(tail) \in seen'[p]
    <3>1. LinkOf(tail) # DataOf(head)
      BY <2>1 DEF TypeOK
    <3>2. TailAtomic \in Atomics /\ \A p \in Producers : p \in Threads /\ p # Consumer
      BY NodeFacts, ConstantsAssumption DEF Threads
    <3> QED
      BY <1>1, <1>3, <1>6, <3>1, <3>2 DEF Order
  <2>7. ASSUME NEW i \in b .. Len(claims) - 1, claims[i + 1] \notin Unbound
        PROVE  Node(nd[i + 1]) \subseteq rel'[LinkOf(nd[i])]
    <3>1. /\ nd[i] \in Nodes /\ nd[i + 1] \in Nodes /\ i + 1 # b
          /\ i + 1 \in b .. Len(claims) /\ b \in b .. Len(claims)
      BY <1>5
    <3>2. nd[i + 1] # head
      BY <1>3, <3>1 DEF Chain
    <3>3. Node(nd[i + 1]) \subseteq rel[LinkOf(nd[i])]
      BY <1>1, <1>3, <2>7 DEF Order
    <3> QED
      BY <1>6, <2>1, <2>2, <3>1, <3>2, <3>3
  <2>8. UNCHANGED <<head, tail, first, node, old, claims>>
    BY <1>0
  <2> QED
    BY <1>1, <1>2, <2>3, <2>4, <2>5, <2>6, <2>7, <2>8 DEF Order
<1> QED
  BY <1>2, <1>7, <1>8, <1>9, <1>10, <1>11 DEF ListInv

LEMMA DestroyBeginStep ==
  ASSUME TypeOK, PushInv, ClaimInv, MemoryInv, DestroyBegin,
         NEW b \in 0 .. Len(claims), NEW nd \in Numbering, ListInv(nd, b)
  PROVE  TypeOK' /\ PushInv' /\ ClaimInv' /\ MemoryInv' /\ ListInv(nd, b)'
<1>0. /\ pc[Consumer] = "idle" /\ \A p \in Producers : pc[p] = "idle"
      /\ Goto(Consumer, "drop")
      /\ UNCHANGED <<head, tail, next, data, alive, node, old, pushed, first, claims,
                     received, seen, rel>>
  BY DEF DestroyBegin
<1>1. /\ \A p \in Producers : pc'[p] = pc[p] /\ NextElement(p)' = NextElement(p)
      /\ pc'[Consumer] = "drop"
      /\ Tearing' = Tearing /\ Unbound' = Unbound
      /\ PushInv' /\ ClaimInv'
  BY <1>0, ConsumerStep
<1>2. ~Live' /\ ~Gone'
  BY <1>1 DEF Live, Gone
<1>3. TypeOK'
  <2>1. pc' \in [Threads -> {"idle", "tear", "bind", "delete", "move", "drop", "gone"}]
    BY <1>0 DEF TypeOK, Goto
  <2>2. UNCHANGED <<head, tail, next, data, alive, node, old, pushed, first, claims,
                    received, seen, rel>>
    BY <1>0
  <2> QED
    BY <1>1, <2>1, <2>2 DEF TypeOK
<1>4. MemoryInv' /\ Order(nd, b)'
  BY <1>2 DEF MemoryInv, Order
<1>5. Chain(nd, b)' /\ Links(nd, b)'
  BY <1>0, <1>1, <1>2 DEF ListInv, Chain, Links
<1> QED
  BY <1>1, <1>3, <1>4, <1>5 DEF ListInv

LEMMA DestroyNextStep ==
  ASSUME TypeOK, PushInv, ClaimInv, MemoryInv, DestroyNext,
         NEW b \in 0 .. Len(claims), NEW nd \in Numbering, ListInv(nd, b)
  PROVE  /\ TypeOK' /\ PushInv' /\ ClaimInv' /\ MemoryInv'
         /\ b + 1 \in 0 .. Len(claims)' /\ ListInv(nd, b + 1)'
<1>0. /\ pc[Consumer] = "drop" /\ next[head] # NoNode
      /\ first' = next[head] /\ head' = next[head] /\ alive' = alive \ {head}
      /\ UNCHANGED <<tail, next, data, pc, node, old, pushed, claims, received>>
  BY DEF DestroyNext
<1>1. ~Live /\ ~Live' /\ ~Gone' /\ \A p \in Producers : pc[p] = "idle"
  BY <1>0 DEF Live, Gone, PushInv
<1>2. /\ \A p \in Producers : pc'[p] = pc[p] /\ NextElement(p)' = NextElement(p)
      /\ Tearing' = Tearing /\ Unbound' = Unbound
      /\ PushInv' /\ ClaimInv'
  BY <1>0, <1>1, ConsumerStep
<1>3. Chain(nd, b) /\ Links(nd, b)
  BY DEF ListInv
<1>4. b < Len(claims) /\ next[head] = nd[b + 1]
  BY <1>0, HeadLink
<1>5. /\ alive \ {head} = {nd[i] : i \in b + 1 .. Len(claims)} \cup {node[p] : p \in Tearing}
      /\ \A i \in b + 1 .. Len(claims) : i \in b .. Len(claims) /\ nd[i] \in Nodes
      /\ b + 1 \in 0 .. Len(claims)
  BY <1>3, <1>4, HeadLeaves
<1>6. /\ b \in Nat /\ Len(claims) \in Nat /\ Len(received) \in Nat
      /\ b + 1 \in b + 1 .. Len(claims) /\ Len(claims) \in b + 1 .. Len(claims)
      /\ \A i \in b + 1 .. Len(claims) - 1 : i \in b .. Len(claims) - 1
  BY <1>3, <1>4, ListFacts DEF TypeOK
<1>7. TypeOK'
  <2>1. /\ DataOf(head) \in Places /\ LinkOf(head) \in Places
        /\ rel[LinkOf(head)] \subseteq Places
    BY NodeFacts DEF TypeOK
  <2>2. seen' \in [Threads -> SUBSET Places]
    <3> DEFINE s == Acquire(seen, Consumer, rel[LinkOf(head)])
               t == Touch(s, Consumer, DataOf(head))
    <3>1. s \in [Threads -> SUBSET Places]
      BY <2>1 DEF TypeOK, Acquire
    <3>2. seen' = Touch(t, Consumer, LinkOf(head))
      BY DEF DestroyNext
    <3> HIDE DEF s
    <3>3. t \in [Threads -> SUBSET Places]
      BY <2>1, <3>1 DEF Touch
    <3> HIDE DEF t
    <3> QED
      BY <2>1, <3>2, <3>3 DEF Touch
  <2>3. rel' \in [Atomics -> SUBSET Places]
    BY DEF DestroyNext, Forget, TypeOK
  <2>4. head' \in Nodes /\ first' \in Nodes /\ alive' \subseteq Nodes
    BY <1>0, <1>4, <1>5, <1>6 DEF TypeOK
  <2>5. UNCHANGED <<tail, next, data, pc, node, old, pushed, claims, received>>
    BY <1>0
  <2> QED
    BY <2>2, <2>3, <2>4, <2>5 DEF TypeOK
<1>8. MemoryInv' /\ Order(nd, b + 1)'
  BY <1>1 DEF MemoryInv, Order
<1>9. Chain(nd, b + 1)'
  <2>1. nd[b + 1] = head' /\ nd[Len(claims)] = tail /\ Len(received) <= b + 1
    BY <1>0, <1>3, <1>4, <1>6 DEF Chain
  <2>2. \A i, j \in b + 1 .. Len(claims) : nd[i] = nd[j] => i = j
    BY <1>3, <1>5 DEF Chain
  <2>3. \A p \in Tearing : \A i \in b + 1 .. Len(claims) : node[p] # nd[i]
    BY <1>3, <1>5 DEF Chain
  <2>4. UNCHANGED <<tail, claims, node, received>>
    BY <1>0
  <2> QED
    BY <1>0, <1>1, <1>2, <1>5, <2>1, <2>2, <2>3, <2>4 DEF Chain
<1>10. Links(nd, b + 1)'
  <2>1. \A i \in b + 1 .. Len(claims) - 1 :
          next[nd[i]] = IF claims[i + 1] \in Unbound THEN NoNode ELSE nd[i + 1]
    BY <1>3, <1>6 DEF Links
  <2>2. \A i \in b + 1 .. Len(claims) : i > Len(received) => data[nd[i]] = claims[i]
    BY <1>3, <1>5 DEF Links
  <2>3. next[tail] = NoNode
    BY <1>3 DEF Links
  <2>4. UNCHANGED <<tail, next, data, node, old, claims, received>>
    BY <1>0
  <2>5. pc'[Consumer] # "delete" /\ \A p \in Producers : pc'[p] # "bind"
    BY <1>0, <1>1, <1>2
  <2> QED
    BY <1>2, <2>1, <2>2, <2>3, <2>4, <2>5 DEF Links
<1>11. b + 1 \in 0 .. Len(claims)'
  BY <1>0, <1>5
<1> QED
  BY <1>2, <1>7, <1>8, <1>9, <1>10, <1>11 DEF ListInv

(* The last node of the list is the only one that is left.                  *)
LEMMA DestroyLastStep ==
  ASSUME TypeOK, PushInv, ClaimInv, MemoryInv, DestroyLast,
         NEW b \in 0 .. Len(claims), NEW nd \in Numbering, ListInv(nd, b)
  PROVE  TypeOK' /\ PushInv' /\ ClaimInv' /\ MemoryInv' /\ Gone'
<1>0. /\ pc[Consumer] = "drop" /\ next[head] = NoNode /\ alive' = alive \ {head}
      /\ TouchNode(Consumer, head)
      /\ Goto(Consumer, "gone")
      /\ UNCHANGED <<head, tail, next, data, node, old, pushed, first, claims, received>>
  BY DEF DestroyLast
<1>1. ~Live /\ \A p \in Producers : pc[p] = "idle"
  BY <1>0 DEF Live, PushInv
<1>2. /\ \A p \in Producers : pc'[p] = pc[p] /\ NextElement(p)' = NextElement(p)
      /\ pc'[Consumer] = "gone"
      /\ PushInv' /\ ClaimInv'
  BY <1>0, <1>1, ConsumerStep
<1>3. Gone' /\ ~Live'
  BY <1>2 DEF Gone, Live
<1>4. Tearing = {} /\ Unbound = {}
  BY <1>1 DEF Tearing, Unbound
<1>5. b = Len(claims)
  BY <1>0, <1>4, HeadLink
<1>6. alive = {head}
  <2>1. \A i \in b .. Len(claims) : i = b
    BY <1>5
  <2>2. nd[b] = head /\ b \in b .. Len(claims)
    BY <1>5 DEF ListInv, Chain
  <2>3. alive = {nd[i] : i \in b .. Len(claims)} \cup {node[p] : p \in Tearing}
    BY DEF ListInv, Chain
  <2> QED
    BY <1>4, <2>1, <2>2, <2>3
<1>7. alive' = {}
  BY <1>0, <1>6
<1>8. TypeOK'
  <2>1. pc' \in [Threads -> {"idle", "tear", "bind", "delete", "move", "drop", "gone"}]
    BY <1>0 DEF TypeOK, Goto
  <2>2. seen' \in [Threads -> SUBSET Places] /\ rel' \in [Atomics -> SUBSET Places]
    <3>1. head \in Nodes /\ Consumer \in Threads
      BY DEF TypeOK, Threads
    <3> QED
      BY <1>0, <3>1, TouchNodeFacts
  <2>3. UNCHANGED <<head, tail, next, data, node, old, pushed, first, claims, received>>
    BY <1>0
  <2> QED
    BY <1>2, <1>7, <2>1, <2>2, <2>3 DEF TypeOK
<1> QED
  BY <1>2, <1>3, <1>7, <1>8 DEF MemoryInv

LEMMA NextIInv == IInv /\ [Next]_vars => IInv'
<1> SUFFICES ASSUME IInv, [Next]_vars
             PROVE  IInv'
  OBVIOUS
<1>0. TypeOK /\ PushInv /\ ClaimInv /\ MemoryInv
  BY DEF IInv
<1>1. CASE UNCHANGED vars
  <2>1. /\ UNCHANGED <<head, tail, next, data, alive, pc, node, old, pushed, first,
                       claims, received, seen, rel>>
        /\ Gone' = Gone /\ Live' = Live /\ Tearing' = Tearing /\ Unbound' = Unbound
        /\ Popped' = Popped /\ \A p \in Producers : NextElement(p)' = NextElement(p)
    BY <1>1 DEF vars, Gone, Live, Tearing, Unbound, Popped, NextElement
  <2>2. TypeOK' /\ MemoryInv'
    BY <1>0, <2>1 DEF TypeOK, MemoryInv
  <2>3. PushInv' /\ ClaimInv'
    BY <1>0, <2>1 DEF PushInv, ClaimInv, Tearing
  <2>4. ASSUME NEW b, NEW nd, ListInv(nd, b)
        PROVE  ListInv(nd, b)'
    <3>1. Chain(nd, b)'
      BY <2>1, <2>4 DEF ListInv, Chain
    <3>2. Links(nd, b)'
      BY <2>1, <2>4 DEF ListInv, Links
    <3>3. Order(nd, b)'
      BY <2>1, <2>4 DEF ListInv, Order
    <3> QED
      BY <3>1, <3>2, <3>3 DEF ListInv
  <2> QED
    BY <2>1, <2>2, <2>3, <2>4 DEF IInv
<1>2. CASE Gone /\ Next
  <2>1. \A p \in Producers : pc[p] = "idle"
    BY <1>0, <1>2 DEF Gone, Live, PushInv
  <2>2. UNCHANGED vars
    BY <1>2, <2>1
    DEF Next, Gone, PushNew, Finish, PushTear, PushBind, Pop, PopRead, PopReadUnchecked,
        PopDelete, PopMove, Destroy, DestroyBegin, DestroyNext, DestroyLast, Terminating
  <2> QED
    BY <1>1, <2>2
<1>3. CASE ~Gone /\ Next
  <2>1. PICK b \in 0 .. Len(claims) : \E nd \in Numbering : ListInv(nd, b)
    BY <1>3 DEF IInv
  <2>2. PICK nd \in Numbering : ListInv(nd, b)
    BY <2>1
  <2>3. ASSUME NEW p \in Producers, PushNew(p)
        PROVE  IInv'
    <3>1. claims' = claims
      BY <2>3 DEF PushNew
    <3> QED
      BY <1>0, <2>2, <2>3, <3>1, PushNewStep DEF IInv
  <2>4. ASSUME NEW p \in Producers, PushTear(p)
        PROVE  IInv'
    BY <1>0, <2>2, <2>4, PushTearStep DEF IInv
  <2>5. ASSUME NEW p \in Producers, PushBind(p)
        PROVE  IInv'
    <3>1. claims' = claims
      BY <2>5 DEF PushBind
    <3> QED
      BY <1>0, <2>2, <2>5, <3>1, PushBindStep DEF IInv
  <2>6. CASE PopRead
    <3>1. claims' = claims
      BY <2>6 DEF PopRead, PopReadUnchecked
    <3> QED
      BY <1>0, <2>2, <2>6, <3>1, PopReadStep DEF IInv
  <2>7. CASE PopDelete
    BY <1>0, <2>2, <2>7, PopDeleteStep DEF IInv
  <2>8. CASE PopMove
    <3>1. claims' = claims
      BY <2>8 DEF PopMove
    <3> QED
      BY <1>0, <2>2, <2>8, <3>1, PopMoveStep DEF IInv
  <2>9. CASE DestroyBegin
    <3>1. claims' = claims
      BY <2>9 DEF DestroyBegin
    <3> QED
      BY <1>0, <2>2, <2>9, <3>1, DestroyBeginStep DEF IInv
  <2>10. CASE DestroyNext
    BY <1>0, <2>2, <2>10, DestroyNextStep DEF IInv
  <2>11. CASE DestroyLast
    BY <1>0, <2>2, <2>11, DestroyLastStep DEF IInv
  <2>12. CASE Terminating
    BY <1>1, <2>12 DEF Terminating
  <2> QED
    BY <1>3, <2>3, <2>4, <2>5, <2>6, <2>7, <2>8, <2>9, <2>10, <2>11, <2>12
    DEF Next, Finish, Pop, Destroy
<1> QED
  BY <1>1, <1>2, <1>3

(* The two ends are nodes, and every link leads to a node or nowhere        *)
(* (scmp_queue.h:32-104).                                                   *)
THEOREM TypeCorrect == Spec => []TypeOK
<1>1. IInv => TypeOK
  BY DEF IInv
<1> QED
  BY InitIInv, NextIInv, <1>1, PTL DEF Spec

-----------------------------------------------------------------------------
(* Safety *)

LEMMA HeapIsSoundNow == IInv => HeapSound
<1> SUFFICES ASSUME IInv
             PROVE  HeapSound
  OBVIOUS
<1>0. TypeOK /\ PushInv /\ ClaimInv /\ MemoryInv
  BY DEF IInv
<1>1. NoGarbage
  BY <1>0 DEF MemoryInv, NoGarbage, Live, Tearing
<1>2. CASE Gone
  <2>1. \A p \in Producers : pc[p] = "idle"
    BY <1>0, <1>2 DEF Gone, Live, PushInv
  <2> QED
    BY <1>1, <1>2, <2>1 DEF HeapSound, NoUseAfterFree, AccessesOrdered, Gone
<1>3. CASE ~Gone
  <2>1. PICK b \in 0 .. Len(claims) : \E nd \in Numbering : ListInv(nd, b)
    BY <1>3 DEF IInv
  <2>2. PICK nd \in Numbering : ListInv(nd, b)
    BY <2>1
  <2>3. Chain(nd, b) /\ Links(nd, b) /\ Order(nd, b)
    BY <2>2 DEF ListInv
  <2>4. /\ b \in Nat /\ Len(claims) \in Nat /\ b \in b .. Len(claims)
        /\ \A i \in b .. Len(claims) : nd[i] \in Nodes /\ nd[i] \in alive
        /\ \A i \in b .. Len(claims) - 1 : i \in b .. Len(claims) /\ i + 1 \in b .. Len(claims)
        /\ \A p \in Tearing : node[p] \in alive
        /\ head \in alive /\ tail \in alive
    BY <1>0, <2>3, ListFacts
  <2>5. pc[Consumer] = "delete" => first \in alive \ {head}
    <3> SUFFICES ASSUME pc[Consumer] = "delete"
                 PROVE  first \in alive \ {head}
      OBVIOUS
    <3>1. b < Len(claims) /\ first = nd[b + 1]
      BY <2>3 DEF Links
    <3>2. b + 1 \in b .. Len(claims) /\ b + 1 # b
      BY <2>4, <3>1
    <3> QED
      BY <2>3, <2>4, <3>1, <3>2 DEF Chain
  <2>6. ASSUME NEW p \in Producers, pc[p] = "bind"
        PROVE  /\ {node[p], old[p]} \subseteq alive
               /\ next[old[p]] = NoNode
               /\ \A q \in Producers \ {p} : pc[q] = "bind" => old[q] # old[p]
    <3>1. PICK i \in b .. Len(claims) - 1 :
            claims[i + 1] = NextElement(p) /\ node[p] = nd[i + 1] /\ old[p] = nd[i]
      BY <2>3, <2>6 DEF Links
    <3>2. NextElement(p) \in Unbound
      BY <2>6 DEF Unbound
    <3>3. next[old[p]] = NoNode
      BY <2>3, <3>1, <3>2 DEF Links
    <3>4. ASSUME NEW q \in Producers \ {p}, pc[q] = "bind", old[q] = old[p]
          PROVE  FALSE
      <4>1. PICK j \in b .. Len(claims) - 1 : claims[j + 1] = NextElement(q) /\ old[q] = nd[j]
        BY <2>3, <3>4 DEF Links
      <4>2. i = j
        BY <2>3, <2>4, <3>1, <3>4, <4>1 DEF Chain
      <4> QED
        BY <1>0, <3>1, <4>1, <4>2, ElementFacts
    <3> QED
      BY <2>4, <3>1, <3>3, <3>4
  <2>7. NoUseAfterFree
    BY <2>4, <2>5, <2>6 DEF NoUseAfterFree, Tearing
  <2>8. AccessesOrdered
    <3>1. CASE Live
      BY <2>3, <2>4, <3>1, NodeFacts DEF Order, AccessesOrdered, TypeOK, Node
    <3>2. CASE ~Live
      BY <1>0, <3>2 DEF AccessesOrdered, Live, PushInv
    <3> QED
      BY <3>1, <3>2
  <2> QED
    BY <1>1, <2>7, <2>8 DEF HeapSound
<1> QED
  BY <1>2, <1>3

(* No thread uses a deleted node, even one whose address is in use again;   *)
(* nothing is left behind; and the memory orders of TEAR, BIND and READ     *)
(* suffice, for any number of producers (scmp_queue.h:36-100).              *)
THEOREM HeapIsSound == Spec => []HeapSound
  BY InitIInv, NextIInv, HeapIsSoundNow, PTL DEF Spec

LEMMA LineFacts ==
  ASSUME IInv, ~Gone
  PROVE  /\ Line = Rest(claims, Len(received))
         /\ claims \in Seq(Elements) /\ Len(received) \in 0 .. Len(claims)
         /\ Line \in Seq(Elements) /\ Len(Line) = Len(claims) - Len(received)
         /\ \A i \in 1 .. Len(Line) : Line[i] = claims[Len(received) + i]
<1>1. claims \in Seq(Elements) /\ Len(received) \in Nat /\ Len(claims) \in Nat
  BY DEF IInv, TypeOK
<1>2. PICK b \in 0 .. Len(claims) : \E nd \in Numbering : ListInv(nd, b)
  BY DEF IInv
<1>3. Len(received) <= b
  BY <1>2 DEF ListInv, Chain
<1>4. Len(received) \in 0 .. Len(claims)
  BY <1>1, <1>3
<1>5. Line = Rest(claims, Len(received))
  BY DEF Line, Rest
<1> QED
  BY <1>1, <1>4, <1>5, RestFacts

LEMMA RejectedNow == IInv => RejectedOnlyAtGap
<1> SUFFICES ASSUME IInv, pc[Consumer] = "idle"
             PROVE  next[head] = NoNode <=> Line = << >> \/ Head(Line) \in Unbound
  BY DEF RejectedOnlyAtGap
<1>0. TypeOK /\ PushInv /\ ~Gone /\ Live
  BY DEF IInv, Gone, Live
<1>1. PICK b \in 0 .. Len(claims) : \E nd \in Numbering : ListInv(nd, b)
  BY <1>0 DEF IInv
<1>2. PICK nd \in Numbering : ListInv(nd, b)
  BY <1>1
<1>3. b = Len(received) /\ b \in Nat /\ Len(claims) \in Nat /\ b <= Len(claims)
  BY <1>0, <1>2, ListFacts DEF ListInv, Chain, Popped, TypeOK
<1>4. /\ Line = Rest(claims, b) /\ claims \in Seq(Elements)
      /\ Line \in Seq(Elements) /\ Len(Line) = Len(claims) - b
  BY <1>0, <1>3, LineFacts
<1>5. Line = << >> <=> b = Len(claims)
  BY <1>3, <1>4, EmptySeq
<1>6. b < Len(claims) => Head(Line) = claims[b + 1]
  <2> SUFFICES ASSUME b < Len(claims)
               PROVE  Head(Line) = claims[b + 1]
    OBVIOUS
  <2>1. b \in 0 .. Len(claims) - 1
    BY <1>3
  <2> QED
    BY <1>4, <2>1, RestTail
<1>7. next[head] # NoNode => b < Len(claims) /\ claims[b + 1] \notin Unbound
  BY <1>0, <1>2, HeadLink
<1>8. next[head] = NoNode => b = Len(claims) \/ claims[b + 1] \in Unbound
  BY <1>0, <1>2, HeadLink
<1>9. CASE b = Len(claims)
  BY <1>5, <1>7, <1>9
<1>10. CASE b < Len(claims)
  BY <1>5, <1>6, <1>7, <1>8, <1>10
<1> QED
  BY <1>3, <1>9, <1>10

(* A pop is rejected exactly when the queue is empty or begins with a gap,  *)
(* whatever producers do meanwhile (scmp_queue.h:12-17, 87-100).            *)
THEOREM RejectionsAreJust == Spec => []RejectedOnlyAtGap
  BY InitIInv, NextIInv, RejectedNow, PTL DEF Spec

-----------------------------------------------------------------------------
(* Refinement *)

Ready == {Line[i] : i \in 1 .. Len(Line)} \ Unbound

LEMMA InitRefines == Init => TQ!Init
<1> SUFFICES ASSUME Init
             PROVE  TQ!Init
  OBVIOUS
<1>1. Line = << >> /\ received = << >>
  BY DEF Init, Line
<1>2. {Line[i] : i \in 1 .. Len(Line)} = {}
  BY <1>1
<1> QED
  BY <1>1, <1>2 DEF TQ!Init

(* TEAR gives the element a place in the line: there is an address for it.  *)
LEMMA TearRefines ==
  ASSUME IInv, NEW p \in Producers, PushTear(p)
  PROVE  TQ!Next
<1> DEFINE n == Len(received)
           e == NextElement(p)
<1>0. TypeOK /\ PushInv /\ ClaimInv /\ MemoryInv
  BY DEF IInv
<1>1. /\ pc[p] = "tear" /\ claims' = Append(claims, e) /\ received' = received
      /\ pc' = [pc EXCEPT ![p] = "bind"] /\ pushed' = pushed
  BY DEF PushTear, Goto
<1>2. Live /\ ~Gone /\ e \in Elements /\ p \in Tearing
  <2>1. Live /\ pushed[p] < MaxPush
    BY <1>0, <1>1 DEF PushInv, Live
  <2>2. e \in Elements
    BY <1>0, <2>1, ElementFacts
  <2> QED
    BY <1>1, <2>1, <2>2 DEF Live, Gone, Tearing
<1>3. \A i \in 1 .. Len(claims) : claims[i] # e
  BY <1>0, <1>1, NotClaimed
<1>4. /\ Line = Rest(claims, n)
      /\ claims \in Seq(Elements) /\ n \in 0 .. Len(claims)
      /\ Line \in Seq(Elements) /\ Len(Line) = Len(claims) - n
      /\ \A i \in 1 .. Len(Line) : Line[i] = claims[n + i]
  BY <1>2, LineFacts
<1>5. Unbound' = Unbound \cup {e}
  <2>1. \A q \in Producers : NextElement(q)' = NextElement(q)
    BY <1>1 DEF NextElement
  <2>2. \A q \in Producers : pc'[q] = IF q = p THEN "bind" ELSE pc[q]
    BY <1>0, <1>1 DEF TypeOK, Threads
  <2> QED
    BY <2>1, <2>2 DEF Unbound
<1> HIDE DEF e
<1>6. Line' = Append(Line, e)
  <2>1. Line' = Rest(claims', n)
    BY <1>1 DEF Line, Rest
  <2> HIDE DEF n
  <2>2. Rest(Append(claims, e), n) = Append(Rest(claims, n), e)
    BY <1>2, <1>4, RestAppend
  <2> QED
    BY <1>1, <1>4, <2>1, <2>2
<1>7. e \notin In(Line)
  <2>1. \A i \in 1 .. Len(Line) : n + i \in 1 .. Len(claims)
    BY <1>4
  <2> QED
    BY <1>3, <1>4, <2>1 DEF In
<1>8. Len(Line) < Cardinality(Nodes)
  <2>1. IsFiniteSet(alive) /\ Cardinality(alive) <= Cardinality(Nodes) /\ IsFiniteSet(Tearing)
    BY <1>0, ConstantsAssumption, FS_Subset DEF TypeOK, Tearing
  <2>2. Cardinality(Tearing) \in Nat /\ Cardinality(Tearing) # 0 /\ Cardinality(Nodes) \in Nat
    BY <1>2, <2>1, ConstantsAssumption, FS_CardinalityType, FS_EmptySet
  <2>3. Cardinality(alive) = 1 + (Len(claims) - Popped) + Cardinality(Tearing)
    BY <1>0, <1>2 DEF MemoryInv
  <2>4. Popped = n \/ Popped = n + 1
    BY <1>0 DEF Popped, TypeOK
  <2>5. n \in Nat /\ Len(claims) \in Nat
    BY <1>4
  <2> HIDE DEF n
  <2> QED
    BY <1>4, <2>1, <2>2, <2>3, <2>4, <2>5
<1>9. Ready' = Ready
  <2>1. In(Line') = In(Line) \cup {e}
    BY <1>2, <1>4, <1>6, InAppend
  <2>2. Ready = In(Line) \ Unbound /\ Ready' = In(Line') \ Unbound'
    BY DEF Ready, In
  <2> QED
    BY <1>5, <1>7, <2>1, <2>2
<1>10. TQ!Claim(e)
  BY <1>1, <1>6, <1>7, <1>8, <1>9 DEF TQ!Claim, TQ!InLine, In, Ready
<1> QED
  BY <1>2, <1>10 DEF TQ!Next

(* BIND publishes it.                                                       *)
LEMMA BindRefines ==
  ASSUME IInv, NEW p \in Producers, PushBind(p)
  PROVE  TQ!Next
<1> DEFINE n == Len(received)
           e == NextElement(p)
<1>0. TypeOK /\ PushInv /\ ClaimInv
  BY DEF IInv
<1>1. pc[p] = "bind" /\ claims' = claims /\ received' = received
  BY DEF PushBind
<1>2. ~Gone /\ e \in Elements
  <2>1. Live /\ pushed[p] < MaxPush
    BY <1>0, <1>1 DEF PushInv, Live
  <2>2. e \in Elements
    BY <1>0, <2>1, ElementFacts
  <2> QED
    BY <2>1, <2>2 DEF Live, Gone
<1>3. Unbound' = Unbound \ {e} /\ e \in Unbound
  BY <1>0, BindUnbound
<1>4. /\ n \in 0 .. Len(claims) /\ Len(claims) \in Nat /\ Len(Line) = Len(claims) - n
      /\ \A i \in 1 .. Len(Line) : Line[i] = claims[n + i]
  BY <1>2, LineFacts
<1>5. e \in In(Line)
  <2>1. PICK b \in 0 .. Len(claims) : \E nd \in Numbering : ListInv(nd, b)
    BY <1>2 DEF IInv
  <2>2. PICK nd \in Numbering : ListInv(nd, b)
    BY <2>1
  <2>3. PICK g \in b .. Len(claims) - 1 : claims[g + 1] = e
    BY <1>1, <2>2 DEF ListInv, Links
  <2>4. n <= b
    BY <2>2 DEF ListInv, Chain
  <2> HIDE DEF n, e
  <2>5. (g + 1) - n \in 1 .. Len(Line) /\ n + ((g + 1) - n) = g + 1
    BY <1>4, <2>1, <2>3, <2>4
  <2>6. Line[(g + 1) - n] = e
    BY <1>4, <2>3, <2>5
  <2> QED
    BY <2>5, <2>6 DEF In
<1> HIDE DEF e
<1>6. Line' = Line
  BY <1>1 DEF Line
<1>7. Ready' = Ready \cup {e} /\ e \notin Ready
  <2>1. Ready = In(Line) \ Unbound /\ Ready' = In(Line') \ Unbound'
    BY DEF Ready, In
  <2> QED
    BY <1>3, <1>5, <1>6, <2>1
<1>8. TQ!Publish(e)
  BY <1>1, <1>5, <1>6, <1>7 DEF TQ!Publish, TQ!InLine, In, Ready
<1>9. \E x \in Elements : TQ!Publish(x)
  BY <1>2, <1>8 DEF TQ!Publish, TQ!InLine
<1> QED
  BY <1>9, Zenon DEF TQ!Next

(* The consumer moves out the data of the first element of the line.        *)
LEMMA MoveRefines ==
  ASSUME IInv, PopMove
  PROVE  TQ!Take
<1> DEFINE n == Len(received)
<1>0. TypeOK /\ PushInv /\ ClaimInv
  BY DEF IInv
<1>1. /\ pc[Consumer] = "move" /\ claims' = claims /\ received' = Append(received, data[head])
      /\ data[head] \in Elements \cup {NoData}
      /\ Goto(Consumer, "idle") /\ pushed' = pushed
  BY <1>0 DEF PopMove, TypeOK
<1>2. ~Gone /\ Live
  BY <1>1 DEF Gone, Live
<1>3. PICK b \in 0 .. Len(claims) : \E nd \in Numbering : ListInv(nd, b)
  BY <1>2 DEF IInv
<1>4. PICK nd \in Numbering : ListInv(nd, b)
  BY <1>3
<1>5. Chain(nd, b) /\ Links(nd, b)
  BY <1>4 DEF ListInv
<1>6. /\ Line = Rest(claims, n)
      /\ claims \in Seq(Elements) /\ n \in 0 .. Len(claims)
      /\ Line \in Seq(Elements)
  BY <1>2, LineFacts
<1>7. b = n + 1 /\ n \in 0 .. Len(claims) - 1 /\ n \in Nat /\ b \in b .. Len(claims)
      /\ b \in 1 .. Len(claims) /\ b > n
  <2>1. b = n + 1
    BY <1>1, <1>2, <1>5 DEF Chain, Popped
  <2> QED
    BY <1>3, <1>6, <2>1
<1>8. data[head] = claims[b]
  BY <1>5, <1>7 DEF Chain, Links
<1>9. Line # << >> /\ Head(Line) = claims[b] /\ Tail(Line) = Rest(claims, n + 1)
  BY <1>6, <1>7, RestTail
<1>10. claims[b] \notin Unbound
  <2> SUFFICES ASSUME NEW p \in Producers, pc[p] = "bind", claims[b] = NextElement(p)
               PROVE  FALSE
    BY DEF Unbound
  <2>1. PICK g \in b .. Len(claims) - 1 : claims[g + 1] = NextElement(p)
    BY <1>5 DEF Links
  <2>2. g + 1 \in 1 .. Len(claims) /\ g + 1 # b
    BY <1>7
  <2> QED
    BY <1>0, <1>7, <2>1, <2>2 DEF ClaimInv
<1>11. Len(received') = n + 1
  BY <1>0, <1>1, AppendProperties DEF TypeOK
<1>12. Line' = Tail(Line)
  BY <1>1, <1>9, <1>11 DEF Line, Rest
<1>13. Unbound' = Unbound
  BY <1>0, <1>1, ConstantsAssumption DEF Unbound, Goto, NextElement, TypeOK, Threads
<1>14. In(Tail(Line)) = In(Line) \ {Head(Line)} /\ Head(Line) \in In(Line)
  <2>1. \A i, j \in 1 .. Len(Line) : Line[i] = Line[j] => i = j
    BY <1>0, <1>6, RestInjective DEF ClaimInv
  <2> QED
    BY <1>6, <1>9, <2>1, InTail
<1>15. Ready = In(Line) \ Unbound /\ Ready' = In(Line') \ Unbound'
  BY DEF Ready, In
<1>16. Ready' = Ready \ {Head(Line)} /\ Head(Line) \in Ready
  BY <1>9, <1>10, <1>12, <1>13, <1>14, <1>15
<1> QED
  BY <1>1, <1>8, <1>9, <1>12, <1>16 DEF TQ!Take, Ready

LEMMA NextRefines == IInv /\ [Next]_vars => [TQ!Next]_(TQ!vars)
<1> SUFFICES ASSUME IInv, [Next]_vars
             PROVE  [TQ!Next]_(TQ!vars)
  OBVIOUS
<1>0. TypeOK /\ PushInv
  BY DEF IInv
(* The line changes with the elements claimed, received and unbound only.   *)
<1>1. ASSUME UNCHANGED <<claims, received, pushed>>,
             \A p \in Producers : pc'[p] = "bind" <=> pc[p] = "bind"
      PROVE  UNCHANGED TQ!vars
  <2>1. Line' = Line
    BY <1>1 DEF Line
  <2>2. Unbound' = Unbound
    BY <1>1 DEF Unbound, NextElement
  <2> QED
    BY <1>1, <2>1, <2>2 DEF TQ!vars
<1>2. ASSUME NEW p \in Producers, PushNew(p)
      PROVE  UNCHANGED TQ!vars
  BY <1>0, <1>1, <1>2 DEF PushNew, Goto, TypeOK, Threads
<1>3. ASSUME NEW p \in Producers, PushTear(p)
      PROVE  TQ!Next
  BY <1>3, TearRefines
<1>4. ASSUME NEW p \in Producers, PushBind(p)
      PROVE  TQ!Next
  BY <1>4, BindRefines
<1>5. CASE PopMove
  BY <1>5, MoveRefines DEF TQ!Next
<1>6. CASE PopRead \/ PopDelete \/ DestroyBegin \/ DestroyLast
  <2>1. \A label : Goto(Consumer, label) => \A p \in Producers : pc'[p] = pc[p]
    BY <1>0, ConstantsAssumption DEF Goto, TypeOK, Threads
  <2>2. \A p \in Producers : pc'[p] = pc[p]
    BY <1>6, <2>1 DEF PopRead, PopReadUnchecked, PopDelete, DestroyBegin, DestroyLast
  <2>3. UNCHANGED <<claims, received, pushed>>
    BY <1>6 DEF PopRead, PopReadUnchecked, PopDelete, DestroyBegin, DestroyLast
  <2> QED
    BY <1>1, <2>2, <2>3
<1>7. CASE DestroyNext
  BY <1>1, <1>7 DEF DestroyNext
<1>8. CASE UNCHANGED vars
  BY <1>1, <1>8 DEF vars
<1> QED
  BY <1>2, <1>3, <1>4, <1>5, <1>6, <1>7, <1>8 DEF Next, Finish, Pop, Destroy, Terminating

(* Elements leave in the order of TEAR, each once, with the data they were  *)
(* pushed with, and none overtakes one that is not bound                    *)
(* (scmp_queue.h:42-100).                                                   *)
THEOREM QueueImplementsTicketQueue == Spec => ImplementsTicketQueue
<1>1. Spec => []IInv
  BY InitIInv, NextIInv, PTL DEF Spec
<1> QED
  BY <1>1, InitRefines, NextRefines, PTL DEF Spec, ImplementsTicketQueue, TQ!Spec
=============================================================================
