---------------------------- MODULE ScmrPoolProofs ----------------------------
(***************************************************************************)
(* Theorems about ScmrPool, for any finite set of releasers and any        *)
(* numbers of nodes:                                                       *)
(*                                                                         *)
(*   TypeCorrect                the pool's variables keep their types      *)
(*   NodesAreIntact             no node is lost, lent or released twice;   *)
(*                              the line can be walked; no access races    *)
(*   PoolImplementsElementPool  each element is lent to one user at a time *)
(*                              and comes back in the order of releases    *)
(*                                                                         *)
(* NodesIntact counts the nodes and says where the line has gaps.  For a   *)
(* step to keep that, nodes must have one place only, and each gap its own *)
(* thread; and for the accesses to be ordered, head_ and the links must    *)
(* carry what the thread that finds a node there has to know of it.        *)
(***************************************************************************)
EXTENDS ScmrPool, FiniteSetTheorems, SequenceTheorems, TLAPS

-----------------------------------------------------------------------------
(* The inductive invariant *)

Live == pc[Consumer] \notin {"destroy", "gone"}

Listed == {order[i] : i \in 1 .. Len(order)}
Out    == {holder[t] : t \in Held} \cup {node[t] : t \in Moving}

(* Every node has one place only.                                           *)
PlaceInv ==
  /\ \A i, j \in 1 .. Len(order) : order[i] = order[j] => i = j
  /\ \A t, u \in Held : holder[t] = holder[u] => t = u
  /\ \A t \in Moving : node[t] \in Nodes
  /\ \A t, u \in Moving : node[t] = node[u] => t = u
  /\ \A t \in Held, u \in Moving : holder[t] # node[u]
  /\ Listed \cap Out = {}

(* Who is about to link closes a gap of the line that is nobody else's.     *)
LinkInv ==
  /\ \A t \in Threads : pc[t] = "link" =>
       \E i \in 1 .. Len(order) - 1 :
         old[t] = order[i] /\ node[t] = order[i + 1] /\ next[order[i]] = NoNode
  /\ \A t, u \in Threads : pc[t] = "link" /\ pc[u] = "link" /\ old[t] = old[u] => t = u

(* The separator remains until the end, when nobody uses the pool.          *)
EndInv ==
  /\ order = << >> <=> pc[Consumer] = "gone"
  /\ ~Live => \A t \in Threads : holder[t] = NoNode /\ (t # Consumer => pc[t] = "idle")

(* Nodes are allocated one after the other, each with an element of its own. *)
AliveInv ==
  Live => \E k \in 1 .. NodeCount : alive = 1 .. k /\ \A n \in Nodes : data[n] < k

(* The nodes with an element.  The separator has one while pop moves it.    *)
Carriers ==
  {order[i] : i \in 2 .. Len(order)}
    \cup {holder[t] : t \in Held}
    \cup {IF pc[t] = "move" THEN tail ELSE node[t] : t \in Moving}

DataInv ==
  /\ \A n \in Carriers : data[n] \in Elements
  /\ \A m, n \in Carriers : data[m] = data[n] => m = n

(* What each thread has seen of the nodes it has, and what head_ and the    *)
(* links carry.                                                             *)
OrderInv ==
  Live =>
    /\ DataOf(tail) \in seen[Consumer]
    /\ \A t \in Held : {DataOf(holder[t]), LinkOf(holder[t])} \subseteq seen[t]
    /\ \A t \in Moving : {DataOf(node[t]), LinkOf(node[t])} \subseteq seen[t]
    /\ \A t \in Threads : pc[t] = "link" => {DataOf(node[t]), LinkOf(old[t])} \subseteq seen[t]
    /\ \/ LinkOf(head) \in rel[HeadAtomic]
       \/ \A t \in Threads : LinkOf(head) \in seen[t]
    /\ \A i \in 1 .. Len(order) - 1 :
         next[order[i]] # NoNode =>
           DataOf(order[i + 1]) \in rel[LinkOf(order[i])] \cup seen[Consumer]

Placed == TypeOK /\ NodesConserved /\ LineIntact /\ PlaceInv /\ LinkInv /\ EndInv

IInv == Placed /\ AliveInv /\ DataInv /\ OrderInv

-----------------------------------------------------------------------------
(* Where the nodes are *)

LEMMA Constants ==
  /\ NodeCount \in Nat \ {0} /\ InitCount \in Nat /\ InitCount < NodeCount
  /\ Nodes = 1 .. NodeCount /\ NoNode = 0 /\ NoNode \notin Nodes /\ NoData = 0
  /\ Elements = 1 .. NodeCount - 1
  /\ Consumer \in Threads /\ Consumer \notin Releasers /\ Releasers \subseteq Threads
  /\ IsFiniteSet(Threads)
<1>1. IsFiniteSet(Threads)
  BY ConstantsAssumption, FS_AddElement DEF Threads
<1> QED
  BY <1>1, ConstantsAssumption DEF Threads, Nodes, NoNode, NoData, Elements

(* What the line is made of.                                                *)
LEMMA LineFacts ==
  ASSUME TypeOK, NodesConserved, LineIntact, PlaceInv, EndInv, pc[Consumer] # "gone"
  PROVE  /\ Len(order) \in Nat \ {0}
         /\ \A i \in 1 .. Len(order) : order[i] \in Nodes /\ order[i] \in alive
         /\ order[1] = tail /\ order[Len(order)] = head
         /\ tail \in alive /\ head \in alive /\ next[head] = NoNode
         /\ next[tail] # NoNode => Len(order) > 1 /\ next[tail] = order[2]
<1>1. Len(order) \in Nat \ {0} /\ order # << >> /\ order \in Seq(Nodes)
  BY EmptySeq DEF TypeOK, EndInv
<1>2. \A i \in 1 .. Len(order) : order[i] \in Nodes /\ order[i] \in alive
  BY <1>1 DEF NodesConserved
<1>3. order[1] = tail /\ order[Len(order)] = head
  BY <1>1 DEF LineIntact
<1>4. tail \in alive /\ head \in alive /\ next[head] = NoNode
  BY <1>1, <1>2, <1>3 DEF LineIntact
<1>5. ASSUME next[tail] # NoNode
      PROVE  Len(order) > 1 /\ next[tail] = order[2]
  <2>1. Len(order) # 1
    BY <1>3, <1>4, <1>5
  <2>2. 1 \in 1 .. Len(order) - 1 /\ Len(order) > 1 /\ 1 + 1 = 2
    <3> DEFINE k == Len(order)
    <3>1. k \in Nat \ {0} /\ k # 1
      BY <1>1, <2>1
    <3> HIDE DEF k
    <3>2. 1 \in 1 .. k - 1 /\ k > 1 /\ 1 + 1 = 2
      BY <3>1
    <3> QED
      BY <3>2 DEF k
  <2>3. next[order[1]] = order[1 + 1]
    BY <1>3, <1>5, <2>2 DEF LineIntact
  <2> QED
    BY <1>3, <2>2, <2>3
<1> QED
  BY <1>1, <1>2, <1>3, <1>4, <1>5

(* A holder variable gets a node n that has no other place, or none, and    *)
(* what it held before is to be pushed.                                     *)
LEMMA AssignPlaces ==
  ASSUME TypeOK, PlaceInv, NEW t \in Threads, pc[t] \in {"idle", "move"},
         NEW n \in Nodes \cup {NoNode}, Assign(t, n), order' = order,
         pc[t] = "move" => n = node[t],
         pc[t] = "idle" => n \notin Listed \cup Out
  PROVE  /\ PlaceInv'
         /\ Listed' = Listed /\ Out' = Out \cup ({n} \ {NoNode})
         /\ Cardinality(Held') + Cardinality(Moving') =
              Cardinality(Held) + Cardinality(Moving)
                + (IF n = NoNode \/ pc[t] = "move" THEN 0 ELSE 1)
<1> DEFINE h == holder[t]
<1>1. /\ holder' \in [Threads -> Nodes \cup {NoNode}]
      /\ \A u \in Threads : holder'[u] = IF u = t THEN n ELSE holder[u]
      /\ \A u \in Threads : node'[u] = IF u = t THEN h ELSE node[u]
      /\ \A u \in Threads : u # t => pc'[u] = pc[u]
      /\ pc'[t] = IF h = NoNode THEN "idle" ELSE "exchange"
  BY DEF TypeOK, Assign, Goto
<1>2. /\ Held \subseteq Threads /\ Moving \subseteq Threads
      /\ Held' = IF n = NoNode THEN Held \ {t} ELSE Held \cup {t}
      /\ Moving' = IF h = NoNode THEN Moving \ {t} ELSE Moving \cup {t}
      /\ t \in Held <=> h # NoNode
      /\ t \in Moving <=> pc[t] = "move"
  BY <1>1 DEF Held, Moving
<1>3. /\ n # NoNode => n \in Nodes
      /\ h \in Nodes \cup {NoNode} /\ NoNode \notin Nodes
      /\ n # NoNode => n \notin Listed
      /\ n # NoNode => \A u \in Held : holder[u] # n
      /\ n # NoNode => \A u \in Moving \ {t} : node[u] # n
      /\ h # NoNode => h \notin Listed /\ \A u \in Moving : node[u] # h
      /\ h # NoNode => h # n
  BY <1>2, Constants DEF PlaceInv, TypeOK, Out
<1>4. Listed' = Listed
  BY DEF Listed
<1> HIDE DEF h
<1>5. PlaceInv'
  <2>1. \A u, v \in Held' : holder'[u] = holder'[v] => u = v
    BY <1>1, <1>2, <1>3 DEF PlaceInv
  <2>2. \A u \in Moving' : node'[u] \in Nodes
    BY <1>1, <1>2, <1>3 DEF PlaceInv
  <2>3. \A u, v \in Moving' : node'[u] = node'[v] => u = v
    BY <1>1, <1>2, <1>3 DEF PlaceInv
  <2>4. \A u \in Held', v \in Moving' : holder'[u] # node'[v]
    <3> SUFFICES ASSUME NEW u \in Held', NEW v \in Moving', holder'[u] = node'[v]
                 PROVE  FALSE
      OBVIOUS
    <3>1. CASE u = t
      BY <1>1, <1>2, <1>3, <3>1
    <3>2. CASE u # t /\ v = t
      <4>1. u \in Held /\ t \in Held /\ holder[u] = holder[t]
        BY <1>1, <1>2, <3>2 DEF h
      <4> QED
        BY <3>2, <4>1 DEF PlaceInv
    <3>3. CASE u # t /\ v # t
      BY <1>1, <1>2, <3>3 DEF PlaceInv
    <3> QED
      BY <3>1, <3>2, <3>3
  <2>5. Listed' \cap Out' = {}
    <3>1. \A u \in Held' : holder'[u] \notin Listed
      BY <1>1, <1>2, <1>3 DEF PlaceInv, Out
    <3>2. \A u \in Moving' : node'[u] \notin Listed
      BY <1>1, <1>2, <1>3 DEF PlaceInv, Out
    <3> QED
      BY <1>4, <3>1, <3>2 DEF Out
  <2>6. \A i, j \in 1 .. Len(order') : order'[i] = order'[j] => i = j
    BY DEF PlaceInv
  <2> QED
    BY <2>1, <2>2, <2>3, <2>4, <2>5, <2>6 DEF PlaceInv
<1>6. Out' = Out \cup ({n} \ {NoNode})
  <2>1. ASSUME NEW m \in Out'
        PROVE  m \in Out \cup ({n} \ {NoNode})
    <3>1. CASE \E u \in Held' : m = holder'[u]
      BY <1>1, <1>2, <3>1 DEF Out
    <3>2. CASE \E u \in Moving' : m = node'[u]
      <4>1. PICK u \in Moving' : m = node'[u]
        BY <3>2
      <4>2. CASE u = t
        BY <1>1, <1>2, <4>1, <4>2 DEF Out, h
      <4>3. CASE u # t
        BY <1>1, <1>2, <4>1, <4>3 DEF Out
      <4> QED
        BY <4>2, <4>3
    <3> QED
      BY <3>1, <3>2 DEF Out
  <2>2. ASSUME NEW m \in Out
        PROVE  m \in Out'
    <3>1. CASE \E u \in Held : m = holder[u]
      <4>1. PICK u \in Held : m = holder[u]
        BY <3>1
      <4>2. CASE u = t
        <5>1. t \in Moving' /\ node'[t] = m
          BY <1>1, <1>2, <4>1, <4>2 DEF h
        <5> QED
          BY <5>1 DEF Out
      <4>3. CASE u # t
        BY <1>1, <1>2, <4>1, <4>3 DEF Out
      <4> QED
        BY <4>2, <4>3
    <3>2. CASE \E u \in Moving : m = node[u]
      <4>1. PICK u \in Moving : m = node[u]
        BY <3>2
      <4>2. CASE u = t
        <5>1. m = n /\ n # NoNode
          BY <1>2, <4>1, <4>2, Constants DEF PlaceInv
        <5>2. t \in Held' /\ holder'[t] = m
          BY <1>1, <1>2, <5>1
        <5> QED
          BY <5>2 DEF Out
      <4>3. CASE u # t
        BY <1>1, <1>2, <4>1, <4>3 DEF Out
      <4> QED
        BY <4>2, <4>3
    <3> QED
      BY <3>1, <3>2 DEF Out
  <2>3. n # NoNode => n \in Out'
    BY <1>1, <1>2 DEF Out
  <2> QED
    BY <2>1, <2>2, <2>3
<1>7. Cardinality(Held') + Cardinality(Moving') =
        Cardinality(Held) + Cardinality(Moving)
          + (IF n = NoNode \/ pc[t] = "move" THEN 0 ELSE 1)
  <2>1. /\ IsFiniteSet(Held) /\ IsFiniteSet(Moving)
        /\ Cardinality(Held) \in Nat /\ Cardinality(Moving) \in Nat
    BY <1>2, Constants, FS_Subset, FS_CardinalityType
  <2>2. /\ Cardinality(Held \cup {t}) =
             IF t \in Held THEN Cardinality(Held) ELSE Cardinality(Held) + 1
        /\ Cardinality(Held \ {t}) = IF t \in Held THEN Cardinality(Held) - 1 ELSE Cardinality(Held)
    BY <2>1, FS_AddElement, FS_RemoveElement
  <2>3. /\ Cardinality(Moving \cup {t}) =
             IF t \in Moving THEN Cardinality(Moving) ELSE Cardinality(Moving) + 1
        /\ Cardinality(Moving \ {t}) =
             IF t \in Moving THEN Cardinality(Moving) - 1 ELSE Cardinality(Moving)
    BY <2>1, FS_AddElement, FS_RemoveElement
  <2>4. pc[t] = "move" => n # NoNode
    BY <1>2, Constants DEF PlaceInv
  <2> QED
    BY <1>2, <2>1, <2>2, <2>3, <2>4
<1> QED
  BY <1>4, <1>5, <1>6, <1>7

(* The line is as it was, and who is about to link too.                     *)
LEMMA LineKept ==
  ASSUME NodesConserved, LineIntact, LinkInv, UNCHANGED <<tail, head, order, old>>,
         \A m \in alive : next'[m] = next[m],
         \A m \in alive' \ alive : next'[m] = NoNode,
         \A u \in Threads : pc'[u] = "link" <=> pc[u] = "link",
         \A u \in Threads : pc[u] = "link" => node'[u] = node[u]
  PROVE  LineIntact' /\ LinkInv'
<1>1. \A i \in 1 .. Len(order) : order[i] \in alive
  BY DEF NodesConserved
<1>2. \A i \in 1 .. Len(order) - 1 :
        i \in 1 .. Len(order) /\ next'[order[i]] = next[order[i]]
  <2>1. \A i \in 1 .. Len(order) - 1 : i \in 1 .. Len(order)
    OBVIOUS
  <2> QED
    BY <1>1, <2>1
<1>3. ASSUME NEW i \in 1 .. Len(order') - 1
      PROVE  \/ next'[order'[i]] = order'[i + 1]
             \/ /\ next'[order'[i]] = NoNode
                /\ \E t \in Threads :
                     pc'[t] = "link" /\ old'[t] = order'[i] /\ node'[t] = order'[i + 1]
  BY <1>2 DEF LineIntact
<1>4. \A n \in alive' :
        n = head \/ (\A i \in 1 .. Len(order) : order[i] # n) => next'[n] = NoNode
  BY DEF LineIntact
<1>5. LineIntact'
  BY <1>3, <1>4 DEF LineIntact
<1>6. ASSUME NEW t \in Threads, pc'[t] = "link"
      PROVE  \E i \in 1 .. Len(order') - 1 :
               old'[t] = order'[i] /\ node'[t] = order'[i + 1] /\ next'[order'[i]] = NoNode
  <2>1. PICK i \in 1 .. Len(order) - 1 :
          old[t] = order[i] /\ node[t] = order[i + 1] /\ next[order[i]] = NoNode
    BY <1>6 DEF LinkInv
  <2> QED
    BY <1>2, <1>6, <2>1
<1>7. \A t, u \in Threads : pc'[t] = "link" /\ pc'[u] = "link" /\ old'[t] = old'[u] => t = u
  BY DEF LinkInv
<1> QED
  BY <1>5, <1>6, <1>7 DEF LinkInv

(* Those who hold or move nodes can be counted.                             *)
LEMMA HandsFacts ==
  /\ IsFiniteSet(Held) /\ IsFiniteSet(Moving)
  /\ Cardinality(Held) \in Nat /\ Cardinality(Moving) \in Nat
<1>1. Held \subseteq Threads /\ Moving \subseteq Threads
  BY DEF Held, Moving
<1> QED
  BY <1>1, Constants, FS_Subset, FS_CardinalityType

LEMMA PlacesFacts ==
  /\ HeadAtomic \in Atomics
  /\ \A n \in Nodes : /\ LinkOf(n) \in Atomics /\ LinkOf(n) # HeadAtomic
                      /\ LinkOf(n) \in Places /\ DataOf(n) \in Places
  /\ \A m, n \in Nodes : /\ DataOf(m) # LinkOf(n)
                         /\ DataOf(m) = DataOf(n) => m = n
                         /\ LinkOf(m) = LinkOf(n) => m = n
BY Constants DEF HeadAtomic, Atomics, LinkOf, DataOf, Places

(* Who touches a node takes it from the view of the others, and only it.    *)
LEMMA TouchData ==
  ASSUME NEW s \in [Threads -> SUBSET Places], NEW t \in Threads, NEW n \in Nodes
  PROVE  LET w == Touch(s, t, DataOf(n))
         IN  /\ w \in [Threads -> SUBSET Places]
             /\ \A u \in Threads, m \in Nodes :
                  /\ u = t \/ m # n => (DataOf(m) \in s[u] => DataOf(m) \in w[u])
                  /\ LinkOf(m) \in s[u] => LinkOf(m) \in w[u]
             /\ DataOf(n) \in w[t]
<1>1. DataOf(n) \in Places
  BY PlacesFacts
<1> DEFINE w == Touch(s, t, DataOf(n))
<1>2. /\ w \in [Threads -> SUBSET Places]
      /\ \A u \in Threads : w[u] = IF u = t THEN s[u] \cup {DataOf(n)} ELSE s[u] \ {DataOf(n)}
  BY <1>1 DEF Touch
<1> HIDE DEF w
<1>3. \A m \in Nodes : DataOf(n) # LinkOf(m) /\ (m # n => DataOf(m) # DataOf(n))
  BY DEF DataOf, LinkOf
<1>4. DataOf(n) \in w[t]
  BY <1>2
<1>5. ASSUME NEW u \in Threads, NEW m \in Nodes
      PROVE  /\ u = t \/ m # n => (DataOf(m) \in s[u] => DataOf(m) \in w[u])
             /\ LinkOf(m) \in s[u] => LinkOf(m) \in w[u]
  BY <1>2, <1>3
<1> QED
  BY <1>2, <1>4, <1>5 DEF w

LEMMA TouchLink ==
  ASSUME NEW s \in [Threads -> SUBSET Places], NEW t \in Threads, NEW n \in Nodes
  PROVE  LET w == Touch(s, t, LinkOf(n))
         IN  /\ w \in [Threads -> SUBSET Places]
             /\ \A u \in Threads, m \in Nodes :
                  /\ u = t \/ m # n => (LinkOf(m) \in s[u] => LinkOf(m) \in w[u])
                  /\ DataOf(m) \in s[u] => DataOf(m) \in w[u]
             /\ LinkOf(n) \in w[t]
<1>1. LinkOf(n) \in Places
  BY PlacesFacts
<1> DEFINE w == Touch(s, t, LinkOf(n))
<1>2. /\ w \in [Threads -> SUBSET Places]
      /\ \A u \in Threads : w[u] = IF u = t THEN s[u] \cup {LinkOf(n)} ELSE s[u] \ {LinkOf(n)}
  BY <1>1 DEF Touch
<1> HIDE DEF w
<1>3. \A m \in Nodes : LinkOf(n) # DataOf(m) /\ (m # n => LinkOf(m) # LinkOf(n))
  BY DEF DataOf, LinkOf
<1>4. LinkOf(n) \in w[t]
  BY <1>2
<1>5. ASSUME NEW u \in Threads, NEW m \in Nodes
      PROVE  /\ u = t \/ m # n => (LinkOf(m) \in s[u] => LinkOf(m) \in w[u])
             /\ DataOf(m) \in s[u] => DataOf(m) \in w[u]
  BY <1>2, <1>3
<1> QED
  BY <1>2, <1>4, <1>5 DEF w

LEMMA ForgetData ==
  ASSUME NEW r \in [Atomics -> SUBSET Places], NEW n \in Nodes
  PROVE  LET w == Forget(r, DataOf(n))
         IN  /\ w \in [Atomics -> SUBSET Places]
             /\ \A a \in Atomics, m \in Nodes :
                  /\ m # n => (DataOf(m) \in r[a] => DataOf(m) \in w[a])
                  /\ LinkOf(m) \in r[a] => LinkOf(m) \in w[a]
<1> DEFINE w == Forget(r, DataOf(n))
<1>1. /\ w \in [Atomics -> SUBSET Places]
      /\ \A a \in Atomics : w[a] = r[a] \ {DataOf(n)}
  BY DEF Forget
<1> HIDE DEF w
<1>2. \A m \in Nodes : DataOf(n) # LinkOf(m) /\ (m # n => DataOf(m) # DataOf(n))
  BY DEF DataOf, LinkOf
<1>3. \A a \in Atomics, m \in Nodes :
        /\ m # n => (DataOf(m) \in r[a] => DataOf(m) \in w[a])
        /\ LinkOf(m) \in r[a] => LinkOf(m) \in w[a]
  BY <1>1, <1>2
<1> QED
  BY <1>1, <1>3 DEF w

LEMMA ForgetLink ==
  ASSUME NEW r \in [Atomics -> SUBSET Places], NEW n \in Nodes
  PROVE  LET w == Forget(r, LinkOf(n))
         IN  /\ w \in [Atomics -> SUBSET Places]
             /\ \A a \in Atomics, m \in Nodes :
                  /\ m # n => (LinkOf(m) \in r[a] => LinkOf(m) \in w[a])
                  /\ DataOf(m) \in r[a] => DataOf(m) \in w[a]
<1> DEFINE w == Forget(r, LinkOf(n))
<1>1. /\ w \in [Atomics -> SUBSET Places]
      /\ \A a \in Atomics : w[a] = r[a] \ {LinkOf(n)}
  BY DEF Forget
<1> HIDE DEF w
<1>2. \A m \in Nodes : LinkOf(n) # DataOf(m) /\ (m # n => LinkOf(m) # LinkOf(n))
  BY DEF DataOf, LinkOf
<1>3. \A a \in Atomics, m \in Nodes :
        /\ m # n => (LinkOf(m) \in r[a] => LinkOf(m) \in w[a])
        /\ DataOf(m) \in r[a] => DataOf(m) \in w[a]
  BY <1>1, <1>2
<1> QED
  BY <1>1, <1>3 DEF w

(* All that the invariant speaks of is alive.                               *)
LEMMA AliveFacts ==
  ASSUME Placed, Live
  PROVE  /\ \A n \in alive : n \in Nodes
         /\ tail \in alive /\ head \in alive
         /\ \A i \in 1 .. Len(order) : order[i] \in alive
         /\ \A i \in 1 .. Len(order) - 1 : i \in 1 .. Len(order) /\ i + 1 \in 1 .. Len(order)
         /\ \A t \in Held : holder[t] \in alive
         /\ \A t \in Moving : node[t] \in alive
         /\ \A t \in Threads : pc[t] = "link" => node[t] \in alive /\ old[t] \in alive
         /\ \A t \in Threads : t \in Held <=> holder[t] # NoNode
<1>1. \A i \in 1 .. Len(order) - 1 : i \in 1 .. Len(order) /\ i + 1 \in 1 .. Len(order)
  OBVIOUS
<1>2. tail \in alive /\ head \in alive /\ \A i \in 1 .. Len(order) : order[i] \in alive
  BY LineFacts DEF Placed, Live
<1>3. \A t \in Threads : pc[t] = "link" => node[t] \in alive /\ old[t] \in alive
  BY <1>1, <1>2 DEF Placed, LinkInv
<1> QED
  BY <1>1, <1>2, <1>3 DEF Placed, TypeOK, NodesConserved, Held

(* The nodes with an element, when a holder variable changes.               *)
LEMMA AssignCarriers ==
  ASSUME TypeOK, NEW t \in Threads, pc[t] = "idle",
         NEW n \in Nodes \cup {NoNode}, Assign(t, n), UNCHANGED <<order, tail>>
  PROVE  Carriers' = Carriers \cup ({n} \ {NoNode})
<1> DEFINE h == holder[t]
           L == {order[i] : i \in 2 .. Len(order)}
           Of(u) == IF pc[u] = "move" THEN tail ELSE node[u]
<1>1. /\ \A u \in Threads : holder'[u] = IF u = t THEN n ELSE holder[u]
      /\ \A u \in Threads : node'[u] = IF u = t THEN h ELSE node[u]
      /\ \A u \in Threads : u # t => pc'[u] = pc[u]
      /\ pc'[t] = IF h = NoNode THEN "idle" ELSE "exchange"
  BY DEF TypeOK, Assign, Goto
<1>2. /\ Held \subseteq Threads /\ Moving \subseteq Threads
      /\ Held' = IF n = NoNode THEN Held \ {t} ELSE Held \cup {t}
      /\ Moving' = IF h = NoNode THEN Moving ELSE Moving \cup {t}
      /\ t \in Held <=> h # NoNode
      /\ t \notin Moving
  BY <1>1 DEF Held, Moving
<1>3. Carriers = L \cup {holder[u] : u \in Held} \cup {Of(u) : u \in Moving}
  BY DEF Carriers
<1>4. Carriers' = L \cup {holder'[u] : u \in Held'} \cup {Of(u)' : u \in Moving'}
  BY DEF Carriers
<1>5. \A u \in Threads \ {t} : Of(u)' = Of(u) /\ holder'[u] = holder[u]
  BY <1>1
<1>6. h # NoNode => Of(t)' = h
  BY <1>1
<1>7. {holder'[u] : u \in Held'} = {holder[u] : u \in Held \ {t}} \cup ({n} \ {NoNode})
  BY <1>1, <1>2
<1>8. {Of(u)' : u \in Moving'} = {Of(u) : u \in Moving} \cup ({h} \ {NoNode})
  <2> HIDE DEF Of, h
  <2> QED
    BY <1>2, <1>5, <1>6
<1>9. {holder[u] : u \in Held} = {holder[u] : u \in Held \ {t}} \cup ({h} \ {NoNode})
  BY <1>2
<1> HIDE DEF L, Of, h
<1> QED
  BY <1>3, <1>4, <1>7, <1>8, <1>9

LEMMA CarriersAlive ==
  ASSUME Placed, Live
  PROVE  Carriers \subseteq alive
<1>1. \A i \in 2 .. Len(order) : i \in 1 .. Len(order)
  BY LineFacts DEF Placed, Live
<1>2. Moving \subseteq Threads /\ Held \subseteq Threads
  BY DEF Moving, Held
<1> QED
  BY <1>1, <1>2, AliveFacts DEF Carriers

LEMMA HandsLater ==
  /\ IsFiniteSet(Held') /\ IsFiniteSet(Moving')
  /\ Cardinality(Held') \in Nat /\ Cardinality(Moving') \in Nat
<1>1. Held' \subseteq Threads /\ Moving' \subseteq Threads
  BY DEF Held, Moving
<1> QED
  BY <1>1, Constants, FS_Subset, FS_CardinalityType

-----------------------------------------------------------------------------
(* The steps of holders *)

(* While the pool lives, EndInv only asks for the separator.                *)
LEMMA EndLive ==
  ASSUME EndInv, Live, order' # << >>, Live'
  PROVE  EndInv'
BY DEF EndInv, Live

(* The new node is the next one.                                            *)
LEMMA FreshNode ==
  ASSUME IInv, Live
  PROVE  LET n == Cardinality(alive) + 1
         IN  n \in Nodes =>
               /\ n \notin alive /\ n # NoNode
               /\ alive \cup {n} = 1 .. n
               /\ Cardinality(alive \cup {n}) = Cardinality(alive) + 1
               /\ n - 1 \in Elements
               /\ \A m \in Nodes : data[m] < n - 1
<1>1. PICK k \in 1 .. NodeCount : alive = 1 .. k /\ \A m \in Nodes : data[m] < k
  BY DEF IInv, AliveInv
<1>2. k \in Nat /\ Cardinality(alive) = k /\ IsFiniteSet(alive)
  BY <1>1, Constants, FS_Interval
<1>3. ASSUME k + 1 \in Nodes
      PROVE  /\ k + 1 \notin alive /\ k + 1 # NoNode
             /\ alive \cup {k + 1} = 1 .. k + 1
             /\ k + 1 - 1 \in Elements
             /\ \A m \in Nodes : data[m] < k + 1 - 1
  BY <1>1, <1>2, <1>3, Constants
<1>4. k + 1 \notin alive => Cardinality(alive \cup {k + 1}) = k + 1
  BY <1>2, FS_AddElement
<1> QED
  BY <1>2, <1>3, <1>4

LEMMA CreateStep ==
  ASSUME IInv, NEW t \in Threads, Create(t)
  PROVE  IInv'
<1> DEFINE h == holder[t]
<1>n. PICK n \in Nodes : n = Cardinality(alive) + 1
  BY DEF Create
<1>0. TypeOK /\ NodesConserved /\ LineIntact /\ PlaceInv /\ LinkInv /\ EndInv /\ Placed /\ Live
  BY DEF IInv, Placed, Create, Live
<1>1. /\ pc[t] = "idle" /\ n \in Nodes /\ alive' = alive \cup {n}
      /\ data' = [data EXCEPT ![n] = n - 1] /\ next' = [next EXCEPT ![n] = NoNode]
      /\ seen' = Touch(Touch(seen, t, DataOf(n)), t, LinkOf(n))
      /\ rel' = Forget(Forget(rel, DataOf(n)), LinkOf(n))
      /\ Assign(t, n)
      /\ UNCHANGED <<tail, head, old, order>>
  BY <1>n DEF Create
<1>2. /\ n \notin alive /\ n # NoNode /\ alive \cup {n} = 1 .. n
      /\ Cardinality(alive \cup {n}) = Cardinality(alive) + 1
      /\ n - 1 \in Elements /\ \A m \in Nodes : data[m] < n - 1
  BY <1>0, <1>1, <1>n, FreshNode
<1>3. /\ \A u \in Threads : holder'[u] = IF u = t THEN n ELSE holder[u]
      /\ \A u \in Threads : node'[u] = IF u = t THEN h ELSE node[u]
      /\ \A u \in Threads : u # t => pc'[u] = pc[u]
      /\ pc'[t] = IF h = NoNode THEN "idle" ELSE "exchange"
  BY <1>0, <1>1 DEF TypeOK, Assign, Goto
<1>4. Live' /\ \A u \in Threads : pc'[u] = "link" <=> pc[u] = "link"
  BY <1>0, <1>1, <1>3, Constants DEF Live
<1>5. \A u \in Threads : pc[u] = "link" => node'[u] = node[u]
  BY <1>1, <1>3
<1>6. \A m \in alive : next'[m] = next[m] /\ data'[m] = data[m] /\ m \in Nodes /\ m # n
  BY <1>0, <1>1, <1>2, AliveFacts DEF TypeOK
<1>r. /\ rel' \in [Atomics -> SUBSET Places]
      /\ \A a \in Atomics, m \in alive :
           /\ DataOf(m) \in rel[a] => DataOf(m) \in rel'[a]
           /\ LinkOf(m) \in rel[a] => LinkOf(m) \in rel'[a]
  <2> DEFINE w == Forget(rel, DataOf(n))
  <2>1. /\ w \in [Atomics -> SUBSET Places]
        /\ \A a \in Atomics, m \in Nodes :
             /\ m # n => (DataOf(m) \in rel[a] => DataOf(m) \in w[a])
             /\ LinkOf(m) \in rel[a] => LinkOf(m) \in w[a]
    BY <1>0, <1>1, ForgetData DEF TypeOK
  <2> HIDE DEF w
  <2>2. rel' = Forget(w, LinkOf(n))
    BY <1>1 DEF w
  <2>3. /\ rel' \in [Atomics -> SUBSET Places]
        /\ \A a \in Atomics, m \in Nodes :
             /\ m # n => (LinkOf(m) \in w[a] => LinkOf(m) \in rel'[a])
             /\ DataOf(m) \in w[a] => DataOf(m) \in rel'[a]
    BY <1>1, <2>1, <2>2, ForgetLink
  <2> QED
    BY <1>6, <2>1, <2>3
<1>7. LineIntact' /\ LinkInv'
  <2>1. next'[n] = NoNode
    BY <1>0, <1>1 DEF TypeOK
  <2> QED
    BY <1>0, <1>1, <1>4, <1>5, <1>6, <2>1, LineKept
<1>8. alive = Listed \cup Out
  BY <1>0 DEF NodesConserved, Listed, Out
<1>9. /\ PlaceInv' /\ Listed' = Listed /\ Out' = Out \cup {n}
      /\ Cardinality(Held') + Cardinality(Moving') = Cardinality(Held) + Cardinality(Moving) + 1
  <2>1. n \notin Listed \cup Out
    BY <1>2, <1>8
  <2>2. ({n} \ {NoNode}) = {n}
    BY <1>2
  <2> QED
    BY <1>0, <1>1, <1>2, <2>1, <2>2, AssignPlaces
<1>10. NodesConserved'
  <2>1. alive' = Listed' \cup Out'
    BY <1>1, <1>8, <1>9
  <2>2. /\ Cardinality(Held) \in Nat /\ Cardinality(Moving) \in Nat
        /\ Cardinality(Held') \in Nat /\ Cardinality(Moving') \in Nat
    BY HandsFacts, HandsLater
  <2>3. Len(order) \in Nat /\ Len(order') = Len(order)
    BY <1>0, <1>1 DEF TypeOK
  <2>4. Cardinality(alive') = Len(order') + Cardinality(Held') + Cardinality(Moving')
    <3>1. Cardinality(alive) = Len(order) + Cardinality(Held) + Cardinality(Moving)
      BY <1>0 DEF NodesConserved
    <3>2. Cardinality(alive') = Cardinality(alive) + 1
      BY <1>1, <1>2
    <3> QED
      BY <1>9, <2>2, <2>3, <3>1, <3>2
  <2> QED
    BY <2>1, <2>4 DEF NodesConserved, Listed, Out
<1>11. TypeOK'
  <2>1. seen' \in [Threads -> SUBSET Places]
    <3>1. seen \in [Threads -> SUBSET Places]
      BY <1>0 DEF TypeOK
    <3>2. Touch(seen, t, DataOf(n)) \in [Threads -> SUBSET Places]
      BY <3>1, TouchData
    <3> QED
      BY <1>1, <3>2, TouchLink
  <2>2. data' \in [Nodes -> Elements \cup {NoData}] /\ next' \in [Nodes -> Nodes \cup {NoNode}]
    BY <1>0, <1>1, <1>2 DEF TypeOK
  <2>3. /\ holder' \in [Threads -> Nodes \cup {NoNode}]
        /\ node' \in [Threads -> Nodes \cup {NoNode}]
        /\ pc' \in [Threads -> {"idle", "exchange", "link", "move", "destroy", "gone"}]
        /\ \A r \in Releasers : pc'[r] \in {"idle", "exchange", "link"}
    BY <1>0, <1>1, <1>3, Constants DEF TypeOK, Assign, Goto
  <2> QED
    BY <1>0, <1>1, <1>r, <2>1, <2>2, <2>3 DEF TypeOK
<1>12. EndInv'
  BY <1>0, <1>1, <1>4, EndLive DEF EndInv, Live
<1>13. AliveInv'
  <2>1. n \in 1 .. NodeCount /\ alive' = 1 .. n
    BY <1>1, <1>2, Constants
  <2>2. \A m \in Nodes : data'[m] < n
    <3>1. \A m \in Nodes : data'[m] = IF m = n THEN n - 1 ELSE data[m]
      BY <1>0, <1>1 DEF TypeOK
    <3>2. \A m \in Nodes : data[m] \in Int /\ n \in Int
      BY <1>0, <1>1, Constants DEF TypeOK
    <3> QED
      BY <1>2, <3>1, <3>2
  <2> QED
    BY <2>1, <2>2 DEF AliveInv
<1>14. DataInv'
  <2>1. Carriers' = Carriers \cup {n}
    BY <1>0, <1>1, <1>2, AssignCarriers
  <2>2. \A m \in Carriers : data[m] \in Elements /\ data[m] < n - 1 /\ m \in alive
    <3>1. \A m \in Carriers : m \in alive
      BY <1>0, AliveFacts, CarriersAlive
    <3> QED
      BY <1>2, <1>6, <3>1 DEF IInv, DataInv
  <2>3. data'[n] = n - 1 /\ \A m \in Carriers : data'[m] = data[m]
    BY <1>0, <1>1, <1>6, <2>2 DEF TypeOK
  <2>4. \A m \in Carriers : data[m] # n - 1
    BY <2>2, <1>1, Constants
  <2> QED
    BY <1>2, <2>1, <2>2, <2>3, <2>4 DEF IInv, DataInv
<1>15. OrderInv'
  <2>1. /\ DataOf(n) \in seen'[t] /\ LinkOf(n) \in seen'[t]
        /\ \A u \in Threads, m \in Nodes : u = t \/ m # n =>
             /\ DataOf(m) \in seen[u] => DataOf(m) \in seen'[u]
             /\ LinkOf(m) \in seen[u] => LinkOf(m) \in seen'[u]
    <3> DEFINE w == Touch(seen, t, DataOf(n))
    <3>1. /\ w \in [Threads -> SUBSET Places] /\ DataOf(n) \in w[t]
          /\ \A u \in Threads, m \in Nodes :
               /\ u = t \/ m # n => (DataOf(m) \in seen[u] => DataOf(m) \in w[u])
               /\ LinkOf(m) \in seen[u] => LinkOf(m) \in w[u]
      BY <1>0, TouchData DEF TypeOK
    <3> HIDE DEF w
    <3>2. seen' = Touch(w, t, LinkOf(n))
      BY <1>1 DEF w
    <3>3. /\ LinkOf(n) \in seen'[t]
          /\ \A u \in Threads, m \in Nodes :
               /\ u = t \/ m # n => (LinkOf(m) \in w[u] => LinkOf(m) \in seen'[u])
               /\ DataOf(m) \in w[u] => DataOf(m) \in seen'[u]
      BY <3>1, <3>2, TouchLink
    <3> QED
      BY <3>1, <3>3
  <2>2. \A m \in alive, u \in Threads :
          /\ DataOf(m) \in seen[u] => DataOf(m) \in seen'[u]
          /\ LinkOf(m) \in seen[u] => LinkOf(m) \in seen'[u]
    BY <1>6, <2>1
  <2>3. /\ Held' = Held \cup {t}
        /\ Moving' = IF h = NoNode THEN Moving ELSE Moving \cup {t}
        /\ t \in Held <=> h # NoNode
        /\ Held \subseteq Threads /\ Moving \subseteq Threads /\ t \notin Moving
    BY <1>0, <1>1, <1>2, <1>3 DEF Held, Moving
  <2>4. DataOf(tail) \in seen'[Consumer]
    <3>1. DataOf(tail) \in seen[Consumer] /\ tail \in alive
      BY <1>0, AliveFacts DEF IInv, OrderInv
    <3> QED
      BY <2>2, <3>1, Constants
  <2>5. \A u \in Held' : {DataOf(holder'[u]), LinkOf(holder'[u])} \subseteq seen'[u]
    BY <1>0, <1>3, <2>1, <2>2, <2>3, AliveFacts DEF IInv, OrderInv
  <2>6. \A u \in Moving' : {DataOf(node'[u]), LinkOf(node'[u])} \subseteq seen'[u]
    BY <1>0, <1>3, <2>1, <2>2, <2>3, AliveFacts DEF IInv, OrderInv
  <2>7. \A u \in Threads : pc'[u] = "link" => {DataOf(node'[u]), LinkOf(old'[u])} \subseteq seen'[u]
    BY <1>0, <1>1, <1>4, <1>5, <2>2, AliveFacts DEF IInv, OrderInv
  <2>8. LinkOf(head) \in rel'[HeadAtomic] \/ \A u \in Threads : LinkOf(head) \in seen'[u]
    BY <1>0, <1>r, <2>2, AliveFacts, PlacesFacts DEF IInv, OrderInv
  <2>9. ASSUME NEW i \in 1 .. Len(order) - 1, next'[order[i]] # NoNode
        PROVE  DataOf(order[i + 1]) \in rel'[LinkOf(order[i])] \cup seen'[Consumer]
    <3>1. order[i] \in alive /\ order[i + 1] \in alive
      BY <1>0, AliveFacts
    <3>2. LinkOf(order[i]) \in Atomics
      BY <1>6, <3>1, PlacesFacts
    <3>3. DataOf(order[i + 1]) \in rel[LinkOf(order[i])] \cup seen[Consumer]
      BY <1>0, <1>6, <2>9, <3>1 DEF IInv, OrderInv
    <3> QED
      BY <1>r, <2>2, <3>1, <3>2, <3>3, Constants
  <2> QED
    BY <1>1, <2>4, <2>5, <2>6, <2>7, <2>8, <2>9 DEF OrderInv
<1> QED
  BY <1>7, <1>9, <1>10, <1>11, <1>12, <1>13, <1>14, <1>15 DEF IInv, Placed

(* A node that a holder held is to be pushed. *)
LEMMA DropStep ==
  ASSUME IInv, NEW t \in Threads, pc[t] = "idle", holder[t] # NoNode, Assign(t, NoNode),
         UNCHANGED <<tail, head, next, data, alive, old, order, seen, rel>>
  PROVE  IInv'
<1> DEFINE h == holder[t]
<1>0. /\ TypeOK /\ NodesConserved /\ LineIntact /\ PlaceInv /\ LinkInv /\ EndInv /\ Placed
      /\ Live
  BY DEF IInv, Placed, EndInv
<1>1. /\ \A u \in Threads : holder'[u] = IF u = t THEN NoNode ELSE holder[u]
      /\ \A u \in Threads : node'[u] = IF u = t THEN h ELSE node[u]
      /\ \A u \in Threads : u # t => pc'[u] = pc[u]
      /\ pc'[t] = "exchange"
  BY <1>0 DEF TypeOK, Assign, Goto
<1>2. Live' /\ \A u \in Threads : pc'[u] = "link" <=> pc[u] = "link"
  BY <1>0, <1>1, Constants DEF Live
<1>3. LineIntact' /\ LinkInv'
  <2>1. \A u \in Threads : pc[u] = "link" => node'[u] = node[u]
    BY <1>1
  <2> QED
    BY <1>0, <1>2, <2>1, LineKept
<1>4. /\ PlaceInv' /\ Listed' = Listed /\ Out' = Out
      /\ Cardinality(Held') + Cardinality(Moving') = Cardinality(Held) + Cardinality(Moving)
  <2>1. NoNode \notin Listed \cup Out /\ {NoNode} \ {NoNode} = {}
    BY <1>0, Constants DEF Listed, Out, TypeOK, PlaceInv, Held
  <2>2. Cardinality(Held) + Cardinality(Moving) + 0 = Cardinality(Held) + Cardinality(Moving)
    BY HandsFacts
  <2> QED
    BY <1>0, <2>1, <2>2, AssignPlaces
<1>5. NodesConserved'
  <2>1. alive' = Listed' \cup Out'
    BY <1>0, <1>4 DEF NodesConserved, Listed, Out
  <2>2. Len(order) \in Nat
    BY <1>0 DEF TypeOK
  <2>3. Cardinality(alive) = Len(order) + Cardinality(Held) + Cardinality(Moving)
    BY <1>0 DEF NodesConserved
  <2>4. Cardinality(alive) = Len(order) + Cardinality(Held') + Cardinality(Moving')
    BY <1>4, <2>2, <2>3, HandsFacts, HandsLater
  <2> QED
    BY <2>1, <2>4 DEF NodesConserved, Listed, Out
<1>6. TypeOK'
  BY <1>0, <1>1, Constants DEF TypeOK, Assign, Goto
<1>7. EndInv' /\ AliveInv'
  BY <1>0, <1>2, EndLive DEF EndInv, Live, IInv, AliveInv
<1>8. DataInv'
  <2>1. Carriers' = Carriers
    BY <1>0, AssignCarriers
  <2> QED
    BY <2>1 DEF IInv, DataInv
<1>9. OrderInv'
  <2>1. /\ Held' = Held \ {t} /\ Moving' = Moving \cup {t} /\ t \in Held
        /\ Held \subseteq Threads /\ Moving \subseteq Threads /\ t \notin Moving
    BY <1>0, <1>1 DEF Held, Moving
  <2>2. \A u \in Held' : {DataOf(holder'[u]), LinkOf(holder'[u])} \subseteq seen[u]
    BY <1>0, <1>1, <2>1 DEF IInv, OrderInv
  <2>3. \A u \in Moving' : {DataOf(node'[u]), LinkOf(node'[u])} \subseteq seen[u]
    BY <1>0, <1>1, <2>1 DEF IInv, OrderInv
  <2>4. \A u \in Threads : pc'[u] = "link" => {DataOf(node'[u]), LinkOf(old[u])} \subseteq seen[u]
    BY <1>0, <1>1, <1>2 DEF IInv, OrderInv
  <2> QED
    BY <1>0, <2>2, <2>3, <2>4 DEF IInv, OrderInv
<1> QED
  BY <1>3, <1>4, <1>5, <1>6, <1>7, <1>8, <1>9 DEF IInv, Placed

(* What an access to a node leaves as it was.                               *)
LEMMA NodesFrame ==
  ASSUME UNCHANGED <<tail, head, next, data, alive, holder, pc, node, old, order>>
  PROVE  /\ NodesConserved => NodesConserved'
         /\ LineIntact => LineIntact'
         /\ PlaceInv => PlaceInv'
         /\ LinkInv => LinkInv'
         /\ EndInv => EndInv'
         /\ AliveInv => AliveInv'
         /\ DataInv => DataInv'
         /\ Live => Live'
<1>1. Held' = Held /\ Moving' = Moving /\ Listed' = Listed
  BY DEF Held, Moving, Listed
<1>2. Out' = Out /\ Carriers' = Carriers
  BY <1>1 DEF Out, Carriers
<1>3. NodesConserved => NodesConserved'
  BY <1>1 DEF NodesConserved
<1>4. LineIntact => LineIntact'
  BY DEF LineIntact
<1>5. PlaceInv => PlaceInv'
  BY <1>1, <1>2 DEF PlaceInv
<1>6. LinkInv => LinkInv'
  BY DEF LinkInv
<1>7. /\ EndInv => EndInv'
      /\ AliveInv => AliveInv'
      /\ Live => Live'
  BY DEF EndInv, AliveInv, Live
<1>8. DataInv => DataInv'
  BY <1>2 DEF DataInv
<1> QED
  BY <1>3, <1>4, <1>5, <1>6, <1>7, <1>8

(* The data of a node that only t has is used. *)
LEMMA UseStep ==
  ASSUME IInv, NEW t \in Threads, Use(t)
  PROVE  IInv'
<1>n. PICK h \in Nodes : h = holder[t] /\ t \in Held
  BY DEF Use, Held, IInv, Placed, TypeOK
<1>0. /\ TypeOK /\ NodesConserved /\ LineIntact /\ PlaceInv /\ LinkInv /\ EndInv /\ Placed
      /\ Live
  BY DEF IInv, Placed, EndInv, Use
<1>1. /\ seen' = Touch(seen, t, DataOf(h)) /\ rel' = Forget(rel, DataOf(h))
      /\ UNCHANGED <<tail, head, next, data, alive, holder, pc, node, old, order>>
  BY <1>n DEF Use
<1>2. /\ seen' \in [Threads -> SUBSET Places]
      /\ \A u \in Threads, m \in Nodes :
           /\ u = t \/ m # h => (DataOf(m) \in seen[u] => DataOf(m) \in seen'[u])
           /\ LinkOf(m) \in seen[u] => LinkOf(m) \in seen'[u]
  BY <1>0, <1>1, TouchData DEF TypeOK
<1>3. /\ rel' \in [Atomics -> SUBSET Places]
      /\ \A a \in Atomics, m \in Nodes :
           /\ m # h => (DataOf(m) \in rel[a] => DataOf(m) \in rel'[a])
           /\ LinkOf(m) \in rel[a] => LinkOf(m) \in rel'[a]
  BY <1>0, <1>1, ForgetData DEF TypeOK
<1>4. TypeOK'
  BY <1>0, <1>1, <1>2, <1>3 DEF TypeOK
<1>5. /\ NodesConserved' /\ LineIntact' /\ PlaceInv' /\ LinkInv' /\ EndInv' /\ Live'
      /\ AliveInv' /\ DataInv'
  BY <1>0, <1>1, NodesFrame DEF IInv
<1>6. OrderInv'
  <2>1. /\ \A i \in 1 .. Len(order) : order[i] \in Nodes /\ order[i] # h
        /\ tail # h /\ tail \in Nodes /\ head \in Nodes
    <3>1. h \in Out
      BY <1>n DEF Out
    <3>2. \A i \in 1 .. Len(order) : order[i] \in Nodes /\ order[i] # h
      BY <1>0, <3>1, LineFacts DEF PlaceInv, Listed, Live
    <3>3. tail \in Listed
      BY <1>0, LineFacts DEF Listed, Live
    <3> QED
      BY <1>0, <3>1, <3>2, <3>3 DEF PlaceInv, TypeOK
  <2>2. \A u \in Held : u # t => holder[u] # h
    BY <1>0, <1>n DEF PlaceInv
  <2>3. \A u \in Moving : node[u] # h /\ node[u] \in Nodes
    BY <1>0, <1>n DEF PlaceInv
  <2>4. Held \subseteq Threads /\ Moving \subseteq Threads /\ \A u \in Held : holder[u] \in Nodes
    BY <1>0, Constants DEF Held, Moving, TypeOK
  <2>5. DataOf(tail) \in seen'[Consumer]
    BY <1>0, <1>2, <2>1, Constants DEF IInv, OrderInv
  <2>6. \A u \in Held : {DataOf(holder[u]), LinkOf(holder[u])} \subseteq seen'[u]
    BY <1>0, <1>2, <2>2, <2>4 DEF IInv, OrderInv
  <2>7. \A u \in Moving : {DataOf(node[u]), LinkOf(node[u])} \subseteq seen'[u]
    BY <1>0, <1>2, <2>3, <2>4 DEF IInv, OrderInv
  <2>8. \A u \in Threads : pc[u] = "link" => {DataOf(node[u]), LinkOf(old[u])} \subseteq seen'[u]
    <3>1. \A u \in Threads : pc[u] = "link" => old[u] \in Nodes /\ node[u] \in Nodes /\ node[u] # h
      BY <1>0, <2>1, AliveFacts DEF LinkInv
    <3> QED
      BY <1>0, <1>2, <3>1 DEF IInv, OrderInv
  <2>9. LinkOf(head) \in rel'[HeadAtomic] \/ \A u \in Threads : LinkOf(head) \in seen'[u]
    BY <1>0, <1>2, <1>3, <2>1, PlacesFacts DEF IInv, OrderInv
  <2>10. ASSUME NEW i \in 1 .. Len(order) - 1, next[order[i]] # NoNode
         PROVE  DataOf(order[i + 1]) \in rel'[LinkOf(order[i])] \cup seen'[Consumer]
    <3>1. order[i] \in Nodes /\ order[i + 1] \in Nodes /\ order[i + 1] # h
      BY <1>0, <2>1, AliveFacts
    <3>2. LinkOf(order[i]) \in Atomics
      BY <3>1, PlacesFacts
    <3>3. DataOf(order[i + 1]) \in rel[LinkOf(order[i])] \cup seen[Consumer]
      BY <1>0, <2>10 DEF IInv, OrderInv
    <3> QED
      BY <1>2, <1>3, <3>1, <3>2, <3>3, Constants
  <2>11. Held' = Held /\ Moving' = Moving
    BY <1>1 DEF Held, Moving
  <2> QED
    BY <1>1, <2>5, <2>6, <2>7, <2>8, <2>9, <2>10, <2>11 DEF OrderInv
<1> QED
  BY <1>4, <1>5, <1>6 DEF IInv, Placed

(* Two holder variables swap what they hold; who gets a node has seen what  *)
(* the thread saw that had it.                                              *)
LEMMA MoveStep ==
  ASSUME IInv, NEW t \in Threads, NEW u \in Threads, Move(t, u)
  PROVE  IInv'
<1>0. /\ TypeOK /\ NodesConserved /\ LineIntact /\ PlaceInv /\ LinkInv /\ EndInv /\ Placed
      /\ Live
  BY DEF IInv, Placed, EndInv, Move
<1>1. /\ t # u /\ pc[t] = "idle" /\ pc[u] = "idle" /\ holder[t] # NoNode
      /\ UNCHANGED <<tail, head, next, data, alive, pc, node, old, order, rel>>
      /\ holder' \in [Threads -> Nodes \cup {NoNode}]
      /\ \A v \in Threads : holder'[v] =
           IF v = t THEN holder[u] ELSE IF v = u THEN holder[t] ELSE holder[v]
      /\ seen' \in [Threads -> SUBSET Places]
      /\ \A v \in Threads : seen[v] \subseteq seen'[v]
      /\ holder[u] # NoNode => seen[u] \subseteq seen'[t]
      /\ seen[t] \subseteq seen'[u]
  BY <1>0 DEF Move, TypeOK
<1>2. /\ Held \subseteq Threads /\ Moving \subseteq Threads /\ Moving' = Moving
      /\ t \in Held /\ u \in Held'
      /\ t \in Held' <=> u \in Held
      /\ \A v \in Threads \ {t, u} : v \in Held' <=> v \in Held
      /\ \A v \in Held : holder[v] \in Nodes
      /\ Held' \subseteq Threads
  BY <1>0, <1>1 DEF Held, Moving, TypeOK
<1>3. Cardinality(Held') = Cardinality(Held)
  <2>1. CASE u \in Held
    <3>1. Held' = Held
      BY <1>2, <2>1
    <3> QED
      BY <3>1
  <2>2. CASE u \notin Held
    <3>1. Held' = (Held \ {t}) \cup {u} /\ u \notin Held \ {t}
      BY <1>1, <1>2, <2>2
    <3>2. Cardinality(Held \ {t}) = Cardinality(Held) - 1 /\ IsFiniteSet(Held \ {t})
      BY <1>2, HandsFacts, FS_RemoveElement
    <3>3. Cardinality((Held \ {t}) \cup {u}) = Cardinality(Held \ {t}) + 1
      BY <3>1, <3>2, FS_AddElement
    <3> QED
      BY <3>1, <3>2, <3>3, HandsFacts
  <2> QED
    BY <2>1, <2>2
<1>4. {holder'[v] : v \in Held'} = {holder[v] : v \in Held}
  <2>1. \A v \in Held' : \E w \in Held : holder'[v] = holder[w]
    BY <1>1, <1>2
  <2>2. \A w \in Held : \E v \in Held' : holder'[v] = holder[w]
    BY <1>1, <1>2
  <2> QED
    BY <2>1, <2>2
<1>5. Out' = Out /\ Carriers' = Carriers /\ Listed' = Listed
  <2>1. {node'[v] : v \in Moving'} = {node[v] : v \in Moving}
    BY <1>1, <1>2
  <2>2. {IF pc'[v] = "move" THEN tail' ELSE node'[v] : v \in Moving'} =
          {IF pc[v] = "move" THEN tail ELSE node[v] : v \in Moving}
    BY <1>1, <1>2
  <2>3. {order'[i] : i \in 2 .. Len(order')} = {order[i] : i \in 2 .. Len(order)}
    BY <1>1
  <2> QED
    BY <1>1, <1>4, <2>1, <2>2, <2>3 DEF Out, Carriers, Listed
<1>6. NodesConserved'
  <2>1. alive' = Listed' \cup Out'
    BY <1>0, <1>1, <1>5 DEF NodesConserved, Listed, Out
  <2>2. Cardinality(alive') = Len(order') + Cardinality(Held') + Cardinality(Moving')
    BY <1>0, <1>1, <1>2, <1>3 DEF NodesConserved
  <2> QED
    BY <2>1, <2>2 DEF NodesConserved, Listed, Out
<1>7. LineIntact' /\ LinkInv'
  BY <1>0, <1>1, LineKept
<1>8. PlaceInv'
  <2>1. \A v, w \in Held' : holder'[v] = holder'[w] => v = w
    BY <1>0, <1>1, <1>2 DEF PlaceInv
  <2>2. \A v \in Held', w \in Moving : holder'[v] # node[w]
    <3>1. \A v \in Held : \A w \in Moving : holder[v] # node[w]
      BY <1>0 DEF PlaceInv
    <3> QED
      BY <1>1, <1>2, <3>1
  <2> QED
    BY <1>0, <1>1, <1>2, <1>5, <2>1, <2>2 DEF PlaceInv
<1>9. TypeOK'
  BY <1>0, <1>1 DEF TypeOK
<1>10. EndInv' /\ AliveInv' /\ Live' /\ DataInv'
  <2>1. Live'
    BY <1>0, <1>1 DEF Live
  <2>2. EndInv'
    BY <1>0, <1>1, <2>1, EndLive DEF EndInv, Live
  <2> QED
    BY <1>1, <1>5, <2>1, <2>2 DEF IInv, AliveInv, DataInv, Live
<1>11. OrderInv'
  <2>1. \A v \in Held' : {DataOf(holder'[v]), LinkOf(holder'[v])} \subseteq seen'[v]
    <3>1. \A v \in Held : {DataOf(holder[v]), LinkOf(holder[v])} \subseteq seen[v]
      BY <1>0 DEF IInv, OrderInv
    <3>2. \A v \in Held : holder[v] # NoNode
      BY DEF Held
    <3>3. CASE u \in Held
      BY <1>1, <1>2, <3>1, <3>2, <3>3
    <3>4. CASE u \notin Held
      BY <1>1, <1>2, <3>1, <3>4
    <3> QED
      BY <3>3, <3>4
  <2>2. \A v \in Moving : {DataOf(node[v]), LinkOf(node[v])} \subseteq seen'[v]
    BY <1>0, <1>1, <1>2 DEF IInv, OrderInv
  <2>3. \A v \in Threads : pc[v] = "link" => {DataOf(node[v]), LinkOf(old[v])} \subseteq seen'[v]
    BY <1>0, <1>1 DEF IInv, OrderInv
  <2>4. /\ LinkOf(head) \in rel[HeadAtomic] \/ \A v \in Threads : LinkOf(head) \in seen'[v]
        /\ DataOf(tail) \in seen'[Consumer]
        /\ \A i \in 1 .. Len(order) - 1 :
             next[order[i]] # NoNode =>
               DataOf(order[i + 1]) \in rel[LinkOf(order[i])] \cup seen'[Consumer]
    BY <1>0, <1>1, Constants DEF IInv, OrderInv
  <2> QED
    BY <1>1, <1>2, <2>1, <2>2, <2>3, <2>4 DEF OrderInv
<1> QED
  BY <1>6, <1>7, <1>8, <1>9, <1>10, <1>11 DEF IInv, Placed

-----------------------------------------------------------------------------
(* The steps of push_node *)

LEMMA PushExchangeStep ==
  ASSUME IInv, NEW t \in Threads, PushExchange(t)
  PROVE  IInv'
<1>0. /\ TypeOK /\ NodesConserved /\ LineIntact /\ PlaceInv /\ LinkInv /\ EndInv /\ Placed
      /\ t \in Moving
  BY DEF IInv, Placed, PushExchange, Moving
<1>l. Live
  BY <1>0, Constants DEF EndInv, Live, PushExchange
<1>n. PICK m \in Nodes : m = node[t]
  BY <1>0 DEF PlaceInv
<1>k. PICK k \in Nat \ {0} : k = Len(order)
  BY <1>0, <1>l, LineFacts DEF Live
<1>1. /\ pc[t] = "exchange"
      /\ \A u \in Threads : old'[u] = IF u = t THEN head ELSE old[u]
      /\ head' = m /\ order' = Append(order, m)
      /\ seen' = Acquire(seen, t, rel[HeadAtomic])
      /\ rel' = RmwRelease(rel, HeadAtomic, seen'[t])
      /\ \A u \in Threads : pc'[u] = IF u = t THEN "link" ELSE pc[u]
      /\ UNCHANGED <<tail, next, data, alive, holder, node>>
  BY <1>0, <1>n DEF PushExchange, ExchangeOrder, Goto, TypeOK
<1>2. /\ Len(order') = k + 1 /\ order'[k + 1] = m
      /\ \A i \in 1 .. k : order'[i] = order[i] /\ order[i] \in Nodes /\ order[i] \in alive
      /\ 1 .. Len(order') = (1 .. k) \cup {k + 1}
      /\ k \in 1 .. k
      /\ \A i \in 1 .. k - 1 : i \in 1 .. k /\ i + 1 \in 1 .. k
  <2>1. order \in Seq(Nodes) /\ Len(order) = k
    BY <1>0, <1>k DEF TypeOK
  <2>2. Len(order') = k + 1 /\ order'[k + 1] = m /\ \A i \in 1 .. k : order'[i] = order[i]
    BY <1>1, <2>1, AppendProperties
  <2>3. \A i \in 1 .. k : order[i] \in Nodes /\ order[i] \in alive
    BY <1>0, <1>l, <2>1, LineFacts DEF Live
  <2>4. /\ 1 .. k + 1 = (1 .. k) \cup {k + 1} /\ k \in 1 .. k
        /\ \A i \in 1 .. k - 1 : i \in 1 .. k /\ i + 1 \in 1 .. k
    OBVIOUS
  <2> QED
    BY <2>2, <2>3, <2>4
<1>3. /\ order[1] = tail /\ order[k] = head /\ next[head] = NoNode /\ head \in Nodes
      /\ tail \in Nodes
  BY <1>0, <1>k, <1>l, LineFacts DEF Live, TypeOK
<1>4. /\ Held' = Held /\ Moving' = Moving \ {t}
      /\ Held \subseteq Threads /\ Moving \subseteq Threads
  BY <1>0, <1>1 DEF Held, Moving
<1>5. /\ m \in Out /\ m \notin Listed /\ m \in alive
      /\ \A i \in 1 .. k : order[i] # m
      /\ \A u \in Held : holder[u] # m
      /\ \A u \in Moving : u # t => node[u] # m
  <2>1. m \in Out /\ m \notin Listed
    BY <1>0, <1>n DEF PlaceInv, Out
  <2>2. m \in alive
    BY <1>0, <2>1 DEF NodesConserved, Out
  <2>3. \A i \in 1 .. k : order[i] # m
    BY <1>k, <2>1 DEF Listed
  <2>4. /\ \A u \in Held : holder[u] # m
        /\ \A u \in Moving : u # t => node[u] # m
    BY <1>0, <1>n DEF PlaceInv
  <2> QED
    BY <2>1, <2>2, <2>3, <2>4
<1>6. Listed' = Listed \cup {m} /\ Out' = Out \ {m}
  <2>1. Listed' = {order'[i] : i \in (1 .. k) \cup {k + 1}}
    BY <1>2 DEF Listed
  <2>2. Listed = {order[i] : i \in 1 .. k}
    BY <1>k DEF Listed
  <2>3. Listed' = Listed \cup {m}
    BY <1>2, <2>1, <2>2
  <2>4. {node'[u] : u \in Moving'} = {node[u] : u \in Moving} \ {m}
    BY <1>0, <1>1, <1>4, <1>5, <1>n
  <2>5. {holder'[u] : u \in Held'} = {holder[u] : u \in Held} \ {m}
    BY <1>1, <1>4, <1>5
  <2> QED
    BY <2>3, <2>4, <2>5 DEF Out
<1>7. TypeOK'
  <2>1. /\ old' \in [Threads -> Nodes \cup {NoNode}]
        /\ pc' \in [Threads -> {"idle", "exchange", "link", "move", "destroy", "gone"}]
        /\ \A r \in Releasers : pc'[r] \in {"idle", "exchange", "link"}
    BY <1>0, Constants DEF TypeOK, PushExchange, Goto
  <2>2. order' \in Seq(Nodes)
    BY <1>0, <1>1, AppendProperties DEF TypeOK
  <2>3. seen' \in [Threads -> SUBSET Places]
    BY <1>0, <1>1, PlacesFacts DEF TypeOK, Acquire
  <2>4. rel' \in [Atomics -> SUBSET Places]
    BY <1>0, <1>1, <2>3 DEF TypeOK, RmwRelease
  <2> QED
    BY <1>0, <1>1, <2>1, <2>2, <2>3, <2>4 DEF TypeOK
<1>8. NodesConserved'
  <2>1. alive' = Listed' \cup Out'
    BY <1>0, <1>1, <1>5, <1>6 DEF NodesConserved, Listed, Out
  <2>2. Cardinality(Moving') = Cardinality(Moving) - 1
    BY <1>0, <1>4, HandsFacts, FS_RemoveElement
  <2>3. Cardinality(alive) = k + Cardinality(Held) + Cardinality(Moving)
    BY <1>0, <1>k DEF NodesConserved
  <2>4. Cardinality(alive) = k + 1 + Cardinality(Held') + Cardinality(Moving')
    BY <1>4, <2>2, <2>3, HandsFacts
  <2> QED
    BY <1>1, <1>2, <2>1, <2>4 DEF NodesConserved, Listed, Out
<1>9. LineIntact'
  <2>1. order'[1] = tail' /\ order'[Len(order')] = head'
    <3>1. 1 \in 1 .. k
      OBVIOUS
    <3> QED
      BY <1>1, <1>2, <1>3, <3>1
  <2>2. ASSUME NEW i \in 1 .. Len(order') - 1
        PROVE  \/ next'[order'[i]] = order'[i + 1]
               \/ /\ next'[order'[i]] = NoNode
                  /\ \E u \in Threads :
                       pc'[u] = "link" /\ old'[u] = order'[i] /\ node'[u] = order'[i + 1]
    <3>1. CASE i = k
      BY <1>1, <1>2, <1>3, <1>n, <3>1
    <3>2. CASE i # k
      <4>1. i \in 1 .. k - 1
        BY <1>2, <3>2
      <4>2. i \in 1 .. k /\ i + 1 \in 1 .. k
        BY <1>2, <4>1
      <4>3. \/ next[order[i]] = order[i + 1]
            \/ /\ next[order[i]] = NoNode
               /\ \E u \in Threads :
                    pc[u] = "link" /\ old[u] = order[i] /\ node[u] = order[i + 1]
        BY <1>0, <1>k, <4>1 DEF LineIntact
      <4> QED
        BY <1>1, <1>2, <4>2, <4>3
    <3> QED
      BY <3>1, <3>2
  <2>3. ASSUME NEW n \in alive',
               n = head' \/ (\A i \in 1 .. Len(order') : order'[i] # n)
        PROVE  next'[n] = NoNode
    <3>1. \A i \in 1 .. Len(order) : order[i] # n
      BY <1>1, <1>2, <1>5, <1>k, <2>3
    <3> QED
      BY <1>0, <1>1, <3>1 DEF LineIntact
  <2>4. \A n \in alive' :
          n = head' \/ (\A i \in 1 .. Len(order') : order'[i] # n) => next'[n] = NoNode
    BY <2>3
  <2> QED
    BY <2>1, <2>2, <2>4 DEF LineIntact
<1>10. PlaceInv'
  <2>1. \A i, j \in 1 .. Len(order') : order'[i] = order'[j] => i = j
    BY <1>0, <1>2, <1>5, <1>k DEF PlaceInv
  <2>2. Listed' \cap Out' = {}
    BY <1>0, <1>6 DEF PlaceInv
  <2> QED
    BY <1>0, <1>1, <1>4, <2>1, <2>2 DEF PlaceInv
<1>11. LinkInv'
  <2>1. ASSUME NEW u \in Threads, pc'[u] = "link"
        PROVE  \E i \in 1 .. Len(order') - 1 :
                 old'[u] = order'[i] /\ node'[u] = order'[i + 1] /\ next'[order'[i]] = NoNode
    <3>1. CASE u = t
      <4>1. k \in 1 .. Len(order') - 1
        BY <1>2
      <4> QED
        BY <1>1, <1>2, <1>3, <1>n, <3>1, <4>1
    <3>2. CASE u # t
      <4>1. PICK i \in 1 .. k - 1 :
              old[u] = order[i] /\ node[u] = order[i + 1] /\ next[order[i]] = NoNode
        BY <1>0, <1>1, <1>k, <2>1, <3>2 DEF LinkInv
      <4>2. i \in 1 .. Len(order') - 1 /\ i \in 1 .. k /\ i + 1 \in 1 .. k
        BY <1>2, <4>1
      <4> QED
        BY <1>1, <1>2, <3>2, <4>1, <4>2
    <3> QED
      BY <3>1, <3>2
  <2>2. \A u \in Threads : u # t /\ pc[u] = "link" => old[u] # head
    <3> SUFFICES ASSUME NEW u \in Threads, u # t, pc[u] = "link"
                 PROVE  old[u] # head
      OBVIOUS
    <3>1. PICK i \in 1 .. k - 1 : old[u] = order[i]
      BY <1>0, <1>k DEF LinkInv
    <3>2. i \in 1 .. k /\ k \in 1 .. k /\ i # k
      BY <3>1
    <3> QED
      BY <1>0, <1>3, <1>k, <3>1, <3>2 DEF PlaceInv
  <2>3. \A u, v \in Threads : pc'[u] = "link" /\ pc'[v] = "link" /\ old'[u] = old'[v] => u = v
    BY <1>0, <1>1, <2>2 DEF LinkInv
  <2> QED
    BY <2>1, <2>3 DEF LinkInv
<1>12. Live' /\ EndInv' /\ AliveInv'
  <2>1. Live'
    BY <1>1, <1>l, Constants DEF Live
  <2>2. order' # << >>
    BY <1>2
  <2> QED
    BY <1>0, <1>1, <1>l, <2>1, <2>2, EndLive DEF IInv, AliveInv
<1>13. DataInv'
  <2>1. Carriers' = Carriers
    <3>1. {order'[i] : i \in 2 .. Len(order')} = {order[i] : i \in 2 .. Len(order)} \cup {m}
      <4>1. 2 .. Len(order') = (2 .. k) \cup {k + 1} /\ \A i \in 2 .. k : i \in 1 .. k
        BY <1>2
      <4> QED
        BY <1>2, <1>k, <4>1
    <3>2. {IF pc[u] = "move" THEN tail ELSE node[u] : u \in Moving} =
            {IF pc'[u] = "move" THEN tail' ELSE node'[u] : u \in Moving'} \cup {m}
      BY <1>0, <1>1, <1>4, <1>n
    <3>3. {holder'[u] : u \in Held'} = {holder[u] : u \in Held}
      BY <1>1, <1>4
    <3> QED
      BY <3>1, <3>2, <3>3 DEF Carriers
  <2> QED
    BY <1>1, <2>1 DEF IInv, DataInv
<1>14. OrderInv'
  <2>1. /\ \A u \in Threads : seen'[u] = IF u = t THEN seen[u] \cup rel[HeadAtomic] ELSE seen[u]
        /\ \A a \in Atomics : a # HeadAtomic => rel'[a] = rel[a]
        /\ rel'[HeadAtomic] = rel[HeadAtomic] \cup seen'[t]
    BY <1>0, <1>1, PlacesFacts DEF TypeOK, Acquire, RmwRelease
  <2>2. /\ DataOf(tail) \in seen[Consumer]
        /\ \A u \in Held : {DataOf(holder[u]), LinkOf(holder[u])} \subseteq seen[u]
        /\ \A u \in Moving : {DataOf(node[u]), LinkOf(node[u])} \subseteq seen[u]
        /\ \A u \in Threads : pc[u] = "link" => {DataOf(node[u]), LinkOf(old[u])} \subseteq seen[u]
        /\ LinkOf(head) \in rel[HeadAtomic] \/ \A u \in Threads : LinkOf(head) \in seen[u]
        /\ \A i \in 1 .. k - 1 :
             next[order[i]] # NoNode =>
               DataOf(order[i + 1]) \in rel[LinkOf(order[i])] \cup seen[Consumer]
    BY <1>k, <1>l DEF IInv, OrderInv
  <2>3. /\ DataOf(tail) \in seen'[Consumer]
        /\ \A u \in Held' : {DataOf(holder'[u]), LinkOf(holder'[u])} \subseteq seen'[u]
        /\ \A u \in Moving' : {DataOf(node'[u]), LinkOf(node'[u])} \subseteq seen'[u]
    <3>1. \A u \in Threads : seen[u] \subseteq seen'[u]
      BY <2>1
    <3>2. DataOf(tail) \in seen'[Consumer]
      BY <2>2, <3>1, Constants
    <3>3. \A u \in Held : {DataOf(holder[u]), LinkOf(holder[u])} \subseteq seen'[u]
      BY <1>4, <2>2, <3>1
    <3>4. \A u \in Moving : {DataOf(node[u]), LinkOf(node[u])} \subseteq seen'[u]
      BY <1>4, <2>2, <3>1
    <3> QED
      BY <1>1, <1>4, <3>2, <3>3, <3>4
  <2>4. \A u \in Threads : pc'[u] = "link" => {DataOf(node'[u]), LinkOf(old'[u])} \subseteq seen'[u]
    <3> SUFFICES ASSUME NEW u \in Threads, pc'[u] = "link"
                 PROVE  {DataOf(node'[u]), LinkOf(old'[u])} \subseteq seen'[u]
      OBVIOUS
    <3>1. CASE u = t
      <4>1. DataOf(node[t]) \in seen'[t] /\ LinkOf(head) \in seen'[t]
        BY <1>0, <2>1, <2>2
      <4>2. old'[u] = head /\ node'[u] = node[t]
        BY <1>1, <3>1
      <4> QED
        BY <3>1, <4>1, <4>2
    <3>2. CASE u # t
      BY <1>1, <2>1, <2>2, <3>2
    <3> QED
      BY <3>1, <3>2
  <2>5. LinkOf(head') \in rel'[HeadAtomic]
    BY <1>0, <1>1, <1>n, <2>1, <2>2
  <2>6. ASSUME NEW i \in 1 .. Len(order') - 1, next'[order'[i]] # NoNode
        PROVE  DataOf(order'[i + 1]) \in rel'[LinkOf(order'[i])] \cup seen'[Consumer]
    <3>1. i # k
      BY <1>1, <1>2, <1>3, <2>6
    <3>2. i \in 1 .. k - 1
      BY <1>2, <3>1
    <3>3. i \in 1 .. k /\ i + 1 \in 1 .. k
      BY <1>2, <3>2
    <3>4. /\ DataOf(order[i + 1]) \in rel[LinkOf(order[i])] \cup seen[Consumer]
          /\ LinkOf(order[i]) \in Atomics /\ LinkOf(order[i]) # HeadAtomic
      BY <1>1, <1>2, <2>2, <2>6, <3>2, <3>3, PlacesFacts
    <3> QED
      BY <1>2, <2>1, <3>3, <3>4, Constants
  <2> QED
    BY <1>1, <2>3, <2>4, <2>5, <2>6 DEF OrderInv
<1> QED
  BY <1>7, <1>8, <1>9, <1>10, <1>11, <1>12, <1>13, <1>14 DEF IInv, Placed

LEMMA PushLinkStep ==
  ASSUME IInv, NEW t \in Threads, PushLink(t)
  PROVE  IInv'
<1>0. /\ TypeOK /\ NodesConserved /\ LineIntact /\ PlaceInv /\ LinkInv /\ EndInv /\ Placed
      /\ pc[t] = "link"
  BY DEF IInv, Placed, PushLink
<1>l. Live
  BY <1>0, Constants DEF EndInv, Live
<1>k. PICK k \in Nat \ {0} : k = Len(order)
  BY <1>0, <1>l, LineFacts DEF Live
<1>i. PICK i \in 1 .. k - 1 : old[t] = order[i] /\ node[t] = order[i + 1] /\ next[order[i]] = NoNode
  BY <1>0, <1>k DEF LinkInv
<1>j. \A j \in 1 .. k - 1 : j \in 1 .. k /\ j + 1 \in 1 .. k
  OBVIOUS
<1>m. PICK o \in Nodes, m \in Nodes : o = order[i] /\ m = order[i + 1]
  BY <1>0, <1>i, <1>j, <1>k, <1>l, LineFacts DEF Live
<1>1. /\ \A n \in Nodes : next'[n] = IF n = o THEN m ELSE next[n]
      /\ next' \in [Nodes -> Nodes \cup {NoNode}]
      /\ rel' = StoreRelease(rel, LinkOf(o), seen[t])
      /\ \A u \in Threads : node'[u] = IF u = t THEN NoNode ELSE node[u]
      /\ \A u \in Threads : old'[u] = IF u = t THEN NoNode ELSE old[u]
      /\ \A u \in Threads : pc'[u] = IF u = t THEN "idle" ELSE pc[u]
      /\ UNCHANGED <<tail, head, data, alive, holder, order, seen>>
  BY <1>0, <1>i, <1>m DEF PushLink, Goto, TypeOK
<1>2. /\ Held' = Held /\ Moving' = Moving /\ Listed' = Listed
      /\ Moving \subseteq Threads /\ t \notin Moving
      /\ \A u \in Moving : node'[u] = node[u] /\ pc'[u] = pc[u]
  BY <1>0, <1>1 DEF Held, Moving, Listed
<1>3. Out' = Out /\ Carriers' = Carriers
  <2>1. {node'[u] : u \in Moving'} = {node[u] : u \in Moving}
    BY <1>2
  <2>2. {IF pc'[u] = "move" THEN tail' ELSE node'[u] : u \in Moving'} =
          {IF pc[u] = "move" THEN tail ELSE node[u] : u \in Moving}
    BY <1>1, <1>2
  <2>3. {holder'[u] : u \in Held'} = {holder[u] : u \in Held}
    BY <1>1, <1>2
  <2> QED
    BY <1>1, <2>1, <2>2, <2>3 DEF Out, Carriers
<1>4. /\ order[k] = head
      /\ \A j \in 1 .. k : order[j] \in Nodes /\ order[j] \in alive
      /\ \A j \in 1 .. k : order[j] = o => j = i
      /\ o # head
      /\ \A u \in Threads : u # t /\ pc[u] = "link" => old[u] # o
  <2>1. /\ order[k] = head
        /\ \A j \in 1 .. k : order[j] \in Nodes /\ order[j] \in alive
    BY <1>0, <1>k, <1>l, LineFacts DEF Live
  <2>2. \A j \in 1 .. k : order[j] = o => j = i
    BY <1>0, <1>j, <1>k, <1>m DEF PlaceInv
  <2>3. k \in 1 .. k /\ k # i
    OBVIOUS
  <2>4. \A u \in Threads : u # t /\ pc[u] = "link" => old[u] # o
    BY <1>0, <1>i, <1>m DEF LinkInv
  <2> QED
    BY <2>1, <2>2, <2>3, <2>4
<1>5. TypeOK'
  <2>1. /\ old' \in [Threads -> Nodes \cup {NoNode}]
        /\ node' \in [Threads -> Nodes \cup {NoNode}]
        /\ pc' \in [Threads -> {"idle", "exchange", "link", "move", "destroy", "gone"}]
        /\ \A r \in Releasers : pc'[r] \in {"idle", "exchange", "link"}
    BY <1>0, Constants DEF TypeOK, PushLink, Goto
  <2>2. rel' \in [Atomics -> SUBSET Places]
    BY <1>0, <1>1 DEF TypeOK, StoreRelease
  <2> QED
    BY <1>0, <1>1, <2>1, <2>2 DEF TypeOK
<1>6. NodesConserved' /\ PlaceInv'
  <2>1. NodesConserved'
    <3>1. alive' = Listed' \cup Out'
      BY <1>0, <1>1, <1>2, <1>3 DEF NodesConserved, Listed, Out
    <3>2. Cardinality(alive') = Len(order') + Cardinality(Held') + Cardinality(Moving')
      BY <1>0, <1>1, <1>2 DEF NodesConserved
    <3> QED
      BY <3>1, <3>2 DEF NodesConserved, Listed, Out
  <2>2. PlaceInv'
    <3>1. \A u \in Moving' : node'[u] \in Nodes
      BY <1>0, <1>2 DEF PlaceInv
    <3>2. \A u, v \in Moving' : node'[u] = node'[v] => u = v
      BY <1>0, <1>2 DEF PlaceInv
    <3>3. \A u \in Held', v \in Moving' : holder'[u] # node'[v]
      BY <1>0, <1>1, <1>2 DEF PlaceInv
    <3> QED
      BY <1>0, <1>1, <1>2, <1>3, <3>1, <3>2, <3>3 DEF PlaceInv
  <2> QED
    BY <2>1, <2>2
<1>7. LineIntact'
  <2>1. order' # << >> => order'[1] = tail' /\ order'[Len(order')] = head'
    BY <1>0, <1>1 DEF LineIntact
  <2>2. ASSUME NEW j \in 1 .. Len(order') - 1
        PROVE  \/ next'[order'[j]] = order'[j + 1]
               \/ /\ next'[order'[j]] = NoNode
                  /\ \E u \in Threads :
                       pc'[u] = "link" /\ old'[u] = order'[j] /\ node'[u] = order'[j + 1]
    <3>1. j \in 1 .. k - 1 /\ j \in 1 .. k
      BY <1>1, <1>k
    <3>2. CASE j = i
      BY <1>1, <1>m, <3>2
    <3>3. CASE j # i
      <4>1. next'[order[j]] = next[order[j]] /\ order[j] # o
        BY <1>1, <1>4, <3>1, <3>3
      <4>2. \/ next[order[j]] = order[j + 1]
            \/ /\ next[order[j]] = NoNode
               /\ \E u \in Threads :
                    pc[u] = "link" /\ old[u] = order[j] /\ node[u] = order[j + 1]
        BY <1>0, <1>k, <3>1 DEF LineIntact
      <4> QED
        BY <1>1, <1>i, <1>m, <4>1, <4>2
    <3> QED
      BY <3>2, <3>3
  <2>3. ASSUME NEW n \in alive',
               n = head' \/ (\A j \in 1 .. Len(order') : order'[j] # n)
        PROVE  next'[n] = NoNode
    <3>1. n \in Nodes /\ i \in 1 .. Len(order)
      BY <1>0, <1>1, <1>j, <1>k DEF TypeOK
    <3>2. n # o
      BY <1>1, <1>4, <1>m, <2>3, <3>1
    <3>3. next[n] = NoNode
      BY <1>0, <1>1, <2>3 DEF LineIntact
    <3> QED
      BY <1>1, <3>1, <3>2, <3>3
  <2>4. \A n \in alive' :
          n = head' \/ (\A j \in 1 .. Len(order') : order'[j] # n) => next'[n] = NoNode
    BY <2>3
  <2> QED
    BY <2>1, <2>2, <2>4 DEF LineIntact
<1>8. LinkInv'
  <2>1. ASSUME NEW u \in Threads, pc'[u] = "link"
        PROVE  \E j \in 1 .. Len(order') - 1 :
                 old'[u] = order'[j] /\ node'[u] = order'[j + 1] /\ next'[order'[j]] = NoNode
    <3>1. u # t /\ pc[u] = "link" /\ old[u] # o
      BY <1>1, <1>4, <2>1
    <3>2. PICK j \in 1 .. k - 1 :
            old[u] = order[j] /\ node[u] = order[j + 1] /\ next[order[j]] = NoNode
      BY <1>0, <1>k, <3>1 DEF LinkInv
    <3>3. next'[order[j]] = NoNode
      BY <1>1, <1>4, <1>j, <3>1, <3>2
    <3> QED
      BY <1>1, <1>k, <3>1, <3>2, <3>3
  <2>2. \A u, v \in Threads : pc'[u] = "link" /\ pc'[v] = "link" /\ old'[u] = old'[v] => u = v
    BY <1>0, <1>1 DEF LinkInv
  <2> QED
    BY <2>1, <2>2 DEF LinkInv
<1>9. Live' /\ EndInv' /\ AliveInv' /\ DataInv'
  <2>1. Live'
    BY <1>1, <1>l, Constants DEF Live
  <2>2. order' # << >>
    BY <1>0, <1>1, <1>l DEF EndInv, Live
  <2>3. EndInv'
    BY <1>0, <1>l, <2>1, <2>2, EndLive
  <2> QED
    BY <1>1, <1>3, <1>l, <2>1, <2>3 DEF IInv, AliveInv, DataInv
<1>10. OrderInv'
  <2>1. /\ rel'[LinkOf(o)] = seen[t]
        /\ \A a \in Atomics : a # LinkOf(o) => rel'[a] = rel[a]
    BY <1>0, <1>1, PlacesFacts DEF TypeOK, StoreRelease
  <2>2. /\ DataOf(tail) \in seen[Consumer]
        /\ \A u \in Held : {DataOf(holder[u]), LinkOf(holder[u])} \subseteq seen[u]
        /\ \A u \in Moving : {DataOf(node[u]), LinkOf(node[u])} \subseteq seen[u]
        /\ \A u \in Threads : pc[u] = "link" => {DataOf(node[u]), LinkOf(old[u])} \subseteq seen[u]
        /\ LinkOf(head) \in rel[HeadAtomic] \/ \A u \in Threads : LinkOf(head) \in seen[u]
        /\ \A j \in 1 .. k - 1 :
             next[order[j]] # NoNode =>
               DataOf(order[j + 1]) \in rel[LinkOf(order[j])] \cup seen[Consumer]
    BY <1>k, <1>l DEF IInv, OrderInv
  <2>3. \A u \in Moving' : {DataOf(node'[u]), LinkOf(node'[u])} \subseteq seen'[u]
    BY <1>1, <1>2, <2>2
  <2>4. \A u \in Threads : pc'[u] = "link" => {DataOf(node'[u]), LinkOf(old'[u])} \subseteq seen'[u]
    <3> SUFFICES ASSUME NEW u \in Threads, pc'[u] = "link"
                 PROVE  {DataOf(node'[u]), LinkOf(old'[u])} \subseteq seen'[u]
      OBVIOUS
    <3>1. u # t /\ pc[u] = "link" /\ node'[u] = node[u] /\ old'[u] = old[u]
      BY <1>1
    <3> QED
      BY <1>1, <2>2, <3>1
  <2>5. LinkOf(head') \in rel'[HeadAtomic] \/ \A u \in Threads : LinkOf(head') \in seen'[u]
    BY <1>1, <1>m, <2>1, <2>2, PlacesFacts
  <2>6. ASSUME NEW j \in 1 .. Len(order') - 1, next'[order'[j]] # NoNode
        PROVE  DataOf(order'[j + 1]) \in rel'[LinkOf(order'[j])] \cup seen'[Consumer]
    <3>1. j \in 1 .. k - 1 /\ j \in 1 .. k
      BY <1>1, <1>k
    <3>2. CASE j = i
      <4>1. DataOf(m) \in seen[t]
        BY <1>0, <1>i, <1>m, <2>2
      <4> QED
        BY <1>1, <1>m, <2>1, <3>2, <4>1
    <3>3. CASE j # i
      <4>1. order[j] \in Nodes /\ order[j] # o
        BY <1>4, <3>1, <3>3
      <4>2. LinkOf(order[j]) \in Atomics /\ LinkOf(order[j]) # LinkOf(o)
        <5>1. PICK q \in Nodes : q = order[j]
          BY <4>1
        <5>2. q # o /\ o \in Nodes
          BY <1>m, <4>1, <5>1
        <5>3. LinkOf(q) \in Atomics /\ LinkOf(q) # LinkOf(o)
          BY <5>2 DEF LinkOf, Atomics
        <5> QED
          BY <5>1, <5>3
      <4>3. next[order[j]] # NoNode
        BY <1>1, <2>6, <4>1
      <4> QED
        BY <1>1, <2>1, <2>2, <3>1, <4>2, <4>3
    <3> QED
      BY <3>2, <3>3
  <2> QED
    BY <1>1, <1>2, <2>2, <2>3, <2>4, <2>5, <2>6 DEF OrderInv
<1> QED
  BY <1>5, <1>6, <1>7, <1>8, <1>9, <1>10 DEF IInv, Placed

-----------------------------------------------------------------------------
(* The steps of pop *)

(* The separator s is taken out of the line, and its successor replaces it. *)
LEMMA TakeLine ==
  ASSUME Placed, pc[Consumer] # "gone", TakeSeparator, head' = head,
         NEW s \in Nodes, s = tail
  PROVE  \E k \in Nat \ {0, 1} :
           /\ k = Len(order) /\ Len(order') = k - 1 /\ order' # << >>
           /\ order[1] = s /\ tail' = order[2] /\ tail' = next[tail] /\ order[k] = head
           /\ \A i \in 1 .. k : order[i] \in Nodes /\ order[i] \in alive
           /\ \A i \in 2 .. k : order[i] # s
           /\ \A i \in 1 .. k - 1 : order'[i] = order[i + 1] /\ i + 1 \in 2 .. k
           /\ order' \in Seq(Nodes) /\ tail' \in Nodes
           /\ s # head /\ s \in Listed /\ Listed' = Listed \ {s}
           /\ next' \in [Nodes -> Nodes \cup {NoNode}]
           /\ \A n \in Nodes : next'[n] = IF n = s THEN NoNode ELSE next[n]
<1>0. TypeOK /\ NodesConserved /\ LineIntact /\ PlaceInv /\ EndInv
  BY DEF Placed
<1>k. PICK k \in Nat \ {0} : k = Len(order)
  BY <1>0, LineFacts
<1>1. /\ order[1] = s /\ order[k] = head /\ next[head] = NoNode
      /\ \A i \in 1 .. k : order[i] \in Nodes /\ order[i] \in alive
      /\ k > 1 /\ next[tail] = order[2]
  BY <1>0, <1>k, LineFacts DEF TakeSeparator
<1>2. /\ tail' = next[tail] /\ order' = Tail(order) /\ next' = [next EXCEPT ![s] = NoNode]
  BY DEF TakeSeparator, SeparatorUnchecked, LinkReset
<1>3. /\ Len(order') = k - 1 /\ order' \in Seq(Nodes)
      /\ \A i \in 1 .. k - 1 : order'[i] = order[i + 1]
  BY <1>0, <1>1, <1>2, <1>k, HeadTailProperties, EmptySeq DEF TypeOK
<1>4. /\ \A i \in 1 .. k - 1 : i + 1 \in 2 .. k
      /\ \A i \in 2 .. k : i \in 1 .. k /\ i # 1 /\ i - 1 \in 1 .. k - 1 /\ i - 1 + 1 = i
      /\ 1 \in 1 .. k /\ 2 \in 1 .. k /\ 1 .. k = {1} \cup (2 .. k)
  BY <1>1
<1>5. \A i \in 2 .. k : order[i] # s
  BY <1>0, <1>1, <1>4, <1>k DEF PlaceInv
<1>6. order' # << >> /\ s # head /\ k \in Nat \ {0, 1}
  BY <1>1, <1>3, EmptySeq DEF TakeSeparator
<1>7. s \in Listed /\ Listed' = Listed \ {s}
  <2>1. Listed = {order[i] : i \in 1 .. k} /\ Listed' = {order'[i] : i \in 1 .. k - 1}
    BY <1>3, <1>k DEF Listed
  <2>2. {order'[i] : i \in 1 .. k - 1} = {order[i] : i \in 2 .. k}
    <3>1. ASSUME NEW i \in 1 .. k - 1
          PROVE  \E j \in 2 .. k : order'[i] = order[j]
      BY <1>3, <1>4
    <3>2. ASSUME NEW j \in 2 .. k
          PROVE  \E i \in 1 .. k - 1 : order'[i] = order[j]
      <4>1. PICK i \in 1 .. k - 1 : j = i + 1
        BY <1>4
      <4> QED
        BY <1>3, <4>1
    <3> QED
      BY <3>1, <3>2
  <2>3. {order[i] : i \in 1 .. k} = {s} \cup {order[i] : i \in 2 .. k}
    <3>1. \A i \in 1 .. k : i = 1 \/ i \in 2 .. k
      OBVIOUS
    <3> QED
      BY <1>1, <1>4, <3>1
  <2>4. s \notin {order[i] : i \in 2 .. k}
    BY <1>5
  <2> QED
    BY <2>1, <2>2, <2>3, <2>4
<1>8. /\ next' \in [Nodes -> Nodes \cup {NoNode}]
      /\ \A n \in Nodes : next'[n] = IF n = s THEN NoNode ELSE next[n]
  BY <1>0, <1>2 DEF TypeOK
<1>9. tail' = order[2] /\ tail' \in Nodes
  BY <1>1, <1>2, <1>4
<1> QED
  BY <1>1, <1>2, <1>3, <1>4, <1>5, <1>6, <1>7, <1>8, <1>9, <1>k

(* The rest of the line is as it was, and so are its gaps.                  *)
LEMMA TakeKeepsLine ==
  ASSUME Placed, pc[Consumer] # "gone", TakeSeparator, UNCHANGED <<head, old>>,
         alive' \subseteq alive,
         \A u \in Threads : pc'[u] = "link" <=> pc[u] = "link",
         \A u \in Threads : pc[u] = "link" => node'[u] = node[u]
  PROVE  LineIntact' /\ LinkInv'
<1>0. TypeOK /\ LineIntact /\ LinkInv
  BY DEF Placed
<1>s. PICK s \in Nodes : s = tail
  BY <1>0 DEF TypeOK
<1>k. PICK k \in Nat \ {0, 1} :
           /\ k = Len(order) /\ Len(order') = k - 1 /\ order' # << >>
           /\ order[1] = s /\ tail' = order[2] /\ tail' = next[tail] /\ order[k] = head
           /\ \A i \in 1 .. k : order[i] \in Nodes /\ order[i] \in alive
           /\ \A i \in 2 .. k : order[i] # s
           /\ \A i \in 1 .. k - 1 : order'[i] = order[i + 1] /\ i + 1 \in 2 .. k
           /\ s # head
           /\ \A n \in Nodes : next'[n] = IF n = s THEN NoNode ELSE next[n]
  BY <1>s, TakeLine
<1>1. /\ \A i \in 1 .. k - 2 : /\ i \in 1 .. k - 1 /\ i + 1 \in 1 .. k - 1
                               /\ i + 1 \in 2 .. k /\ i + 1 \in 1 .. k
      /\ \A i \in 1 .. k - 1 : i # 1 => i - 1 \in 1 .. k - 2 /\ i - 1 + 1 = i
      /\ 1 \in 1 .. k - 1 /\ k - 1 \in 1 .. k - 1 /\ k - 1 + 1 = k /\ 1 + 1 = 2
      /\ k - 1 - 1 = k - 2
  OBVIOUS
<1>2. order' # << >> => order'[1] = tail' /\ order'[Len(order')] = head'
  BY <1>1, <1>k
<1>3. \A i \in 1 .. k - 2 : next'[order[i + 1]] = next[order[i + 1]]
  BY <1>1, <1>k
<1>4. ASSUME NEW i \in 1 .. Len(order') - 1
      PROVE  \/ next'[order'[i]] = order'[i + 1]
             \/ /\ next'[order'[i]] = NoNode
                /\ \E u \in Threads :
                     pc'[u] = "link" /\ old'[u] = order'[i] /\ node'[u] = order'[i + 1]
  <2>1. PICK j \in 1 .. k - 1 : j = i + 1 /\ i \in 1 .. k - 2
    BY <1>1, <1>k
  <2>2. order'[i] = order[j] /\ order'[i + 1] = order[j + 1] /\ next'[order[j]] = next[order[j]]
    BY <1>1, <1>3, <1>k, <2>1
  <2>3. \/ next[order[j]] = order[j + 1]
        \/ /\ next[order[j]] = NoNode
           /\ \E u \in Threads :
                pc[u] = "link" /\ old[u] = order[j] /\ node[u] = order[j + 1]
    BY <1>0, <1>k DEF LineIntact
  <2> QED
    BY <2>2, <2>3
<1>5. ASSUME NEW n \in alive', n = head' \/ (\A i \in 1 .. Len(order') : order'[i] # n)
      PROVE  next'[n] = NoNode
  <2>1. n \in Nodes /\ n \in alive
    BY <1>0 DEF TypeOK
  <2>2. CASE n = s
    BY <1>k, <2>1, <2>2
  <2>3. CASE n # s
    <3>1. n = head \/ \A i \in 1 .. k : order[i] # n
      <4>1. ASSUME NEW i \in 1 .. k, n # head, i # 1
            PROVE  order[i] # n
        <5>1. PICK j \in 1 .. k - 1 : i = j + 1
          BY <4>1
        <5>2. order'[j] = order[i] /\ order'[j] # n
          BY <1>5, <1>k, <4>1, <5>1
        <5> QED
          BY <5>2
      <4> QED
        BY <1>k, <2>3, <4>1
    <3> QED
      BY <1>0, <1>k, <2>1, <2>3, <3>1 DEF LineIntact
  <2> QED
    BY <2>2, <2>3
<1>6. LineIntact'
  <2>1. \A n \in alive' :
          n = head' \/ (\A i \in 1 .. Len(order') : order'[i] # n) => next'[n] = NoNode
    BY <1>5
  <2> QED
    BY <1>2, <1>4, <2>1 DEF LineIntact
<1>7. ASSUME NEW u \in Threads, pc'[u] = "link"
      PROVE  \E i \in 1 .. Len(order') - 1 :
               old'[u] = order'[i] /\ node'[u] = order'[i + 1] /\ next'[order'[i]] = NoNode
  <2>1. PICK i \in 1 .. k - 1 :
          old[u] = order[i] /\ node[u] = order[i + 1] /\ next[order[i]] = NoNode
    BY <1>0, <1>7, <1>k DEF LinkInv
  <2>2. i # 1
    BY <1>k, <1>s, <2>1 DEF TakeSeparator
  <2>3. PICK j \in 1 .. k - 2 : i = j + 1
    BY <1>1, <2>2
  <2>4. /\ order'[j] = order[i] /\ order'[j + 1] = order[i + 1]
        /\ next'[order[i]] = next[order[i]] /\ j \in 1 .. Len(order') - 1
    BY <1>1, <1>3, <1>k, <2>3
  <2> QED
    BY <1>7, <2>1, <2>4
<1>8. \A t, u \in Threads : pc'[t] = "link" /\ pc'[u] = "link" /\ old'[t] = old'[u] => t = u
  BY <1>0 DEF LinkInv
<1> QED
  BY <1>6, <1>7, <1>8 DEF LinkInv

(* What the exchange with acquire order and the reset of the link do to     *)
(* what the threads have seen.                                              *)
LEMMA TakeViews ==
  ASSUME TypeOK, TakeSeparator, NEW s \in Nodes, s = tail
  PROVE  /\ seen' \in [Threads -> SUBSET Places] /\ rel' \in [Atomics -> SUBSET Places]
         /\ \A u \in Threads, m \in Nodes :
              /\ DataOf(m) \in seen[u] => DataOf(m) \in seen'[u]
              /\ m # s => (LinkOf(m) \in seen[u] => LinkOf(m) \in seen'[u])
         /\ \A m \in Nodes : DataOf(m) \in rel[LinkOf(s)] => DataOf(m) \in seen'[Consumer]
         /\ LinkOf(s) \in seen'[Consumer]
         /\ \A a \in Atomics, m \in Nodes :
              /\ DataOf(m) \in rel[a] => DataOf(m) \in rel'[a]
              /\ m # s => (LinkOf(m) \in rel[a] => LinkOf(m) \in rel'[a])
<1> DEFINE w == Acquire(seen, Consumer, rel[LinkOf(s)])
<1>1. /\ w \in [Threads -> SUBSET Places]
      /\ \A u \in Threads : seen[u] \subseteq w[u]
      /\ rel[LinkOf(s)] \subseteq w[Consumer]
  BY Constants, PlacesFacts DEF TypeOK, Acquire
<1>2. seen' = Touch(w, Consumer, LinkOf(s)) /\ rel' = Forget(rel, LinkOf(s))
  BY DEF TakeSeparator, SeparatorUnchecked
<1> HIDE DEF w
<1>3. /\ seen' \in [Threads -> SUBSET Places]
      /\ \A u \in Threads, m \in Nodes :
           /\ u = Consumer \/ m # s => (LinkOf(m) \in w[u] => LinkOf(m) \in seen'[u])
           /\ DataOf(m) \in w[u] => DataOf(m) \in seen'[u]
      /\ LinkOf(s) \in seen'[Consumer]
  BY <1>1, <1>2, Constants, TouchLink
<1>4. /\ rel' \in [Atomics -> SUBSET Places]
      /\ \A a \in Atomics, m \in Nodes :
           /\ m # s => (LinkOf(m) \in rel[a] => LinkOf(m) \in rel'[a])
           /\ DataOf(m) \in rel[a] => DataOf(m) \in rel'[a]
  BY <1>2, ForgetLink DEF TypeOK
<1>5. \A m \in Nodes : DataOf(m) \in rel[LinkOf(s)] => DataOf(m) \in seen'[Consumer]
  BY <1>1, <1>3, Constants
<1>6. \A u \in Threads, m \in Nodes :
        /\ DataOf(m) \in seen[u] => DataOf(m) \in seen'[u]
        /\ m # s => (LinkOf(m) \in seen[u] => LinkOf(m) \in seen'[u])
  BY <1>1, <1>3
<1> QED
  BY <1>3, <1>4, <1>5, <1>6

LEMMA PopTakeStep ==
  ASSUME IInv, PopTake
  PROVE  IInv'
<1>0. /\ TypeOK /\ NodesConserved /\ LineIntact /\ PlaceInv /\ LinkInv /\ EndInv /\ Placed
      /\ Live /\ pc[Consumer] = "idle" /\ TakeSeparator
  BY DEF IInv, Placed, PopTake, Live
<1>s. PICK s \in Nodes : s = tail
  BY <1>0 DEF TypeOK
<1>1. /\ \A u \in Threads : node'[u] = IF u = Consumer THEN s ELSE node[u]
      /\ \A u \in Threads : pc'[u] = IF u = Consumer THEN "move" ELSE pc[u]
      /\ UNCHANGED <<head, data, alive, holder, old>>
  BY <1>0, <1>s DEF PopTake, Goto, TypeOK
<1>k. PICK k \in Nat \ {0, 1} :
           /\ k = Len(order) /\ Len(order') = k - 1 /\ order' # << >>
           /\ order[1] = s /\ tail' = order[2] /\ tail' = next[tail] /\ order[k] = head
           /\ \A i \in 1 .. k : order[i] \in Nodes /\ order[i] \in alive
           /\ \A i \in 2 .. k : order[i] # s
           /\ \A i \in 1 .. k - 1 : order'[i] = order[i + 1] /\ i + 1 \in 2 .. k
           /\ order' \in Seq(Nodes) /\ tail' \in Nodes
           /\ s # head /\ s \in Listed /\ Listed' = Listed \ {s}
           /\ next' \in [Nodes -> Nodes \cup {NoNode}]
           /\ \A n \in Nodes : next'[n] = IF n = s THEN NoNode ELSE next[n]
  BY <1>0, <1>1, <1>s, TakeLine
<1>v. /\ seen' \in [Threads -> SUBSET Places] /\ rel' \in [Atomics -> SUBSET Places]
      /\ \A u \in Threads, m \in Nodes :
           /\ DataOf(m) \in seen[u] => DataOf(m) \in seen'[u]
           /\ m # s => (LinkOf(m) \in seen[u] => LinkOf(m) \in seen'[u])
      /\ \A m \in Nodes : DataOf(m) \in rel[LinkOf(s)] => DataOf(m) \in seen'[Consumer]
      /\ LinkOf(s) \in seen'[Consumer]
      /\ \A a \in Atomics, m \in Nodes :
           /\ DataOf(m) \in rel[a] => DataOf(m) \in rel'[a]
           /\ m # s => (LinkOf(m) \in rel[a] => LinkOf(m) \in rel'[a])
  BY <1>0, <1>s, TakeViews
<1>2. /\ Held' = Held /\ Moving' = Moving \cup {Consumer} /\ Consumer \notin Moving
      /\ Held \subseteq Threads /\ Moving \subseteq Threads
      /\ \A u \in Moving : node'[u] = node[u] /\ pc[u] # "move" /\ pc'[u] # "move" /\ node[u] # s
      /\ \A u \in Held : holder[u] # s
  <2>1. /\ Held' = Held /\ Moving' = Moving \cup {Consumer} /\ Consumer \notin Moving
        /\ Held \subseteq Threads /\ Moving \subseteq Threads
    BY <1>0, <1>1, Constants DEF Held, Moving
  <2>2. \A u \in Moving : node'[u] = node[u] /\ pc[u] # "move" /\ pc'[u] # "move"
    BY <1>0, <1>1, <2>1 DEF TypeOK, Threads
  <2>3. (\A u \in Moving : node[u] # s) /\ \A u \in Held : holder[u] # s
    BY <1>0, <1>k DEF PlaceInv, Out
  <2> QED
    BY <2>1, <2>2, <2>3
<1>3. LineIntact' /\ LinkInv'
  <2>1. /\ \A u \in Threads : pc'[u] = "link" <=> pc[u] = "link"
        /\ \A u \in Threads : pc[u] = "link" => node'[u] = node[u]
    BY <1>0, <1>1
  <2> QED
    BY <1>0, <1>1, <2>1, TakeKeepsLine
<1>4. Out' = Out \cup {s}
  <2>1. {node'[u] : u \in Moving'} = {node[u] : u \in Moving} \cup {s}
    BY <1>1, <1>2, Constants
  <2>2. {holder'[u] : u \in Held'} = {holder[u] : u \in Held}
    BY <1>1, <1>2
  <2> QED
    BY <2>1, <2>2 DEF Out
<1>5. Carriers' = Carriers
  <2>1. {order[i] : i \in 2 .. Len(order)} = {order[2]} \cup {order'[i] : i \in 2 .. Len(order')}
    <3>1. ASSUME NEW i \in 2 .. k - 1
          PROVE  \E j \in 2 .. k : order'[i] = order[j]
      BY <1>k
    <3>2. ASSUME NEW j \in 2 .. k, j # 2
          PROVE  \E i \in 2 .. k - 1 : order'[i] = order[j]
      <4>1. PICK i \in 2 .. k - 1 : j = i + 1 /\ i \in 1 .. k - 1
        BY <3>2
      <4>2. order'[i] = order[j]
        BY <1>k, <4>1
      <4> QED
        BY <4>2
    <3>3. 2 \in 2 .. k
      OBVIOUS
    <3>4. {order[i] : i \in 2 .. k} = {order[2]} \cup {order'[i] : i \in 2 .. k - 1}
      BY <3>1, <3>2, <3>3
    <3> QED
      BY <1>k, <3>4
  <2>2. {IF pc'[u] = "move" THEN tail' ELSE node'[u] : u \in Moving'} =
          {IF pc[u] = "move" THEN tail ELSE node[u] : u \in Moving} \cup {tail'}
    BY <1>1, <1>2, Constants
  <2>3. {holder'[u] : u \in Held'} = {holder[u] : u \in Held}
    BY <1>1, <1>2
  <2> QED
    BY <1>k, <2>1, <2>2, <2>3 DEF Carriers
<1>6. NodesConserved'
  <2>1. alive' = Listed' \cup Out'
    BY <1>0, <1>1, <1>4, <1>k DEF NodesConserved, Listed, Out
  <2>2. Cardinality(Moving') = Cardinality(Moving) + 1
    BY <1>2, HandsFacts, FS_AddElement
  <2>3. Cardinality(alive') = Len(order') + Cardinality(Held') + Cardinality(Moving')
    <3>1. Cardinality(alive) = k + Cardinality(Held) + Cardinality(Moving)
      BY <1>0, <1>k DEF NodesConserved
    <3> QED
      <4>1. k \in Nat /\ Len(order') = k - 1 /\ alive' = alive /\ Held' = Held
        BY <1>1, <1>2, <1>k
      <4> QED
        BY <2>2, <3>1, <4>1, HandsFacts
  <2> QED
    BY <2>1, <2>3 DEF NodesConserved, Listed, Out
<1>7. PlaceInv'
  <2>1. \A i, j \in 1 .. Len(order') : order'[i] = order'[j] => i = j
    <3> SUFFICES ASSUME NEW i \in 1 .. k - 1, NEW j \in 1 .. k - 1, order'[i] = order'[j]
                 PROVE  i = j
      BY <1>k
    <3>1. i + 1 \in 1 .. k /\ j + 1 \in 1 .. k
      OBVIOUS
    <3>2. order[i + 1] = order[j + 1]
      BY <1>k
    <3>3. i + 1 = j + 1
      BY <1>0, <1>k, <3>1, <3>2 DEF PlaceInv
    <3> QED
      BY <3>3
  <2>2. \A u, v \in Held' : holder'[u] = holder'[v] => u = v
    BY <1>0, <1>1, <1>2 DEF PlaceInv
  <2>3. \A u \in Moving' : node'[u] \in Nodes
    BY <1>0, <1>1, <1>2, Constants DEF PlaceInv
  <2>4. \A u, v \in Moving' : node'[u] = node'[v] => u = v
    BY <1>0, <1>1, <1>2, Constants DEF PlaceInv
  <2>5. \A u \in Held', v \in Moving' : holder'[u] # node'[v]
    BY <1>0, <1>1, <1>2, Constants DEF PlaceInv
  <2>6. Listed' \cap Out' = {}
    BY <1>0, <1>4, <1>k DEF PlaceInv
  <2> QED
    BY <2>1, <2>2, <2>3, <2>4, <2>5, <2>6 DEF PlaceInv
<1>8. TypeOK'
  <2>1. /\ node' \in [Threads -> Nodes \cup {NoNode}]
        /\ pc' \in [Threads -> {"idle", "exchange", "link", "move", "destroy", "gone"}]
        /\ \A r \in Releasers : pc'[r] \in {"idle", "exchange", "link"}
    BY <1>0, Constants DEF TypeOK, PopTake, Goto
  <2> QED
    BY <1>0, <1>1, <1>k, <1>v, <2>1 DEF TypeOK
<1>9. Live' /\ EndInv' /\ AliveInv' /\ DataInv'
  <2>1. Live'
    BY <1>1, Constants DEF Live
  <2>2. EndInv'
    BY <1>0, <1>k, <2>1, EndLive
  <2> QED
    BY <1>0, <1>1, <1>5, <2>1, <2>2 DEF IInv, AliveInv, DataInv
<1>10. OrderInv'
  <2>1. /\ DataOf(s) \in seen[Consumer]
        /\ \A u \in Held : {DataOf(holder[u]), LinkOf(holder[u])} \subseteq seen[u]
        /\ \A u \in Moving : {DataOf(node[u]), LinkOf(node[u])} \subseteq seen[u]
        /\ \A u \in Threads : pc[u] = "link" => {DataOf(node[u]), LinkOf(old[u])} \subseteq seen[u]
        /\ LinkOf(head) \in rel[HeadAtomic] \/ \A u \in Threads : LinkOf(head) \in seen[u]
        /\ \A j \in 1 .. k - 1 :
             next[order[j]] # NoNode =>
               DataOf(order[j + 1]) \in rel[LinkOf(order[j])] \cup seen[Consumer]
    BY <1>0, <1>k, <1>s DEF IInv, OrderInv
  <2>2. DataOf(tail') \in seen'[Consumer]
    <3>1. PICK q \in Nodes : q = order[2] /\ q = tail'
      BY <1>k
    <3>2. next[order[1]] # NoNode /\ 1 \in 1 .. k - 1 /\ 1 + 1 = 2
      BY <1>0, <1>k, <1>s DEF TakeSeparator
    <3>3. DataOf(q) \in rel[LinkOf(s)] \cup seen[Consumer]
      BY <1>k, <2>1, <3>1, <3>2
    <3>4. DataOf(q) \in seen'[Consumer]
      BY <1>v, <3>3, Constants
    <3> QED
      BY <3>1, <3>4
  <2>3. \A u \in Held' : {DataOf(holder'[u]), LinkOf(holder'[u])} \subseteq seen'[u]
    <3>1. \A u \in Held : holder[u] \in Nodes
      BY <1>0 DEF Held, TypeOK
    <3> QED
      BY <1>1, <1>2, <1>v, <2>1, <3>1
  <2>4. \A u \in Moving' : {DataOf(node'[u]), LinkOf(node'[u])} \subseteq seen'[u]
    <3>1. DataOf(s) \in seen'[Consumer] /\ LinkOf(s) \in seen'[Consumer]
      BY <1>v, <2>1, Constants
    <3>2. \A u \in Moving : {DataOf(node[u]), LinkOf(node[u])} \subseteq seen'[u]
      BY <1>0, <1>2, <1>v, <2>1 DEF PlaceInv
    <3>3. node'[Consumer] = s
      BY <1>1, Constants
    <3> QED
      BY <1>2, <3>1, <3>2, <3>3
  <2>5. \A u \in Threads : pc'[u] = "link" => {DataOf(node'[u]), LinkOf(old'[u])} \subseteq seen'[u]
    <3> SUFFICES ASSUME NEW u \in Threads, pc'[u] = "link"
                 PROVE  {DataOf(node'[u]), LinkOf(old'[u])} \subseteq seen'[u]
      OBVIOUS
    <3>1. u # Consumer /\ pc[u] = "link" /\ node'[u] = node[u] /\ old'[u] = old[u]
      BY <1>1
    <3>2. PICK i \in 1 .. k - 1 :
            old[u] = order[i] /\ node[u] = order[i + 1] /\ next[order[i]] = NoNode
      BY <1>0, <1>k, <3>1 DEF LinkInv
    <3>3. i # 1
      BY <1>k, <1>0, <1>s, <3>2 DEF TakeSeparator
    <3>4. i \in 2 .. k /\ i \in 1 .. k /\ i + 1 \in 1 .. k
      BY <3>3
    <3>5. PICK o \in Nodes, m \in Nodes : o = old[u] /\ m = node[u] /\ o # s
      BY <1>k, <3>2, <3>4
    <3>6. DataOf(m) \in seen[u] /\ LinkOf(o) \in seen[u]
      BY <2>1, <3>1, <3>5
    <3>7. DataOf(m) \in seen'[u] /\ LinkOf(o) \in seen'[u]
      BY <1>v, <3>5, <3>6
    <3> QED
      BY <3>1, <3>5, <3>7
  <2>6. LinkOf(head') \in rel'[HeadAtomic] \/ \A u \in Threads : LinkOf(head') \in seen'[u]
    <3>1. PICK q \in Nodes : q = head /\ q = head' /\ q # s
      BY <1>0, <1>1, <1>k DEF TypeOK
    <3>2. LinkOf(q) \in rel[HeadAtomic] \/ \A u \in Threads : LinkOf(q) \in seen[u]
      BY <2>1, <3>1
    <3>3. LinkOf(q) \in rel'[HeadAtomic] \/ \A u \in Threads : LinkOf(q) \in seen'[u]
      BY <1>v, <3>1, <3>2, PlacesFacts
    <3> QED
      BY <3>1, <3>3
  <2>7. ASSUME NEW i \in 1 .. Len(order') - 1, next'[order'[i]] # NoNode
        PROVE  DataOf(order'[i + 1]) \in rel'[LinkOf(order'[i])] \cup seen'[Consumer]
    <3>1. PICK j \in 1 .. k - 1 : j = i + 1 /\ i \in 1 .. k - 1 /\ j \in 2 .. k /\ j + 1 \in 1 .. k
      BY <1>k
    <3>2. PICK o \in Nodes, m \in Nodes : o = order[j] /\ m = order[j + 1] /\ o # s
      BY <1>k, <3>1
    <3>3. order'[i] = o /\ order'[i + 1] = m
      BY <1>k, <3>1, <3>2
    <3>4. next[o] # NoNode
      BY <1>k, <2>7, <3>2, <3>3
    <3>5. DataOf(m) \in rel[LinkOf(o)] \cup seen[Consumer]
      BY <2>1, <3>2, <3>4
    <3>6. LinkOf(o) \in Atomics
      BY <3>2, PlacesFacts
    <3>7. DataOf(m) \in rel'[LinkOf(o)] \cup seen'[Consumer]
      BY <1>v, <3>2, <3>5, <3>6, Constants
    <3> QED
      BY <3>3, <3>7
  <2> QED
    BY <1>k, <2>2, <2>3, <2>4, <2>5, <2>6, <2>7 DEF OrderInv
<1> QED
  BY <1>3, <1>6, <1>7, <1>8, <1>9, <1>10 DEF IInv, Placed

LEMMA PopMoveStep ==
  ASSUME IInv, PopMove
  PROVE  IInv'
<1> DEFINE h == holder[Consumer]
<1>0. /\ TypeOK /\ NodesConserved /\ LineIntact /\ PlaceInv /\ LinkInv /\ EndInv /\ Placed
      /\ Live /\ pc[Consumer] = "move" /\ Consumer \in Moving
  BY Constants DEF IInv, Placed, PopMove, Live, Moving
<1>k. PICK k \in Nat \ {0} : k = Len(order)
  BY <1>0, LineFacts DEF Live
<1>s. PICK s \in Nodes, m \in Nodes : s = tail /\ m = node[Consumer]
  BY <1>0 DEF TypeOK, PlaceInv
<1>1. /\ Assign(Consumer, m)
      /\ data' = [data EXCEPT ![m] = data[s], ![s] = NoData]
      /\ seen' = Touch(Touch(seen, Consumer, DataOf(s)), Consumer, DataOf(m))
      /\ rel' = Forget(Forget(rel, DataOf(s)), DataOf(m))
      /\ UNCHANGED <<tail, head, next, alive, old, order>>
  BY <1>s DEF PopMove, DataMoved
<1>2. /\ \A u \in Threads : holder'[u] = IF u = Consumer THEN m ELSE holder[u]
      /\ \A u \in Threads : node'[u] = IF u = Consumer THEN h ELSE node[u]
      /\ \A u \in Threads : u # Consumer => pc'[u] = pc[u]
      /\ pc'[Consumer] = IF h = NoNode THEN "idle" ELSE "exchange"
      /\ holder' \in [Threads -> Nodes \cup {NoNode}]
      /\ node' \in [Threads -> Nodes \cup {NoNode}]
      /\ pc' \in [Threads -> {"idle", "exchange", "link", "move", "destroy", "gone"}]
      /\ \A r \in Releasers : pc'[r] \in {"idle", "exchange", "link"}
  BY <1>0, <1>1, Constants DEF TypeOK, Assign, Goto
<1>3. /\ Held \subseteq Threads /\ Moving \subseteq Threads
      /\ Held' = Held \cup {Consumer}
      /\ Moving' = IF h = NoNode THEN Moving \ {Consumer} ELSE Moving
      /\ Consumer \in Held <=> h # NoNode
      /\ \A u \in Held : holder[u] \in Nodes
      /\ \A u \in Moving \ {Consumer} : pc[u] # "move" /\ pc'[u] # "move"
  <2>1. /\ Held \subseteq Threads /\ Moving \subseteq Threads
        /\ Consumer \in Held <=> h # NoNode
        /\ \A u \in Held : holder[u] \in Nodes
    BY <1>0, Constants DEF Held, Moving, TypeOK
  <2>2. Held' = Held \cup {Consumer} /\ Moving' = IF h = NoNode THEN Moving \ {Consumer} ELSE Moving
    BY <1>0, <1>2, Constants DEF Held, Moving
  <2>3. \A u \in Moving \ {Consumer} : pc[u] # "move" /\ pc'[u] # "move"
    BY <1>0, <1>2, <2>1 DEF TypeOK, Threads
  <2> QED
    BY <2>1, <2>2, <2>3
<1>4. /\ \A i \in 1 .. k : order[i] \in Nodes /\ order[i] # m
      /\ \A i \in 2 .. k : i \in 1 .. k /\ order[i] # s
      /\ \A i \in 1 .. k - 1 : i \in 1 .. k /\ i + 1 \in 2 .. k
      /\ \A u \in Held : holder[u] # s /\ holder[u] # m
      /\ \A u \in Moving \ {Consumer} : node[u] # s /\ node[u] # m
      /\ m \in Out /\ s # m
  <2>1. /\ \A i \in 1 .. k : order[i] \in Nodes
        /\ order[1] = s /\ s \in Listed
    BY <1>0, <1>k, <1>s, LineFacts DEF Live, Listed
  <2>2. m \in Out /\ s # m /\ m \notin Listed
    BY <1>0, <1>s, <2>1 DEF Out, PlaceInv
  <2>3. \A i \in 1 .. k : order[i] # m
    BY <1>k, <2>2 DEF Listed
  <2>4. \A i \in 2 .. k : i \in 1 .. k /\ i # 1 /\ 1 \in 1 .. k
    OBVIOUS
  <2>5. \A i \in 2 .. k : order[i] # s
    BY <1>0, <1>k, <2>1, <2>4 DEF PlaceInv
  <2>6. \A u \in Held : holder[u] # s /\ holder[u] # m
    BY <1>0, <1>s, <2>1 DEF PlaceInv, Out
  <2>7. \A u \in Moving \ {Consumer} : node[u] # s /\ node[u] # m
    BY <1>0, <1>s, <2>1 DEF PlaceInv, Out
  <2>8. \A i \in 1 .. k - 1 : i \in 1 .. k /\ i + 1 \in 2 .. k
    OBVIOUS
  <2> QED
    BY <2>1, <2>2, <2>3, <2>4, <2>5, <2>6, <2>7, <2>8
<1>5. Live' /\ (\A u \in Threads : pc'[u] = "link" <=> pc[u] = "link")
  BY <1>0, <1>2, Constants DEF Live
<1>6. LineIntact' /\ LinkInv'
  <2>1. \A u \in Threads : pc[u] = "link" => node'[u] = node[u]
    BY <1>0, <1>2
  <2> QED
    BY <1>0, <1>1, <1>5, <2>1, LineKept
<1>7. /\ PlaceInv' /\ Listed' = Listed /\ Out' = Out
      /\ Cardinality(Held') + Cardinality(Moving') = Cardinality(Held) + Cardinality(Moving)
  <2>1. /\ PlaceInv' /\ Listed' = Listed /\ Out' = Out \cup ({m} \ {NoNode})
        /\ Cardinality(Held') + Cardinality(Moving') = Cardinality(Held) + Cardinality(Moving) + 0
    BY <1>0, <1>1, <1>s, Constants, AssignPlaces
  <2> QED
    BY <1>4, <2>1, HandsFacts
<1>8. NodesConserved'
  <2>1. alive' = Listed' \cup Out'
    BY <1>0, <1>1, <1>7 DEF NodesConserved, Listed, Out
  <2>2. Cardinality(alive) = k + Cardinality(Held) + Cardinality(Moving)
    BY <1>0, <1>k DEF NodesConserved
  <2>3. Cardinality(alive) = k + Cardinality(Held') + Cardinality(Moving')
    BY <1>7, <2>2, HandsFacts, HandsLater
  <2> QED
    BY <1>1, <1>k, <2>1, <2>3 DEF NodesConserved, Listed, Out
<1>v. /\ seen' \in [Threads -> SUBSET Places] /\ rel' \in [Atomics -> SUBSET Places]
      /\ \A u \in Threads, q \in Nodes :
           /\ u = Consumer \/ (q # s /\ q # m) => (DataOf(q) \in seen[u] => DataOf(q) \in seen'[u])
           /\ LinkOf(q) \in seen[u] => LinkOf(q) \in seen'[u]
      /\ DataOf(m) \in seen'[Consumer]
      /\ \A a \in Atomics, q \in Nodes :
           /\ q # s /\ q # m => (DataOf(q) \in rel[a] => DataOf(q) \in rel'[a])
           /\ LinkOf(q) \in rel[a] => LinkOf(q) \in rel'[a]
  <2> DEFINE w == Touch(seen, Consumer, DataOf(s))
             r == Forget(rel, DataOf(s))
  <2>1. /\ w \in [Threads -> SUBSET Places]
        /\ \A u \in Threads, q \in Nodes :
             /\ u = Consumer \/ q # s => (DataOf(q) \in seen[u] => DataOf(q) \in w[u])
             /\ LinkOf(q) \in seen[u] => LinkOf(q) \in w[u]
    BY <1>0, Constants, TouchData DEF TypeOK
  <2>2. /\ r \in [Atomics -> SUBSET Places]
        /\ \A a \in Atomics, q \in Nodes :
             /\ q # s => (DataOf(q) \in rel[a] => DataOf(q) \in r[a])
             /\ LinkOf(q) \in rel[a] => LinkOf(q) \in r[a]
    BY <1>0, ForgetData DEF TypeOK
  <2>3. seen' = Touch(w, Consumer, DataOf(m)) /\ rel' = Forget(r, DataOf(m))
    BY <1>1
  <2> HIDE DEF w, r
  <2>4. /\ seen' \in [Threads -> SUBSET Places]
        /\ \A u \in Threads, q \in Nodes :
             /\ u = Consumer \/ q # m => (DataOf(q) \in w[u] => DataOf(q) \in seen'[u])
             /\ LinkOf(q) \in w[u] => LinkOf(q) \in seen'[u]
        /\ DataOf(m) \in seen'[Consumer]
    BY <2>1, <2>3, Constants, TouchData
  <2>5. /\ rel' \in [Atomics -> SUBSET Places]
        /\ \A a \in Atomics, q \in Nodes :
             /\ q # m => (DataOf(q) \in r[a] => DataOf(q) \in rel'[a])
             /\ LinkOf(q) \in r[a] => LinkOf(q) \in rel'[a]
    BY <2>2, <2>3, ForgetData
  <2> QED
    BY <2>1, <2>2, <2>4, <2>5
<1>9. /\ data' \in [Nodes -> Elements \cup {NoData}]
      /\ \A n \in Nodes : data'[n] = IF n = s THEN NoData ELSE IF n = m THEN data[s] ELSE data[n]
  BY <1>0, <1>1, <1>4, <1>s DEF TypeOK
<1>10. TypeOK' /\ EndInv'
  BY <1>0, <1>1, <1>2, <1>5, <1>9, <1>v, EndLive DEF TypeOK, EndInv, Live
<1>11. AliveInv'
  <2>1. PICK j \in 1 .. NodeCount : alive = 1 .. j /\ \A n \in Nodes : data[n] < j
    BY <1>0 DEF IInv, AliveInv
  <2>2. NoData < j
    BY <2>1, Constants
  <2>3. \A n \in Nodes : data'[n] < j
    BY <1>9, <1>s, <2>1, <2>2
  <2> QED
    BY <1>1, <2>1, <2>3 DEF AliveInv
<1>12. DataInv'
  <2> DEFINE R == {order[i] : i \in 2 .. k} \cup {holder[u] : u \in Held}
                    \cup {node[u] : u \in Moving \ {Consumer}}
  <2>1. Carriers = R \cup {s}
    <3>1. {IF pc[u] = "move" THEN tail ELSE node[u] : u \in Moving} =
            {node[u] : u \in Moving \ {Consumer}} \cup {s}
      BY <1>0, <1>3, <1>s
    <3> QED
      BY <1>k, <3>1 DEF Carriers
  <2>2. Carriers' = R \cup {m}
    <3>1. {holder'[u] : u \in Held'} = {holder[u] : u \in Held \ {Consumer}} \cup {m}
      BY <1>2, <1>3, Constants
    <3>2. {holder[u] : u \in Held} = {holder[u] : u \in Held \ {Consumer}} \cup ({h} \ {NoNode})
      BY <1>3
    <3>3. {IF pc'[u] = "move" THEN tail' ELSE node'[u] : u \in Moving'} =
            {node[u] : u \in Moving \ {Consumer}} \cup ({h} \ {NoNode})
      <4>1. pc'[Consumer] # "move" /\ node'[Consumer] = h /\ Consumer \in Moving
        BY <1>0, <1>2, Constants
      <4>2. \A u \in Moving \ {Consumer} : node'[u] = node[u] /\ pc'[u] # "move"
        BY <1>2, <1>3
      <4>3. Moving' = IF h = NoNode THEN Moving \ {Consumer} ELSE Moving
        BY <1>3
      <4> HIDE DEF h
      <4> QED
        BY <4>1, <4>2, <4>3
    <3>4. {order'[i] : i \in 2 .. Len(order')} = {order[i] : i \in 2 .. k}
      BY <1>1, <1>k
    <3> HIDE DEF h
    <3> QED
      BY <3>1, <3>2, <3>3, <3>4 DEF Carriers
  <2>3. \A n \in R : n # s /\ n # m /\ n \in Nodes
    <3>1. \A i \in 2 .. k : order[i] # s /\ order[i] # m /\ order[i] \in Nodes
      BY <1>4
    <3>2. \A u \in Held : holder[u] # s /\ holder[u] # m /\ holder[u] \in Nodes
      BY <1>3, <1>4
    <3>3. \A u \in Moving \ {Consumer} : node[u] # s /\ node[u] # m /\ node[u] \in Nodes
      BY <1>0, <1>4 DEF PlaceInv
    <3> QED
      BY <3>1, <3>2, <3>3
  <2> HIDE DEF R
  <2>4. (\A n \in R : data'[n] = data[n]) /\ data'[m] = data[s]
    BY <1>4, <1>9, <2>3
  <2>5. /\ \A n \in R \cup {s} : data[n] \in Elements
        /\ \A n, q \in R \cup {s} : data[n] = data[q] => n = q
    BY <2>1 DEF IInv, DataInv
  <2>6. \A n \in R \cup {m} : data'[n] \in Elements
    BY <2>4, <2>5
  <2>7. \A n, q \in R \cup {m} : data'[n] = data'[q] => n = q
    BY <2>3, <2>4, <2>5
  <2> QED
    BY <2>2, <2>6, <2>7 DEF DataInv
<1>13. OrderInv'
  <2>1. /\ DataOf(s) \in seen[Consumer]
        /\ \A u \in Held : {DataOf(holder[u]), LinkOf(holder[u])} \subseteq seen[u]
        /\ \A u \in Moving : {DataOf(node[u]), LinkOf(node[u])} \subseteq seen[u]
        /\ \A u \in Threads : pc[u] = "link" => {DataOf(node[u]), LinkOf(old[u])} \subseteq seen[u]
        /\ LinkOf(head) \in rel[HeadAtomic] \/ \A u \in Threads : LinkOf(head) \in seen[u]
        /\ \A j \in 1 .. k - 1 :
             next[order[j]] # NoNode =>
               DataOf(order[j + 1]) \in rel[LinkOf(order[j])] \cup seen[Consumer]
    BY <1>0, <1>k, <1>s DEF IInv, OrderInv
  <2>2. DataOf(tail') \in seen'[Consumer]
    BY <1>1, <1>s, <1>v, <2>1, Constants
  <2>3. ASSUME NEW u \in Held'
        PROVE  {DataOf(holder'[u]), LinkOf(holder'[u])} \subseteq seen'[u]
    <3>1. CASE u = Consumer
      <4>1. LinkOf(m) \in seen[Consumer]
        BY <1>0, <1>s, <2>1
      <4>2. DataOf(m) \in seen'[Consumer] /\ LinkOf(m) \in seen'[Consumer]
        BY <1>v, <4>1, Constants
      <4>3. holder'[u] = m
        BY <1>2, <3>1, Constants
      <4> QED
        BY <3>1, <4>2, <4>3
    <3>2. CASE u # Consumer
      <4>1. u \in Held /\ u \in Threads /\ holder'[u] = holder[u]
        BY <1>2, <1>3, <3>2
      <4>2. PICK q \in Nodes : q = holder[u] /\ q # s /\ q # m
        BY <1>3, <1>4, <4>1
      <4>3. DataOf(q) \in seen[u] /\ LinkOf(q) \in seen[u]
        BY <2>1, <4>1, <4>2
      <4>4. DataOf(q) \in seen'[u] /\ LinkOf(q) \in seen'[u]
        BY <1>v, <4>1, <4>2, <4>3
      <4> QED
        BY <4>1, <4>2, <4>4
    <3> QED
      BY <3>1, <3>2
  <2>4. ASSUME NEW u \in Moving'
        PROVE  {DataOf(node'[u]), LinkOf(node'[u])} \subseteq seen'[u]
    <3>1. CASE u = Consumer
      <4>1. PICK q \in Nodes : q = h /\ Consumer \in Held
        BY <1>3, <3>1, <2>4
      <4>2. DataOf(q) \in seen[Consumer] /\ LinkOf(q) \in seen[Consumer]
        BY <2>1, <4>1
      <4>3. DataOf(q) \in seen'[Consumer] /\ LinkOf(q) \in seen'[Consumer]
        BY <1>v, <4>2, Constants
      <4>4. node'[u] = q
        BY <1>2, <3>1, <4>1, Constants
      <4> QED
        BY <3>1, <4>3, <4>4
    <3>2. CASE u # Consumer
      <4>1. u \in Moving \ {Consumer} /\ u \in Threads /\ node'[u] = node[u]
        BY <1>2, <1>3, <3>2
      <4>2. PICK q \in Nodes : q = node[u] /\ q # s /\ q # m
        BY <1>0, <1>4, <4>1 DEF PlaceInv
      <4>3. DataOf(q) \in seen[u] /\ LinkOf(q) \in seen[u]
        BY <2>1, <4>1, <4>2
      <4>4. DataOf(q) \in seen'[u] /\ LinkOf(q) \in seen'[u]
        BY <1>v, <4>1, <4>2, <4>3
      <4> QED
        BY <4>1, <4>2, <4>4
    <3> QED
      BY <3>1, <3>2
  <2>5. ASSUME NEW u \in Threads, pc'[u] = "link"
        PROVE  {DataOf(node'[u]), LinkOf(old'[u])} \subseteq seen'[u]
    <3>1. u # Consumer /\ pc[u] = "link" /\ node'[u] = node[u] /\ old'[u] = old[u]
      BY <1>0, <1>1, <1>2, <1>5, <2>5
    <3>2. PICK i \in 1 .. k - 1 : old[u] = order[i] /\ node[u] = order[i + 1]
      BY <1>0, <1>k, <3>1 DEF LinkInv
    <3>3. PICK o \in Nodes, q \in Nodes : o = old[u] /\ q = node[u] /\ q # s /\ q # m
      BY <1>4, <3>2
    <3>4. DataOf(q) \in seen[u] /\ LinkOf(o) \in seen[u]
      BY <2>1, <3>1, <3>3
    <3>5. DataOf(q) \in seen'[u] /\ LinkOf(o) \in seen'[u]
      BY <1>v, <3>3, <3>4
    <3> QED
      BY <3>1, <3>3, <3>5
  <2>6. LinkOf(head') \in rel'[HeadAtomic] \/ \A u \in Threads : LinkOf(head') \in seen'[u]
    <3>1. PICK q \in Nodes : q = head /\ q = head'
      BY <1>0, <1>1 DEF TypeOK
    <3>2. LinkOf(q) \in rel[HeadAtomic] \/ \A u \in Threads : LinkOf(q) \in seen[u]
      BY <2>1, <3>1
    <3>3. LinkOf(q) \in rel'[HeadAtomic] \/ \A u \in Threads : LinkOf(q) \in seen'[u]
      BY <1>v, <3>2, PlacesFacts
    <3> QED
      BY <3>1, <3>3
  <2>7. ASSUME NEW i \in 1 .. k - 1, next[order[i]] # NoNode
        PROVE  DataOf(order[i + 1]) \in rel'[LinkOf(order[i])] \cup seen'[Consumer]
    <3>1. PICK o \in Nodes, q \in Nodes : o = order[i] /\ q = order[i + 1] /\ q # s /\ q # m
      BY <1>4
    <3>2. DataOf(q) \in rel[LinkOf(o)] \cup seen[Consumer]
      BY <2>1, <2>7, <3>1
    <3>3. LinkOf(o) \in Atomics
      BY <3>1, PlacesFacts
    <3>4. DataOf(q) \in rel'[LinkOf(o)] \cup seen'[Consumer]
      BY <1>v, <3>1, <3>2, <3>3, Constants
    <3> QED
      BY <3>1, <3>4
  <2> QED
    BY <1>1, <1>k, <2>2, <2>3, <2>4, <2>5, <2>6, <2>7 DEF OrderInv
<1> QED
  BY <1>6, <1>7, <1>8, <1>10, <1>11, <1>12, <1>13 DEF IInv, Placed

-----------------------------------------------------------------------------
(* The steps of ~ScmrPool, and the proof that IInv is inductive *)

(* Once the pool is being destroyed, all nodes are in the line.             *)
LEMMA NobodyOut ==
  ASSUME Placed, ~Live
  PROVE  /\ Held = {} /\ Moving = {} /\ Out = {} /\ alive = Listed
         /\ Cardinality(alive) = Len(order) /\ Len(order) \in Nat
         /\ \A t \in Threads : pc[t] # "link" /\ pc[t] # "exchange" /\ pc[t] # "move"
         /\ Carriers = {order[i] : i \in 2 .. Len(order)}
<1>1. Held = {} /\ \A t \in Threads : pc[t] # "link" /\ pc[t] # "exchange" /\ pc[t] # "move"
  BY DEF Placed, EndInv, Live, Held
<1>2. Moving = {}
  BY <1>1 DEF Moving
<1>3. Out = {} /\ Carriers = {order[i] : i \in 2 .. Len(order)}
  BY <1>1, <1>2 DEF Out, Carriers
<1>4. Cardinality({}) = 0 /\ Len(order) \in Nat
  BY FS_EmptySet DEF Placed, TypeOK
<1>5. alive = Listed /\ Cardinality(alive) = Len(order)
  BY <1>1, <1>2, <1>4 DEF Placed, NodesConserved, Listed
<1> QED
  BY <1>1, <1>2, <1>3, <1>4, <1>5

(* ... and what is left of the invariant.                                   *)
LEMMA NobodyLater ==
  ASSUME \A t \in Threads : holder'[t] = NoNode,
         \A t \in Threads : pc'[t] \in {"idle", "destroy", "gone"},
         Len(order') \in Nat,
         alive' = Listed', Cardinality(alive') = Len(order')
  PROVE  /\ NodesConserved'
         /\ (\A i, j \in 1 .. Len(order') : order'[i] = order'[j] => i = j) => PlaceInv'
         /\ LinkInv'
         /\ Carriers' = {order'[i] : i \in 2 .. Len(order')}
<1>1. Held' = {} /\ Moving' = {}
  BY DEF Held, Moving
<1>2. Out' = {} /\ Carriers' = {order'[i] : i \in 2 .. Len(order')}
  BY <1>1 DEF Out, Carriers
<1>3. Cardinality({}) = 0
  BY FS_EmptySet
<1>4. NodesConserved'
  BY <1>1, <1>3 DEF NodesConserved, Listed
<1>5. LinkInv'
  BY DEF LinkInv
<1>6. (\A i, j \in 1 .. Len(order') : order'[i] = order'[j] => i = j) => PlaceInv'
  BY <1>1, <1>2 DEF PlaceInv
<1> QED
  BY <1>2, <1>4, <1>5, <1>6

LEMMA DestroyBeginStep ==
  ASSUME IInv, DestroyBegin
  PROVE  IInv'
<1>0. TypeOK /\ NodesConserved /\ LineIntact /\ PlaceInv /\ LinkInv /\ EndInv /\ Placed
  BY DEF IInv, Placed
<1>1. /\ \A t \in Threads : pc[t] = "idle" /\ holder[t] = NoNode
      /\ \A t \in Threads : pc'[t] = IF t = Consumer THEN "destroy" ELSE "idle"
      /\ UNCHANGED <<tail, head, next, data, alive, holder, node, old, order, seen, rel>>
  BY <1>0 DEF DestroyBegin, Goto, TypeOK
<1>2. ~Live' /\ order # << >>
  BY <1>0, <1>1, Constants DEF Live, EndInv
<1>3. /\ Held = {} /\ Moving = {} /\ Held' = {} /\ Moving' = {} /\ Listed' = Listed
  BY <1>1 DEF Held, Moving, Listed
<1>4. Out' = Out /\ Carriers' = Carriers
  BY <1>1, <1>3 DEF Out, Carriers
<1>5. NodesConserved' /\ PlaceInv'
  BY <1>0, <1>1, <1>3, <1>4 DEF NodesConserved, PlaceInv
<1>6. LineIntact' /\ LinkInv'
  <2>1. \A u \in Threads : pc'[u] = "link" <=> pc[u] = "link"
    BY <1>1
  <2> QED
    BY <1>0, <1>1, <2>1, LineKept
<1>7. TypeOK'
  <2>1. /\ pc' \in [Threads -> {"idle", "exchange", "link", "move", "destroy", "gone"}]
        /\ \A r \in Releasers : pc'[r] \in {"idle", "exchange", "link"}
    BY <1>0, <1>1, Constants DEF DestroyBegin, Goto, TypeOK
  <2> QED
    BY <1>0, <1>1, <2>1 DEF TypeOK
<1>8. EndInv'
  BY <1>1, <1>2, Constants DEF EndInv
<1>9. AliveInv' /\ OrderInv' /\ DataInv'
  BY <1>1, <1>2, <1>4 DEF AliveInv, OrderInv, IInv, DataInv
<1> QED
  BY <1>5, <1>6, <1>7, <1>8, <1>9 DEF IInv, Placed

LEMMA DestroyNextStep ==
  ASSUME IInv, DestroyNext
  PROVE  IInv'
<1>0. /\ TypeOK /\ NodesConserved /\ LineIntact /\ PlaceInv /\ LinkInv /\ EndInv /\ Placed
      /\ ~Live /\ pc[Consumer] = "destroy" /\ TakeSeparator
      /\ UNCHANGED <<head, holder, pc, node, old>>
  BY DEF IInv, Placed, DestroyNext, Live
<1>s. PICK s \in Nodes : s = tail
  BY <1>0 DEF TypeOK
<1>k. PICK k \in Nat \ {0, 1} :
           /\ k = Len(order) /\ Len(order') = k - 1 /\ order' # << >>
           /\ order[1] = s /\ tail' = order[2] /\ tail' = next[tail] /\ order[k] = head
           /\ \A i \in 1 .. k : order[i] \in Nodes /\ order[i] \in alive
           /\ \A i \in 2 .. k : order[i] # s
           /\ \A i \in 1 .. k - 1 : order'[i] = order[i + 1] /\ i + 1 \in 2 .. k
           /\ order' \in Seq(Nodes) /\ tail' \in Nodes
           /\ s # head /\ s \in Listed /\ Listed' = Listed \ {s}
           /\ next' \in [Nodes -> Nodes \cup {NoNode}]
           /\ \A n \in Nodes : next'[n] = IF n = s THEN NoNode ELSE next[n]
  BY <1>0, <1>s, TakeLine
<1>1. /\ alive' = alive \ {s}
      /\ data' = [data EXCEPT ![s] = NoData, ![order[2]] = NoData]
  BY <1>k, <1>s DEF DestroyNext
<1>2. /\ \A t \in Threads : holder'[t] = NoNode
      /\ \A t \in Threads : pc'[t] \in {"idle", "destroy", "gone"}
  BY <1>0 DEF EndInv, Live
<1>3. alive' = Listed' /\ Cardinality(alive') = Len(order') /\ Len(order') \in Nat
  <2>1. alive = Listed /\ Cardinality(alive) = k
    BY <1>0, <1>k, NobodyOut
  <2>2. IsFiniteSet(alive)
    <3>1. IsFiniteSet(Nodes)
      BY Constants, FS_Interval
    <3> QED
      BY <1>0, <3>1, FS_Subset DEF TypeOK
  <2>3. Cardinality(alive') = k - 1
    <3>1. s \in alive
      BY <1>k, <2>1
    <3>2. Cardinality(alive \ {s}) = Cardinality(alive) - 1
      BY <2>2, <3>1, FS_RemoveElement
    <3> QED
      BY <1>1, <2>1, <3>2
  <2> QED
    BY <1>1, <1>k, <2>1, <2>3
<1>4. PlaceInv' /\ NodesConserved' /\ LinkInv' /\ Carriers' = {order'[i] : i \in 2 .. Len(order')}
  <2>1. \A i, j \in 1 .. Len(order') : order'[i] = order'[j] => i = j
    <3> SUFFICES ASSUME NEW i \in 1 .. k - 1, NEW j \in 1 .. k - 1, order'[i] = order'[j]
                 PROVE  i = j
      BY <1>k
    <3>1. i + 1 \in 1 .. k /\ j + 1 \in 1 .. k
      OBVIOUS
    <3>2. order[i + 1] = order[j + 1]
      BY <1>k
    <3>3. i + 1 = j + 1
      BY <1>0, <1>k, <3>1, <3>2 DEF PlaceInv
    <3> QED
      BY <3>3
  <2> QED
    BY <1>2, <1>3, <2>1, NobodyLater
<1>5. LineIntact'
  <2>1. alive' \subseteq alive /\ UNCHANGED <<head, old>>
    BY <1>0, <1>1
  <2>2. /\ \A u \in Threads : pc'[u] = "link" <=> pc[u] = "link"
        /\ \A u \in Threads : pc[u] = "link" => node'[u] = node[u]
    BY <1>0
  <2> QED
    BY <1>0, <2>1, <2>2, TakeKeepsLine
<1>6. TypeOK'
  <2>1. seen' \in [Threads -> SUBSET Places] /\ rel' \in [Atomics -> SUBSET Places]
    BY <1>0, <1>s, TakeViews
  <2>2. data' \in [Nodes -> Elements \cup {NoData}]
    BY <1>0, <1>1 DEF TypeOK
  <2> QED
    BY <1>0, <1>1, <1>k, <2>1, <2>2 DEF TypeOK
<1>7. EndInv' /\ ~Live'
  BY <1>0, <1>2, <1>k DEF EndInv, Live
<1>8. DataInv'
  <2>1. \A i \in 2 .. k - 1 : /\ i \in 1 .. k - 1 /\ i + 1 \in 2 .. k /\ i + 1 # 2
                              /\ 2 \in 2 .. k /\ i + 1 \in 1 .. k /\ 2 \in 1 .. k
    OBVIOUS
  <2>2. \A i \in 2 .. k - 1 : /\ order[i + 1] # s /\ order[i + 1] # order[2]
                              /\ order[i + 1] \in Nodes
    BY <1>0, <1>k, <2>1 DEF PlaceInv
  <2>3. \A n \in Carriers' : n \in Carriers /\ data'[n] = data[n]
    <3> SUFFICES ASSUME NEW n \in Carriers'
                 PROVE  n \in Carriers /\ data'[n] = data[n]
      OBVIOUS
    <3>1. PICK i \in 2 .. k - 1 : n = order[i + 1]
      BY <1>4, <1>k, <2>1
    <3>2. n \in Carriers
      BY <1>0, <1>k, <2>1, <3>1, NobodyOut
    <3>3. data'[n] = data[n]
      BY <1>0, <1>1, <2>2, <3>1 DEF TypeOK
    <3> QED
      BY <3>2, <3>3
  <2> QED
    BY <2>3 DEF IInv, DataInv
<1> QED
  BY <1>4, <1>5, <1>6, <1>7, <1>8 DEF IInv, Placed, AliveInv, OrderInv

LEMMA DestroyLastStep ==
  ASSUME IInv, DestroyLast
  PROVE  IInv'
<1>0. /\ TypeOK /\ NodesConserved /\ LineIntact /\ PlaceInv /\ LinkInv /\ EndInv /\ Placed
      /\ ~Live /\ pc[Consumer] = "destroy" /\ next[tail] = NoNode
      /\ alive' = alive \ {tail} /\ order' = << >>
      /\ UNCHANGED <<tail, head, next, data, holder, node, old, seen, rel>>
  BY DEF IInv, Placed, DestroyLast, Live
<1>k. PICK k \in Nat \ {0} :
        k = Len(order) /\ order[1] = tail /\ \A i \in 1 .. k : order[i] \in Nodes
  BY <1>0, LineFacts
<1>1. k = 1
  <2> SUFFICES ASSUME k # 1
               PROVE  FALSE
    OBVIOUS
  <2>1. 1 \in 1 .. k - 1 /\ 1 + 1 \in 1 .. k
    OBVIOUS
  <2>2. next[order[1]] = order[1 + 1]
    BY <1>0, <1>k, <2>1, NobodyOut DEF LineIntact
  <2> QED
    BY <1>0, <1>k, <2>1, <2>2, Constants
<1>2. alive' = {}
  <2>1. alive = Listed /\ Listed = {order[i] : i \in 1 .. 1}
    BY <1>0, <1>1, <1>k, NobodyOut DEF Listed
  <2> QED
    BY <1>0, <1>k, <2>1
<1>3. /\ \A t \in Threads : pc'[t] = IF t = Consumer THEN "gone" ELSE pc[t]
      /\ pc' \in [Threads -> {"idle", "exchange", "link", "move", "destroy", "gone"}]
      /\ \A r \in Releasers : pc'[r] \in {"idle", "exchange", "link"}
  BY <1>0, Constants DEF DestroyLast, Goto, TypeOK
<1>4. /\ \A t \in Threads : holder'[t] = NoNode
      /\ \A t \in Threads : pc'[t] \in {"idle", "destroy", "gone"}
      /\ \A t \in Threads : t # Consumer => pc'[t] = "idle"
  BY <1>0, <1>3 DEF EndInv, Live
<1>5. Len(order') = 0 /\ Listed' = {}
  BY <1>0 DEF Listed
<1>6. PlaceInv' /\ NodesConserved' /\ LinkInv' /\ Carriers' = {}
  <2>1. Cardinality({}) = 0
    BY FS_EmptySet
  <2>2. alive' = Listed' /\ Cardinality(alive') = Len(order') /\ Len(order') \in Nat
    BY <1>2, <1>5, <2>1
  <2>3. {order'[i] : i \in 2 .. Len(order')} = {}
    BY <1>5
  <2>4. \A i, j \in 1 .. Len(order') : order'[i] = order'[j] => i = j
    BY <1>5
  <2> QED
    BY <1>4, <2>2, <2>3, <2>4, NobodyLater
<1>7. LineIntact'
  BY <1>0, <1>2, <1>5 DEF LineIntact
<1>8. TypeOK'
  BY <1>0, <1>2, <1>3, EmptySeq DEF TypeOK
<1>9. EndInv' /\ ~Live'
  BY <1>0, <1>3, <1>4, Constants DEF EndInv, Live
<1> QED
  BY <1>6, <1>7, <1>8, <1>9 DEF IInv, Placed, AliveInv, OrderInv, DataInv

LEMMA InitIInv ==
  Init => IInv
<1> SUFFICES ASSUME Init
             PROVE  IInv
  OBVIOUS
<1> DEFINE k == InitCount + 1
<1>1. /\ k \in Nat \ {0} /\ k <= NodeCount /\ NodeCount \in Nat \ {0} /\ InitCount \in Nat
      /\ \A i \in 1 .. k : i \in Nodes
      /\ \A i \in 1 .. k - 1 : i \in 1 .. k /\ i + 1 \in 1 .. k /\ i <= InitCount
      /\ k \in Nodes /\ 1 \in Nodes /\ Nodes = 1 .. NodeCount /\ NoNode = 0
  BY Constants
<1>2. /\ order = [i \in 1 .. k |-> i] /\ order \in Seq(Nodes) /\ Len(order) = k
      /\ \A i \in 1 .. k : order[i] = i
      /\ order # << >>
  <2>1. order = [i \in 1 .. k |-> i]
    BY DEF Init
  <2>2. order \in Seq(Nodes) /\ Len(order) = k
    BY <1>1, <2>1
  <2> QED
    BY <1>1, <2>1, <2>2, EmptySeq
<1>3. /\ tail = 1 /\ head = k /\ alive = 1 .. k
      /\ \A n \in Nodes : next[n] = IF n <= InitCount THEN n + 1 ELSE NoNode
      /\ \A n \in Nodes : data[n] = IF n <= k THEN n - 1 ELSE NoData
      /\ \A t \in Threads : /\ holder[t] = NoNode /\ pc[t] = "idle" /\ node[t] = NoNode
                            /\ old[t] = NoNode /\ seen[t] = Places
      /\ \A a \in Atomics : rel[a] = {}
  BY DEF Init
<1> HIDE DEF k
<1>4. TypeOK
  <2>1. next \in [Nodes -> Nodes \cup {NoNode}]
    <3>1. \A n \in Nodes : n <= InitCount => n + 1 \in Nodes
      BY Constants
    <3>2. \A n \in Nodes : (IF n <= InitCount THEN n + 1 ELSE NoNode) \in Nodes \cup {NoNode}
      BY <3>1
    <3> QED
      BY <3>2 DEF Init
  <2>2. data \in [Nodes -> Elements \cup {NoData}]
    <3>1. \A n \in Nodes : n <= InitCount + 1 => n - 1 \in Elements \cup {NoData}
      BY Constants
    <3>2. \A n \in Nodes : (IF n <= InitCount + 1 THEN n - 1 ELSE NoData) \in Elements \cup {NoData}
      BY <3>1
    <3> QED
      BY <3>2 DEF Init
  <2>3. seen \in [Threads -> SUBSET Places] /\ rel \in [Atomics -> SUBSET Places]
    BY DEF Init
  <2>4. /\ holder \in [Threads -> Nodes \cup {NoNode}]
        /\ pc \in [Threads -> {"idle", "exchange", "link", "move", "destroy", "gone"}]
        /\ \A r \in Releasers : pc[r] \in {"idle", "exchange", "link"}
        /\ node \in [Threads -> Nodes \cup {NoNode}]
        /\ old \in [Threads -> Nodes \cup {NoNode}]
    BY Constants DEF Init
  <2>5. tail \in Nodes /\ head \in Nodes /\ alive \subseteq Nodes
    BY <1>1, <1>3
  <2> QED
    BY <1>2, <2>1, <2>2, <2>3, <2>4, <2>5 DEF TypeOK
<1>5. Held = {} /\ Moving = {} /\ Listed = 1 .. k
  <2>1. Held = {} /\ Moving = {}
    BY <1>3 DEF Held, Moving
  <2>2. Listed = {i : i \in 1 .. k}
    BY <1>2 DEF Listed
  <2> QED
    BY <2>1, <2>2
<1>6. NodesConserved
  <2>1. Cardinality(1 .. k) = k /\ Cardinality({}) = 0
    BY <1>1, FS_Interval, FS_EmptySet
  <2> QED
    BY <1>1, <1>2, <1>3, <1>5, <2>1 DEF NodesConserved, Listed
<1>7. LineIntact
  <2>1. order[1] = tail /\ order[Len(order)] = head
    BY <1>1, <1>2, <1>3
  <2>2. \A i \in 1 .. Len(order) - 1 : next[order[i]] = order[i + 1]
    BY <1>1, <1>2, <1>3
  <2>3. \A n \in alive : (n = head \/ \A i \in 1 .. Len(order) : order[i] # n) => next[n] = NoNode
    <3>1. next[k] = NoNode
      BY <1>1, <1>3 DEF k
    <3>2. \A n \in alive : order[n] = n /\ n \in 1 .. Len(order)
      BY <1>2, <1>3
    <3> QED
      BY <1>3, <3>1, <3>2
  <2> QED
    BY <2>1, <2>2, <2>3 DEF LineIntact
<1>8. PlaceInv /\ LinkInv
  <2>1. Out = {}
    BY <1>5 DEF Out
  <2>2. \A i, j \in 1 .. Len(order) : order[i] = order[j] => i = j
    BY <1>2
  <2>3. PlaceInv
    BY <1>5, <2>1, <2>2 DEF PlaceInv
  <2>4. LinkInv
    BY <1>3 DEF LinkInv
  <2> QED
    BY <2>3, <2>4
<1>9. EndInv /\ AliveInv
  <2>1. EndInv
    BY <1>2, <1>3, Constants DEF EndInv, Live
  <2>2. \A n \in Nodes : data[n] < k
    BY <1>1, <1>3, Constants
  <2>3. k \in 1 .. NodeCount
    BY <1>1
  <2> QED
    BY <1>3, <2>1, <2>2, <2>3 DEF AliveInv
<1>10. DataInv
  <2>1. Carriers = {order[i] : i \in 2 .. k}
    BY <1>2, <1>5 DEF Carriers
  <2>2. \A i \in 2 .. k : order[i] = i /\ i \in Nodes /\ data[i] = i - 1 /\ i - 1 \in Elements
    <3>1. \A i \in 2 .. k : i \in 1 .. k /\ i <= k /\ i - 1 \in Elements
      BY <1>1, Constants
    <3> QED
      BY <1>1, <1>2, <1>3, <3>1
  <2>3. \A n \in Carriers : n \in 2 .. k
    BY <2>1, <2>2
  <2> QED
    BY <2>2, <2>3 DEF DataInv
<1>11. OrderInv
  <2>1. \A n \in Nodes : DataOf(n) \in Places /\ LinkOf(n) \in Places
    BY PlacesFacts
  <2>2. DataOf(tail) \in seen[Consumer] /\ \A t \in Threads : LinkOf(head) \in seen[t]
    BY <1>3, <1>4, <2>1, Constants DEF TypeOK
  <2>3. \A i \in 1 .. Len(order) - 1 : DataOf(order[i + 1]) \in seen[Consumer]
    BY <1>1, <1>2, <1>3, <2>1, Constants
  <2>4. \A t \in Threads : pc[t] # "link"
    BY <1>3
  <2> QED
    BY <1>5, <2>2, <2>3, <2>4 DEF OrderInv
<1> QED
  BY <1>4, <1>6, <1>7, <1>8, <1>9, <1>10, <1>11 DEF IInv, Placed

LEMMA NextIInv ==
  IInv /\ [Next]_vars => IInv'
<1> SUFFICES ASSUME IInv, [Next]_vars
             PROVE  IInv'
  OBVIOUS
<1>1. ASSUME NEW t \in Threads, Create(t)
      PROVE  IInv'
  BY <1>1, CreateStep
<1>2. ASSUME NEW t \in Threads, Use(t)
      PROVE  IInv'
  BY <1>2, UseStep
<1>3. ASSUME NEW t \in Threads, Drop(t)
      PROVE  IInv'
  BY <1>3, DropStep DEF Drop
<1>4. ASSUME NEW t \in Threads, PushExchange(t)
      PROVE  IInv'
  BY <1>4, PushExchangeStep
<1>5. ASSUME NEW t \in Threads, PushLink(t)
      PROVE  IInv'
  BY <1>5, PushLinkStep
<1>6. ASSUME NEW t \in Threads, NEW u \in Threads, Move(t, u)
      PROVE  IInv'
  BY <1>6, MoveStep
<1>7. CASE PopTake
  BY <1>7, PopTakeStep
<1>8. CASE PopFail
  BY <1>8, DropStep, Constants DEF PopFail
<1>9. CASE PopMove
  BY <1>9, PopMoveStep
<1>10. CASE DestroyBegin
  BY <1>10, DestroyBeginStep
<1>11. CASE DestroyNext
  BY <1>11, DestroyNextStep
<1>12. CASE DestroyLast
  BY <1>12, DestroyLastStep
<1>13. CASE UNCHANGED vars
  <2>1. /\ UNCHANGED <<tail, head, next, data, alive, holder, pc, node, old, order>>
        /\ UNCHANGED <<seen, rel>>
    BY <1>13 DEF vars
  <2>2. TypeOK'
    BY <2>1 DEF IInv, Placed, TypeOK
  <2>3. OrderInv'
    <3>1. Held' = Held /\ Moving' = Moving
      BY <2>1 DEF Held, Moving
    <3> QED
      BY <2>1, <3>1 DEF IInv, OrderInv, Live
  <2> QED
    BY <2>1, <2>2, <2>3, NodesFrame DEF IInv, Placed
<1> QED
  BY <1>1, <1>2, <1>3, <1>4, <1>5, <1>6, <1>7, <1>8, <1>9, <1>10, <1>11, <1>12, <1>13
     DEF Next, Push, Pop, Destroy, Terminating

LEMMA SpecIInv ==
  Spec => []IInv
BY InitIInv, NextIInv, PTL DEF Spec

-----------------------------------------------------------------------------
(* The pool's steps keep the types of the variables.                        *)
THEOREM TypeCorrect ==
  Spec => []TypeOK
<1>1. IInv => TypeOK
  BY DEF IInv, Placed
<1> QED
  BY <1>1, SpecIInv, PTL

(* For any number of threads, nodes and elements, no node is lost, lent     *)
(* twice or released twice, the line leads from tail_ to head_ but for gaps *)
(* that are about to be closed, and the threads race for no node            *)
(* (scmr_pool.h:30-73).                                                     *)
THEOREM NodesAreIntact ==
  Spec => []NodesIntact
<1>1. ASSUME IInv
      PROVE  AccessesOrdered
  <2>1. Placed
    BY <1>1 DEF IInv
  <2>2. CASE Live
    BY <1>1, <2>1, <2>2, Constants
       DEF AccessesOrdered, IInv, OrderInv, Held, Moving
  <2>3. CASE ~Live
    <3>1. (\A t \in Threads : holder[t] = NoNode) /\ pc[Consumer] # "move"
      BY <2>1, <2>3 DEF Placed, EndInv, Live
    <3>2. \A t \in Threads : pc[t] # "link"
      BY <2>1, <2>3, NobodyOut
    <3> QED
      BY <3>1, <3>2 DEF AccessesOrdered
  <2> QED
    BY <2>2, <2>3
<1>2. IInv => NodesIntact
  BY <1>1 DEF IInv, Placed, NodesIntact
<1> QED
  BY <1>2, SpecIInv, PTL

-----------------------------------------------------------------------------
(* The pool implements ElementPool *)

(* Linked: the elements that can be lent as soon as they are first.  Taken: *)
(* the nodes whose elements are in use.                                     *)
Linked == {Line[i] : i \in {k \in 1 .. Len(order) - 1 : next[order[k]] # NoNode}}

Taken ==
  IF pc[Consumer] = "move"
    THEN ((alive \ Listed) \ {node[Consumer]}) \cup {tail}
    ELSE alive \ Listed

LEMMA TakenFacts ==
  Placed => /\ Lent = {data[n] : n \in Taken}
            /\ Carriers = {order[i] : i \in 2 .. Len(order)} \cup Taken
<1> SUFFICES ASSUME Placed
             PROVE  /\ Lent = {data[n] : n \in Taken}
                    /\ Carriers = {order[i] : i \in 2 .. Len(order)} \cup Taken
  OBVIOUS
<1> DEFINE Of(t) == IF pc[t] = "move" THEN tail ELSE node[t]
           U == {holder[t] : t \in Held} \cup {Of(t) : t \in Moving}
<1>1. Lent = {data[n] : n \in U} /\ Carriers = {order[i] : i \in 2 .. Len(order)} \cup U
  BY DEF Lent, Carriers
<1>2. alive \ Listed = {holder[t] : t \in Held} \cup {node[t] : t \in Moving}
  <2>1. alive = Listed \cup Out /\ Listed \cap Out = {}
    BY DEF Placed, NodesConserved, PlaceInv, Listed, Out
  <2> QED
    BY <2>1 DEF Out
<1>3. Moving \subseteq Threads /\ \A t \in Moving : t # Consumer => Of(t) = node[t]
  BY DEF Placed, TypeOK, Moving, Threads
<1>4. CASE pc[Consumer] # "move"
  <2>1. {Of(t) : t \in Moving} = {node[t] : t \in Moving}
    BY <1>3, <1>4
  <2>2. U = Taken
    BY <1>2, <1>4, <2>1 DEF Taken
  <2> QED
    BY <1>1, <2>2
<1>5. CASE pc[Consumer] = "move"
  <2>1. Consumer \in Moving /\ Of(Consumer) = tail
    BY <1>5, Constants DEF Moving
  <2>2. \A t \in Moving : t # Consumer => node[t] # node[Consumer]
    BY <2>1 DEF Placed, PlaceInv
  <2>3. \A t \in Held : holder[t] # node[Consumer]
    BY <2>1 DEF Placed, PlaceInv
  <2>4. {Of(t) : t \in Moving} = {node[t] : t \in Moving \ {Consumer}} \cup {tail}
    BY <1>3, <2>1
  <2>5. {node[t] : t \in Moving \ {Consumer}} = {node[t] : t \in Moving} \ {node[Consumer]}
    BY <2>1, <2>2
  <2>6. U = Taken
    BY <1>2, <1>5, <2>3, <2>4, <2>5 DEF Taken
  <2> QED
    BY <1>1, <2>6
<1> QED
  BY <1>4, <1>5

LentIsTaken == Placed => Lent = {data[n] : n \in Taken}

LEMMA LentNow == LentIsTaken
BY TakenFacts DEF LentIsTaken

LEMMA LentLater == LentIsTaken'
BY LentNow, PTL

(* The elements that wait, and those that can be lent.                      *)
LEMMA WaitingFacts ==
  ASSUME Placed, DataInv, NEW k \in Nat \ {0}, k = Len(order)
  PROVE  /\ Line \in Seq(Elements) /\ Len(Line) = k - 1
         /\ \A i \in 1 .. k - 1 : Line[i] = data[order[i + 1]] /\ order[i + 1] \in Carriers
         /\ \A i, j \in 1 .. k - 1 : Line[i] = Line[j] => i = j
         /\ Linked = {Line[i] : i \in {j \in 1 .. k - 1 : next[order[j]] # NoNode}}
         /\ Linked \subseteq {Line[i] : i \in 1 .. Len(Line)}
         /\ \A n \in Taken : data[n] \in Elements
<1>1. \A i \in 1 .. k - 1 : i + 1 \in 2 .. k /\ i + 1 \in 1 .. k
  OBVIOUS
<1>2. \A i \in 1 .. k - 1 : order[i + 1] \in Carriers /\ data[order[i + 1]] \in Elements
  BY <1>1 DEF Carriers, DataInv
<1>3. Line = [i \in 1 .. k - 1 |-> data[order[i + 1]]]
  BY DEF Line
<1>4. Line \in Seq(Elements) /\ Len(Line) = k - 1
  BY <1>2, <1>3
<1>5. \A i \in 1 .. k - 1 : Line[i] = data[order[i + 1]]
  BY <1>3
<1>6. ASSUME NEW i \in 1 .. k - 1, NEW j \in 1 .. k - 1, Line[i] = Line[j]
      PROVE  i = j
  <2>1. order[i + 1] = order[j + 1]
    BY <1>2, <1>5, <1>6 DEF DataInv
  <2>2. i + 1 = j + 1
    BY <1>1, <2>1 DEF Placed, PlaceInv
  <2> QED
    BY <2>2
<1>7. Linked = {Line[i] : i \in {j \in 1 .. k - 1 : next[order[j]] # NoNode}}
  BY DEF Linked
<1>8. \A n \in Taken : data[n] \in Elements
  BY TakenFacts DEF DataInv
<1> QED
  BY <1>2, <1>4, <1>5, <1>6, <1>7, <1>8

(* Nothing that the abstract pool knows of changes.                         *)
LEMMA NothingChanges ==
  ASSUME Placed, Placed', UNCHANGED <<order, next, data, alive, tail>>,
         pc'[Consumer] = "move" <=> pc[Consumer] = "move",
         pc[Consumer] = "move" => node'[Consumer] = node[Consumer]
  PROVE  UNCHANGED EP!vars
<1>1. Line' = Line
  BY DEF Line
<1>2. Linked' = Linked
  BY <1>1 DEF Linked
<1>3. Taken' = Taken
  BY DEF Taken, Listed
<1>4. Lent' = Lent
  BY <1>3, LentNow, LentLater DEF LentIsTaken
<1> QED
  BY <1>1, <1>2, <1>4 DEF EP!vars, Linked

LEMMA InitRefines ==
  Init => EP!Init
<1> SUFFICES ASSUME Init
             PROVE  EP!Init
  OBVIOUS
<1>1. IInv /\ Held = {} /\ Moving = {} /\ pc[Consumer] = "idle"
  BY InitIInv, Constants DEF Init, Held, Moving
<1>2. Lent = {}
  BY <1>1 DEF Lent
<1>k. PICK k \in Nat \ {0} : k = Len(order)
  BY <1>1, LineFacts DEF IInv, Placed
<1>3. /\ Line \in Seq(Elements) /\ Len(Line) = k - 1
      /\ \A i, j \in 1 .. k - 1 : Line[i] = Line[j] => i = j
      /\ Linked \subseteq {Line[i] : i \in 1 .. Len(Line)}
  BY <1>1, <1>k, WaitingFacts DEF IInv
<1> QED
  BY <1>2, <1>3 DEF EP!Init, EP!InLine, Linked

(* A new node brings an element that nobody has.                            *)
LEMMA CreateRefines ==
  ASSUME IInv, IInv', NEW t \in Threads, Create(t)
  PROVE  \E e \in Elements : EP!Create(e)
<1>n. PICK n \in Nodes : n = Cardinality(alive) + 1
  BY DEF Create
<1>0. Placed /\ Placed' /\ TypeOK /\ DataInv /\ Live
  BY DEF IInv, Placed, Create, Live
<1>k. PICK k \in Nat \ {0} :
        k = Len(order) /\ \A i \in 1 .. k : order[i] \in Nodes /\ order[i] \in alive
  BY <1>0, LineFacts DEF Live, Placed
<1>1. /\ pc[t] = "idle" /\ alive' = alive \cup {n} /\ n \notin alive
      /\ \A m \in Nodes : data'[m] = IF m = n THEN n - 1 ELSE data[m]
      /\ \A m \in Nodes : next'[m] = IF m = n THEN NoNode ELSE next[m]
      /\ UNCHANGED <<tail, order>>
      /\ n - 1 \in Elements /\ \A m \in Nodes : data[m] < n - 1
  BY <1>0, <1>n, FreshNode DEF Create, TypeOK
<1>2. /\ pc'[Consumer] = "move" <=> pc[Consumer] = "move"
      /\ pc[Consumer] = "move" => node'[Consumer] = node[Consumer]
  BY <1>0, <1>1, Constants DEF Create, Assign, Goto, TypeOK
<1>3. /\ \A i \in 1 .. k - 1 : i \in 1 .. k /\ i + 1 \in 1 .. k
      /\ \A i \in 1 .. k : data'[order[i]] = data[order[i]] /\ next'[order[i]] = next[order[i]]
  BY <1>1, <1>k
<1>4. Line' = Line
  BY <1>1, <1>3, <1>k DEF Line
<1>5. Linked' = Linked
  <2>1. {i \in 1 .. Len(order') - 1 : next'[order'[i]] # NoNode} =
          {i \in 1 .. Len(order) - 1 : next[order[i]] # NoNode}
    BY <1>1, <1>3, <1>k
  <2> QED
    BY <1>4, <2>1 DEF Linked
<1>6. /\ Taken \subseteq Nodes /\ n \notin Taken
      /\ Taken' = Taken \cup {n}
  <2>1. Listed' = Listed /\ tail \in alive /\ \A m \in alive : m \in Nodes
    BY <1>0, <1>1, AliveFacts DEF Listed
  <2>2. Listed \subseteq alive /\ n \notin Listed
    BY <1>1, <1>k DEF Listed
  <2>3. pc[Consumer] = "move" => node[Consumer] # n
    <3>1. pc[Consumer] = "move" => node[Consumer] \in alive
      BY <1>0, AliveFacts, Constants DEF Moving
    <3> QED
      BY <1>1, <3>1
  <2> QED
    BY <1>1, <1>2, <2>1, <2>2, <2>3 DEF Taken
<1>7. Lent = {data[m] : m \in Taken} /\ Lent' = {data'[m] : m \in Taken'}
  BY <1>0, LentNow, LentLater DEF LentIsTaken
<1>8. Lent' = Lent \cup {n - 1}
  BY <1>1, <1>6, <1>7
<1>9. n - 1 \notin Lent
  <2>1. \A m \in Taken : data[m] # n - 1
    BY <1>0, <1>1, <1>6, Constants DEF TypeOK
  <2> QED
    BY <1>7, <2>1
<1>10. \A i \in 1 .. Len(Line) : Line[i] # n - 1
  <2>1. Len(Line) = k - 1 /\ \A i \in 1 .. k - 1 : Line[i] = data[order[i + 1]]
    BY <1>0, <1>k, WaitingFacts
  <2>2. \A m \in Nodes : data[m] # n - 1
    BY <1>0, <1>1, Constants DEF TypeOK
  <2> QED
    BY <1>3, <1>k, <2>1, <2>2
<1>11. EP!Create(n - 1)
  BY <1>4, <1>5, <1>8, <1>9, <1>10 DEF EP!Create, EP!InLine, Linked
<1> QED
  BY <1>1, <1>11

(* push_node puts the element last.                                         *)
LEMMA ExchangeRefines ==
  ASSUME IInv, IInv', NEW t \in Threads, PushExchange(t)
  PROVE  \E e \in Elements : EP!Release(e)
<1>0. Placed /\ Placed' /\ TypeOK /\ DataInv /\ pc[t] = "exchange" /\ t \in Moving
  BY DEF IInv, Placed, PushExchange, Moving
<1>l. Live
  BY <1>0, Constants DEF Live, Placed, EndInv
<1>n. PICK m \in Nodes : m = node[t]
  BY <1>0 DEF Placed, PlaceInv
<1>k. PICK k \in Nat \ {0} : /\ k = Len(order) /\ order[k] = head /\ next[head] = NoNode
                             /\ order[1] = tail
  BY <1>0, <1>l, LineFacts DEF Live, Placed
<1>1. /\ order' = Append(order, m) /\ UNCHANGED <<tail, next, data, alive, node>>
      /\ \A u \in Threads : pc'[u] = IF u = t THEN "link" ELSE pc[u]
  BY <1>0, <1>n DEF PushExchange, Goto, TypeOK
<1>2. /\ Len(order') = k + 1 /\ order'[k + 1] = m
      /\ \A i \in 1 .. k : order'[i] = order[i]
      /\ k + 1 - 1 = k
  BY <1>0, <1>1, <1>k, AppendProperties DEF TypeOK
<1>3. m \in alive \ Listed /\ m # tail /\ (pc[Consumer] = "move" => m # node[Consumer])
  <2>1. m \in Out /\ Listed \cap Out = {} /\ alive = Listed \cup Out
    BY <1>0, <1>n DEF Out, Placed, PlaceInv, NodesConserved, Listed
  <2>2. 1 \in 1 .. Len(order)
    BY <1>k
  <2>3. tail \in Listed
    BY <1>k, <2>2 DEF Listed
  <2>4. pc[Consumer] = "move" => m # node[Consumer]
    BY <1>0, <1>n, Constants DEF Placed, PlaceInv, Moving
  <2> QED
    BY <2>1, <2>3, <2>4
<1>4. m \in Taken /\ Taken' = Taken \ {m}
  <2>1. Listed' = Listed \cup {m}
    <3>1. Listed' = {order'[i] : i \in (1 .. k) \cup {k + 1}}
      <4>1. 1 .. k + 1 = (1 .. k) \cup {k + 1}
        OBVIOUS
      <4> QED
        BY <1>2, <4>1 DEF Listed
    <3> QED
      BY <1>2, <1>k, <3>1 DEF Listed
  <2>2. pc'[Consumer] = "move" <=> pc[Consumer] = "move"
    BY <1>0, <1>1, Constants
  <2> QED
    BY <1>1, <1>3, <2>1, <2>2 DEF Taken
<1>5. Lent = {data[n] : n \in Taken} /\ Lent' = {data[n] : n \in Taken'}
  BY <1>0, <1>1, LentNow, LentLater DEF LentIsTaken
<1>6. \A n \in Taken : data[n] = data[m] => n = m
  BY <1>0, <1>4, TakenFacts DEF DataInv
<1>7. data[m] \in Lent /\ Lent' = Lent \ {data[m]}
  BY <1>4, <1>5, <1>6
<1>8. data[m] \in Elements /\ Line \in Seq(Elements) /\ Len(Line) = k - 1
      /\ \A i \in 1 .. k - 1 : Line[i] = data[order[i + 1]]
  BY <1>0, <1>4, <1>k, WaitingFacts
<1>9. Line' = Append(Line, data[m])
  <2>1. Line' = [i \in 1 .. k |-> data[order'[i + 1]]]
    BY <1>1, <1>2 DEF Line
  <2>2. \A i \in 1 .. k : i # k => i \in 1 .. k - 1 /\ i + 1 \in 1 .. k
    OBVIOUS
  <2>3. \A i \in 1 .. k : data[order'[i + 1]] = IF i = k THEN data[m] ELSE Line[i]
    BY <1>2, <1>8, <2>2
  <2>4. Append(Line, data[m]) = [i \in 1 .. k |-> IF i = k THEN data[m] ELSE Line[i]]
    BY <1>8
  <2> QED
    BY <2>1, <2>3, <2>4
<1>10. Linked' = Linked
  <2>1. {i \in 1 .. Len(order') - 1 : next'[order'[i]] # NoNode} =
          {i \in 1 .. k - 1 : next[order[i]] # NoNode}
    <3>1. next'[order'[k]] = NoNode
      <4>1. k \in 1 .. k
        OBVIOUS
      <4> QED
        BY <1>1, <1>2, <1>k, <4>1
    <3>2. \A i \in 1 .. k : i # k => i \in 1 .. k - 1 /\ next'[order'[i]] = next[order[i]]
      BY <1>1, <1>2
    <3>3. \A i \in 1 .. k - 1 : i \in 1 .. k /\ next'[order'[i]] = next[order[i]]
      BY <1>1, <1>2
    <3> QED
      BY <1>2, <3>1, <3>2, <3>3
  <2>2. \A i \in 1 .. k - 1 : Line'[i] = Line[i]
    BY <1>8, <1>9
  <2>3. /\ Linked = {Line[i] : i \in {j \in 1 .. k - 1 : next[order[j]] # NoNode}}
        /\ Linked' = {Line'[i] : i \in {j \in 1 .. k - 1 : next[order[j]] # NoNode}}
    BY <1>k, <2>1 DEF Linked
  <2> QED
    BY <2>2, <2>3
<1>11. EP!Release(data[m])
  BY <1>7, <1>9, <1>10 DEF EP!Release, Linked
<1> QED
  BY <1>8, <1>11

(* ... and ties it to the line.                                             *)
LEMMA LinkRefines ==
  ASSUME IInv, IInv', NEW t \in Threads, PushLink(t)
  PROVE  \E e \in Elements : EP!Tie(e)
<1>0. /\ TypeOK /\ Placed /\ Placed' /\ DataInv /\ pc[t] = "link"
  BY DEF IInv, Placed, PushLink
<1>l. Live
  BY <1>0, Constants DEF Placed, EndInv, Live
<1>k. PICK k \in Nat \ {0} : k = Len(order) /\ \A i \in 1 .. k : order[i] \in Nodes
  BY <1>0, <1>l, LineFacts DEF Live, Placed
<1>i. PICK i \in 1 .. k - 1 : old[t] = order[i] /\ node[t] = order[i + 1] /\ next[order[i]] = NoNode
  BY <1>0, <1>k DEF Placed, LinkInv
<1>j. \A j \in 1 .. k - 1 : j \in 1 .. k /\ j + 1 \in 1 .. k
  OBVIOUS
<1>1. /\ \A n \in Nodes : next'[n] = IF n = order[i] THEN order[i + 1] ELSE next[n]
      /\ UNCHANGED <<tail, data, alive, order>>
      /\ pc'[Consumer] = "move" <=> pc[Consumer] = "move"
      /\ pc[Consumer] = "move" => node'[Consumer] = node[Consumer]
  BY <1>0, <1>i, Constants DEF PushLink, Goto, TypeOK
<1>2. Line' = Line
  BY <1>1 DEF Line
<1>3. Lent' = Lent
  <2>1. Taken' = Taken
    BY <1>1 DEF Taken, Listed
  <2> QED
    BY <1>0, <1>1, <2>1, LentNow, LentLater DEF LentIsTaken
<1>4. /\ Line \in Seq(Elements) /\ Len(Line) = k - 1
      /\ \A j, l \in 1 .. k - 1 : Line[j] = Line[l] => j = l
  BY <1>0, <1>k, WaitingFacts
<1>5. {j \in 1 .. k - 1 : next'[order[j]] # NoNode} =
        {j \in 1 .. k - 1 : next[order[j]] # NoNode} \cup {i}
  <2>1. \A j \in 1 .. k - 1 : order[j] = order[i] => j = i
    BY <1>0, <1>j, <1>k DEF Placed, PlaceInv
  <2>2. \A j \in 1 .. k - 1 : next'[order[j]] = IF j = i THEN order[i + 1] ELSE next[order[j]]
    BY <1>1, <1>j, <1>k, <2>1
  <2>3. order[i + 1] # NoNode
    BY <1>j, <1>k, Constants
  <2> QED
    BY <2>2, <2>3
<1>6. Linked' = Linked \cup {Line[i]} /\ Line[i] \notin Linked
  <2>1. /\ Linked = {Line[j] : j \in {l \in 1 .. k - 1 : next[order[l]] # NoNode}}
        /\ Linked' = {Line[j] : j \in {l \in 1 .. k - 1 : next'[order[l]] # NoNode}}
    BY <1>1, <1>2, <1>k DEF Linked
  <2>2. Line[i] \notin Linked
    BY <1>4, <1>i, <2>1
  <2> QED
    BY <1>5, <2>1, <2>2
<1>7. Line[i] \in Elements /\ Line[i] \in {Line[j] : j \in 1 .. Len(Line)}
  BY <1>4
<1>8. PICK e \in Elements : e = Line[i]
  BY <1>7
<1>9. EP!Tie(e)
  BY <1>2, <1>3, <1>6, <1>7, <1>8 DEF EP!Tie, EP!InLine, Linked
<1> QED
  BY <1>9

(* The successor of the separator brings the first element.                 *)
LEMMA TakeRefines ==
  ASSUME IInv, pc[Consumer] # "gone", TakeSeparator, head' = head,
         \A i \in 3 .. Len(order) : data'[order[i]] = data[order[i]]
  PROVE  /\ Line # << >> /\ Head(Line) = data[order[2]] /\ Head(Line) \in Linked
         /\ Line' = Tail(Line) /\ Linked' = Linked \ {Head(Line)}
<1>0. Placed /\ TypeOK /\ DataInv
  BY DEF IInv, Placed
<1>s. PICK s \in Nodes : s = tail
  BY <1>0 DEF TypeOK
<1>k. PICK k \in Nat \ {0, 1} :
           /\ k = Len(order) /\ Len(order') = k - 1
           /\ order[1] = s
           /\ \A i \in 1 .. k : order[i] \in Nodes
           /\ \A i \in 2 .. k : order[i] # s
           /\ \A i \in 1 .. k - 1 : order'[i] = order[i + 1] /\ i + 1 \in 2 .. k
           /\ \A n \in Nodes : next'[n] = IF n = s THEN NoNode ELSE next[n]
  BY <1>0, <1>s, TakeLine
<1>1. /\ Line \in Seq(Elements) /\ Len(Line) = k - 1
      /\ \A i \in 1 .. k - 1 : Line[i] = data[order[i + 1]]
      /\ \A i, j \in 1 .. k - 1 : Line[i] = Line[j] => i = j
      /\ Linked = {Line[i] : i \in {j \in 1 .. k - 1 : next[order[j]] # NoNode}}
  <2>1. k \in Nat \ {0} /\ k = Len(order)
    BY <1>k
  <2> QED
    BY <1>0, <2>1, WaitingFacts
<1>2. /\ 1 \in 1 .. k - 1 /\ 1 + 1 = 2
      /\ \A i \in 1 .. k - 2 : /\ i \in 1 .. k - 1 /\ i + 1 \in 1 .. k - 1 /\ i + 1 # 1
                               /\ i + 2 \in 3 .. k /\ (i + 1) + 1 = i + 2 /\ i + 1 \in 2 .. k
      /\ \A i \in 1 .. k - 1 : i # 1 => i - 1 \in 1 .. k - 2 /\ i - 1 + 1 = i
      /\ k - 1 - 1 = k - 2
  OBVIOUS
<1>3. Line # << >> /\ Head(Line) = Line[1] /\ Line[1] = data[order[2]]
  BY <1>1, <1>2, EmptySeq
<1>4. Head(Line) \in Linked
  <2>1. next[order[1]] # NoNode
    BY <1>k, <1>s DEF TakeSeparator
  <2> QED
    BY <1>1, <1>2, <1>3, <2>1
<1>5. /\ Line' = [i \in 1 .. k - 2 |-> data'[order'[i + 1]]]
      /\ \A i \in 1 .. k - 2 : data'[order'[i + 1]] = Line[i + 1]
  <2>1. Line' = [i \in 1 .. k - 2 |-> data'[order'[i + 1]]]
    BY <1>2, <1>k DEF Line
  <2>2. ASSUME NEW i \in 1 .. k - 2
        PROVE  data'[order'[i + 1]] = Line[i + 1]
    <3>1. order'[i + 1] = order[i + 2]
      BY <1>2, <1>k
    <3>2. data'[order[i + 2]] = data[order[i + 2]]
      BY <1>2, <1>k
    <3>3. Line[i + 1] = data[order[i + 2]]
      BY <1>1, <1>2
    <3> QED
      BY <3>1, <3>2, <3>3
  <2> QED
    BY <2>1, <2>2
<1>6. Line' = Tail(Line)
  <2>1. /\ Tail(Line) \in Seq(Elements) /\ Len(Tail(Line)) = k - 2
        /\ \A i \in 1 .. k - 2 : Tail(Line)[i] = Line[i + 1]
    BY <1>1, <1>2, <1>3, HeadTailProperties
  <2>2. \A i \in 1 .. k - 2 : Line[i + 1] \in Elements
    BY <1>1, <1>2
  <2>3. /\ Line' \in Seq(Elements) /\ Len(Line') = k - 2
        /\ \A i \in 1 .. k - 2 : Line'[i] = Line[i + 1]
    BY <1>5, <2>2
  <2> QED
    BY <2>1, <2>3, SeqEqual
<1>7. Linked' = Linked \ {Head(Line)}
  <2>1. Linked' = {Line'[i] : i \in {j \in 1 .. k - 2 : next'[order'[j]] # NoNode}}
    BY <1>2, <1>k DEF Linked
  <2>2. \A i \in 1 .. k - 2 : /\ Line'[i] = Line[i + 1]
                              /\ next'[order'[i]] = next[order[i + 1]]
    <3>1. \A i \in 1 .. k - 2 : Line'[i] = Line[i + 1]
      BY <1>5
    <3>2. \A i \in 1 .. k - 2 :
            order'[i] = order[i + 1] /\ order[i + 1] # s /\ order[i + 1] \in Nodes
      <4>1. \A i \in 1 .. k - 2 : i + 1 \in 1 .. k
        OBVIOUS
      <4> QED
        BY <1>2, <1>k, <4>1
    <3> QED
      BY <1>k, <3>1, <3>2
  <2>3. ASSUME NEW e \in Linked'
        PROVE  e \in Linked \ {Head(Line)}
    <3>1. PICK i \in 1 .. k - 2 : next'[order'[i]] # NoNode /\ e = Line'[i]
      BY <2>1
    <3>2. i + 1 \in 1 .. k - 1 /\ next[order[i + 1]] # NoNode /\ e = Line[i + 1] /\ i + 1 # 1
      BY <1>2, <2>2, <3>1
    <3> QED
      BY <1>1, <1>2, <1>3, <3>2
  <2>4. ASSUME NEW e \in Linked, e # Head(Line)
        PROVE  e \in Linked'
    <3>1. PICK j \in 1 .. k - 1 : next[order[j]] # NoNode /\ e = Line[j]
      BY <1>1
    <3>2. j # 1
      BY <1>3, <2>4, <3>1
    <3>3. PICK i \in 1 .. k - 2 : j = i + 1
      BY <1>2, <3>2
    <3>4. next'[order'[i]] # NoNode /\ e = Line'[i]
      BY <2>2, <3>1, <3>3
    <3> QED
      BY <2>1, <3>4
  <2> QED
    BY <2>3, <2>4
<1> QED
  BY <1>3, <1>4, <1>6, <1>7

LEMMA PopTakeRefines ==
  ASSUME IInv, IInv', PopTake
  PROVE  EP!Lend
<1>0. /\ Placed /\ Placed' /\ TypeOK /\ Live /\ pc[Consumer] = "idle" /\ TakeSeparator
      /\ UNCHANGED <<head, data, alive>>
      /\ node'[Consumer] = tail /\ pc'[Consumer] = "move"
  BY Constants DEF IInv, Placed, PopTake, Live, Goto, TypeOK
<1>1. /\ Line # << >> /\ Head(Line) = data[order[2]] /\ Head(Line) \in Linked
      /\ Line' = Tail(Line) /\ Linked' = Linked \ {Head(Line)}
  BY <1>0, TakeRefines
<1>s. PICK s \in Nodes : s = tail
  BY <1>0 DEF TypeOK
<1>2. /\ tail' = order[2] /\ s \in Listed /\ Listed' = Listed \ {s} /\ tail \in alive
  BY <1>0, <1>s, TakeLine, AliveFacts
<1>3. Taken' = Taken \cup {order[2]}
  BY <1>0, <1>2, <1>s DEF Taken
<1>4. Lent' = Lent \cup {Head(Line)}
  BY <1>0, <1>1, <1>3, LentNow, LentLater DEF LentIsTaken
<1> QED
  BY <1>1, <1>4 DEF EP!Lend, Linked

LEMMA DestroyNextRefines ==
  ASSUME IInv, IInv', DestroyNext
  PROVE  EP!Destroy
<1>0. /\ Placed /\ Placed' /\ TypeOK /\ ~Live /\ ~Live' /\ pc[Consumer] = "destroy" /\ TakeSeparator
      /\ head' = head
      /\ data' = [data EXCEPT ![tail] = NoData, ![next[tail]] = NoData]
  BY DEF IInv, Placed, DestroyNext, Live
<1>1. Lent = {} /\ Lent' = {}
  <2>1. Held = {} /\ Moving = {}
    BY <1>0, NobodyOut
  <2>2. Held' = {} /\ Moving' = {}
    BY <2>1 DEF DestroyNext, Held, Moving
  <2> QED
    BY <2>1, <2>2 DEF Lent
<1>2. \A i \in 3 .. Len(order) : data'[order[i]] = data[order[i]]
  <2>1. /\ order[1] = tail /\ next[tail] = order[2] /\ Len(order) \in Nat
        /\ \A i \in 1 .. Len(order) : order[i] \in Nodes
    BY <1>0, LineFacts DEF Placed, TakeSeparator
  <2>2. \A i \in 3 .. Len(order) : /\ i \in 1 .. Len(order) /\ i # 1 /\ i # 2
                                   /\ 1 \in 1 .. Len(order) /\ 2 \in 1 .. Len(order)
    BY <2>1
  <2>3. \A i \in 3 .. Len(order) : order[i] # order[1] /\ order[i] # order[2] /\ order[i] \in Nodes
    BY <1>0, <2>1, <2>2 DEF Placed, PlaceInv
  <2> QED
    BY <1>0, <2>1, <2>3 DEF TypeOK
<1>3. /\ Line # << >> /\ Line' = Tail(Line) /\ Linked' = Linked \ {Head(Line)}
  BY <1>0, <1>2, TakeRefines
<1> QED
  BY <1>1, <1>3 DEF EP!Destroy, Linked

(* The move of the data changes the node of an element, and nothing else.   *)
LEMMA PopMoveRefines ==
  ASSUME IInv, IInv', PopMove
  PROVE  UNCHANGED EP!vars
<1>0. /\ Placed /\ Placed' /\ TypeOK /\ DataInv /\ Live
      /\ pc[Consumer] = "move" /\ Consumer \in Moving
      /\ UNCHANGED <<tail, next, alive, order>>
      /\ pc'[Consumer] # "move"
  BY Constants DEF IInv, Placed, PopMove, Live, Moving, Assign, Goto, TypeOK
<1>k. PICK k \in Nat \ {0} : /\ k = Len(order) /\ order[1] = tail
                             /\ \A i \in 1 .. k : order[i] \in Nodes
  BY <1>0, LineFacts DEF Placed, Live
<1>s. PICK s \in Nodes, m \in Nodes : s = tail /\ m = node[Consumer]
  BY <1>0 DEF TypeOK, Placed, PlaceInv
<1>1. \A n \in Nodes : data'[n] = IF n = s THEN NoData ELSE IF n = m THEN data[s] ELSE data[n]
  BY <1>0, <1>s DEF PopMove, DataMoved, TypeOK
<1>2. s \in Listed /\ m \in alive \ Listed /\ \A n \in alive : n \in Nodes
  <2>1. 1 \in 1 .. Len(order)
    BY <1>k
  <2>2. s \in Listed
    BY <1>k, <1>s, <2>1 DEF Listed
  <2>3. m \in Out /\ Listed \cap Out = {} /\ alive = Listed \cup Out
    BY <1>0, <1>s DEF Out, Placed, PlaceInv, NodesConserved, Listed
  <2> QED
    BY <1>0, <2>2, <2>3 DEF TypeOK
<1>3. \A i \in 1 .. k - 1 : data'[order[i + 1]] = data[order[i + 1]]
  <2>1. \A i \in 1 .. k - 1 : i + 1 \in 1 .. k /\ i + 1 # 1 /\ 1 \in 1 .. k
    OBVIOUS
  <2>2. \A i \in 1 .. k - 1 : order[i + 1] # s
    BY <1>0, <1>k, <1>s, <2>1 DEF Placed, PlaceInv
  <2>3. \A i \in 1 .. k - 1 : order[i + 1] # m
    BY <1>2, <1>k, <2>1 DEF Listed
  <2> QED
    BY <1>1, <1>k, <2>1, <2>2, <2>3
<1>4. Line' = Line
  BY <1>0, <1>3, <1>k DEF Line
<1>5. Linked' = Linked
  BY <1>0, <1>4 DEF Linked
<1>6. Lent' = Lent
  <2> DEFINE R == (alive \ Listed) \ {m}
  <2>1. Taken = R \cup {s} /\ Taken' = R \cup {m}
    BY <1>0, <1>2, <1>s DEF Taken, Listed
  <2>2. (\A n \in R : data'[n] = data[n]) /\ data'[m] = data[s]
    BY <1>1, <1>2
  <2> HIDE DEF R
  <2>3. {data'[n] : n \in R \cup {m}} = {data[n] : n \in R \cup {s}}
    BY <2>2
  <2> QED
    BY <1>0, <2>1, <2>3, LentNow, LentLater DEF LentIsTaken
<1> QED
  BY <1>4, <1>5, <1>6 DEF EP!vars, Linked

LEMMA DestroyLastRefines ==
  ASSUME IInv, IInv', DestroyLast
  PROVE  UNCHANGED EP!vars
<1>0. /\ Placed /\ TypeOK /\ ~Live /\ pc[Consumer] = "destroy" /\ next[tail] = NoNode
      /\ order' = << >> /\ UNCHANGED <<holder, next, data>>
  BY DEF IInv, Placed, DestroyLast, Live
<1>k. PICK k \in Nat \ {0} :
        k = Len(order) /\ order[1] = tail /\ \A i \in 1 .. k : order[i] \in Nodes
  BY <1>0, LineFacts DEF Placed
<1>1. k = 1
  <2> SUFFICES ASSUME k # 1
               PROVE  FALSE
    OBVIOUS
  <2>1. 1 \in 1 .. k - 1 /\ 1 + 1 \in 1 .. k
    OBVIOUS
  <2>2. next[order[1]] = order[1 + 1]
    BY <1>0, <1>k, <2>1, NobodyOut DEF Placed, LineIntact
  <2> QED
    BY <1>0, <1>k, <2>1, <2>2, Constants
<1>2. Len(order) - 1 = 0 /\ Len(order') - 1 = -1
  BY <1>0, <1>1, <1>k
<1>3. 1 .. 0 = {} /\ 1 .. -1 = {}
  OBVIOUS
<1>4. Line = [i \in {} |-> data[order[i + 1]]] /\ Line' = [i \in {} |-> data[order[i + 1]]]
  BY <1>2, <1>3 DEF Line
<1>5. Line' = Line
  BY <1>4
<1>6. Linked = {} /\ Linked' = {}
  BY <1>2, <1>3 DEF Linked
<1>7. Lent = {} /\ Lent' = {}
  <2>1. Held = {} /\ Moving = {}
    BY <1>0, NobodyOut
  <2>2. Held' = {} /\ Moving' = {}
    <3>1. \A t \in Threads : pc'[t] \in {pc[t], "gone"}
      BY <1>0, Constants DEF DestroyLast, Goto, TypeOK
    <3> QED
      BY <1>0, <2>1, <3>1 DEF Held, Moving
  <2> QED
    BY <2>1, <2>2 DEF Lent
<1> QED
  BY <1>5, <1>6, <1>7 DEF EP!vars, Linked

LEMMA NextRefines ==
  IInv /\ IInv' /\ [Next]_vars => [EP!Next]_(EP!vars)
<1> SUFFICES ASSUME IInv, IInv', [Next]_vars
             PROVE  [EP!Next]_(EP!vars)
  OBVIOUS
<1>0. Placed /\ Placed' /\ TypeOK
  BY DEF IInv, Placed
<1>1. ASSUME NEW t \in Threads, Create(t)
      PROVE  EP!Next
  BY <1>1, CreateRefines DEF EP!Next
<1>2. ASSUME NEW t \in Threads, Use(t)
      PROVE  UNCHANGED EP!vars
  BY <1>0, <1>2, NothingChanges DEF Use
<1>3. ASSUME NEW t \in Threads, pc[t] = "idle", Assign(t, NoNode),
             UNCHANGED <<tail, next, data, alive, order>>
      PROVE  UNCHANGED EP!vars
  <2>1. /\ pc'[Consumer] = "move" <=> pc[Consumer] = "move"
        /\ pc[Consumer] = "move" => node'[Consumer] = node[Consumer]
    BY <1>0, <1>3, Constants DEF Assign, Goto, TypeOK
  <2> QED
    BY <1>0, <1>3, <2>1, NothingChanges
<1>4. ASSUME NEW t \in Threads, Drop(t)
      PROVE  UNCHANGED EP!vars
  BY <1>3, <1>4 DEF Drop
<1>5. ASSUME NEW t \in Threads, PushExchange(t)
      PROVE  EP!Next
  BY <1>5, ExchangeRefines DEF EP!Next
<1>6. ASSUME NEW t \in Threads, PushLink(t)
      PROVE  EP!Next
  BY <1>6, LinkRefines DEF EP!Next
<1>7. ASSUME NEW t \in Threads, NEW u \in Threads, Move(t, u)
      PROVE  UNCHANGED EP!vars
  BY <1>0, <1>7, NothingChanges DEF Move
<1>8. CASE PopTake
  BY <1>8, PopTakeRefines DEF EP!Next
<1>9. CASE PopFail
  BY <1>3, <1>9, Constants DEF PopFail
<1>10. CASE PopMove
  BY <1>10, PopMoveRefines
<1>11. CASE DestroyBegin
  <2>1. pc'[Consumer] # "move" /\ pc[Consumer] # "move"
    BY <1>0, <1>11, Constants DEF DestroyBegin, Goto, TypeOK
  <2> QED
    BY <1>0, <1>11, <2>1, NothingChanges DEF DestroyBegin
<1>12. CASE DestroyNext
  BY <1>12, DestroyNextRefines DEF EP!Next
<1>13. CASE DestroyLast
  BY <1>13, DestroyLastRefines
<1>14. CASE UNCHANGED vars
  BY <1>0, <1>14, NothingChanges DEF vars
<1> QED
  BY <1>1, <1>2, <1>4, <1>5, <1>6, <1>7, <1>8, <1>9, <1>10, <1>11, <1>12, <1>13, <1>14
     DEF Next, Push, Pop, Destroy, Terminating

(* The pool lends each element to one user at a time, in the order of the   *)
(* releases, and never loses one, whatever node carries it                  *)
(* (scmr_pool.h:46-73).                                                     *)
THEOREM PoolImplementsElementPool == Spec => ImplementsElementPool
BY InitRefines, NextRefines, SpecIInv, PTL DEF Spec, ImplementsElementPool, EP!Spec
=============================================================================
