----------------------------- MODULE GcListProofs -----------------------------
(***************************************************************************)
(* Theorems about GcList, for any finite sets of addresses, and any        *)
(* threads and elements:                                                   *)
(*                                                                         *)
(*   TypeCorrect              every pointer leads where it may             *)
(*   HeapIsSound              a node is deleted once, after its last use,  *)
(*                            and in the end none is left                  *)
(*   ListImplementsBoundedQueue  a first-in first-out queue, although its  *)
(*                            two ends share no mutex                      *)
(*                                                                         *)
(* The invariant numbers the links in the order in which they were made: a *)
(* journal, which exists in the proof only.  What the code follows, links  *)
(* between addresses that are used again, is then a stretch of the journal.*)
(***************************************************************************)
EXTENDS GcList, FiniteSetTheorems, SequenceTheorems, TLAPS

-----------------------------------------------------------------------------
(* The inductive invariant *)

(* Who is inside a section holds its mutex; nothing runs next to the        *)
(* destructor.                                                              *)
MutexInv ==
  /\ \A p \in Producers : pc[p] \in {"idle", "link", "load", "unhook", "free"}
  /\ \A c \in Consumers : pc[c] \in {"idle", "look", "move", "advance"}
  /\ \A p \in Producers : produceMutex = p <=> pc[p] \in {"load", "unhook"}
  /\ \A c \in Consumers : consumeMutex = c <=> pc[c] \in {"look", "move", "advance"}
  /\ ptr # NoNode => \A t \in Threads : pc[t] = "idle"

(* A node that is not linked yet is its producer's alone.                   *)
Holders == {p \in Producers : pc[p] = "link"}

FreshInv ==
  /\ \A p \in Holders : item[p] \in Nodes /\ next[item[p]] = Root /\ data[item[p]] \in Elements
  /\ \A p, q \in Holders : item[p] = item[q] => p = q

(* A journal of the list: at[i] is the node that was linked i-th, at[0] the *)
(* root, and n the number of links.  An address may occur in it again.      *)
Journals == [Nat -> Links]

(* f is the first entry that is still hooked, or that the destructor has    *)
(* still to delete; r is the entry consumed last; those from lo[p] to       *)
(* before hi[p] are what producer p has still to delete.                    *)
Pointers(at, n, f, r, lo, hi) ==
  /\ at[0] = Root /\ \A i \in 1 .. n : at[i] \in Nodes
  /\ f \in 1 .. n + 1 /\ r \in 0 .. n
  /\ tail = at[n] /\ read = at[r]
  /\ Len(waiting) = n - r
  /\ \A i \in 1 .. n - r : waiting[i] = at[r + i]
  /\ ptr = NoNode => /\ (r = 0 /\ f = 1) \/ f <= r
                     /\ next[Root] = IF f <= n THEN at[f] ELSE Root
  /\ ptr # NoNode => ptr = IF f <= n THEN at[f] ELSE Root

Sections(at, n, f, r, lo, hi) ==
  /\ \A p \in Producers : pc[p] # "free" => lo[p] = hi[p]
  /\ \A p \in Producers : pc[p] = "unhook" =>
       upto[p] = at[hi[p]] /\ hi[p] <= r /\ (hi[p] = 0 \/ f <= hi[p])
  /\ \A p \in Producers : pc[p] = "free" =>
       /\ erase[p] = at[lo[p]] /\ upto[p] = at[hi[p]]
       /\ lo[p] <= hi[p] /\ hi[p] <= f /\ hi[p] <= r /\ (lo[p] = 0 <=> hi[p] = 0)
  /\ \A c \in Consumers : pc[c] \in {"move", "advance"} => r < n /\ item[c] = at[r + 1]
  /\ \A c \in Consumers : pc[c] = "advance" => out[c] = data[item[c]]

(* The entries whose nodes are not deleted.                                 *)
InSegment(p, i, lo, hi) == lo[p] <= i /\ i < hi[p]
Kept(n, f, lo, hi) ==
  {i \in 1 .. n : f <= i \/ \E p \in Producers : InSegment(p, i, lo, hi)}

(* Their nodes are chained in the order of the journal, up to an entry that *)
(* is kept no more; an address given out again comes later in the journal.  *)
Chain(at, n, f, lo, hi) ==
  /\ \A i \in Kept(n, f, lo, hi) : next[at[i]] = IF i < n THEN at[i + 1] ELSE Root
  /\ \A i \in Kept(n, f, lo, hi) : data[at[i]] \in Elements
  /\ \A i, j \in Kept(n, f, lo, hi) : at[i] = at[j] => i = j
  /\ \A i, j \in Kept(n, f, lo, hi) : i < n /\ at[i + 1] = at[j] => i < j

Owners(at, n, f, lo, hi) ==
  /\ \A p, q \in Producers : \A i \in 1 .. n :
       InSegment(p, i, lo, hi) /\ InSegment(q, i, lo, hi) => p = q
  /\ alive = {item[p] : p \in Holders} \cup {at[i] : i \in Kept(n, f, lo, hi)}
  /\ \A p \in Holders : \A i \in Kept(n, f, lo, hi) : item[p] # at[i]
  /\ \A m \in Nodes : m \notin alive => next[m] = NoNode

ListInv(at, n, f, r, lo, hi) ==
  /\ Pointers(at, n, f, r, lo, hi) /\ Sections(at, n, f, r, lo, hi)
  /\ Chain(at, n, f, lo, hi) /\ Owners(at, n, f, lo, hi)

Bounds == [Producers -> Nat]

SomeList ==
  \E at \in Journals : \E n, f, r \in Nat : \E lo, hi \in Bounds :
    ListInv(at, n, f, r, lo, hi)

IInv == TypeOK /\ MutexInv /\ FreshInv /\ SomeList

-----------------------------------------------------------------------------
LEMMA SomeListIntro ==
  ASSUME NEW at \in Journals, NEW n \in Nat, NEW f \in Nat, NEW r \in Nat,
         NEW lo \in Bounds, NEW hi \in Bounds, ListInv(at, n, f, r, lo, hi)
  PROVE  SomeList
  BY DEF SomeList

LEMMA InitIInv == Init => IInv
<1> SUFFICES ASSUME Init
             PROVE  IInv
  OBVIOUS
<1>0. Root \notin Nodes /\ NoNode \notin Links /\ NoThread \notin Threads
  BY ConstantsAssumption DEF Links, Threads
<1>1. TypeOK
  BY <1>0 DEF Init, TypeOK, Links, Threads
<1>2. MutexInv /\ FreshInv
  BY <1>0 DEF Init, MutexInv, FreshInv, Holders, Threads
<1> DEFINE lo == [p \in Producers |-> 0]
<1>3. lo \in Bounds
  BY DEF Bounds
<1>4. SomeList
  <2> DEFINE at == [i \in Nat |-> Root]
  <2>1. at \in Journals
    BY DEF Journals, Links
  <2>2. Kept(0, 1, lo, lo) = {}
    BY DEF Kept
  <2>3. Pointers(at, 0, 1, 0, lo, lo)
    BY <1>0 DEF Init, Pointers, Links
  <2>4. Sections(at, 0, 1, 0, lo, lo)
    BY <1>0 DEF Init, Sections, Threads
  <2>5. Chain(at, 0, 1, lo, lo)
    BY <2>2 DEF Chain
  <2>6. Owners(at, 0, 1, lo, lo)
    BY <1>0, <2>2 DEF Init, Owners, Holders, Links, Threads, InSegment
  <2> QED
    BY <1>3, <2>1, <2>3, <2>4, <2>5, <2>6, SomeListIntro DEF ListInv
<1> QED
  BY <1>1, <1>2, <1>4 DEF IInv

(* What a step leaves alone: the list, as long as links, nodes and pointers *)
(* are as they were and no producer moved on.                               *)
Quiet ==
  /\ UNCHANGED <<next, data, alive, tail, read, ptr, waiting, produceMutex, upto, erase>>
  /\ \A p \in Producers : pc'[p] = pc[p] /\ item'[p] = item[p]

LEMMA QuietList ==
  ASSUME Quiet, NEW at \in Journals, NEW n \in Nat, NEW f \in Nat, NEW r \in Nat,
         NEW lo \in Bounds, NEW hi \in Bounds, ListInv(at, n, f, r, lo, hi)
  PROVE  Pointers(at, n, f, r, lo, hi)' /\ Chain(at, n, f, lo, hi)' /\ Owners(at, n, f, lo, hi)'
<1>1. Holders' = Holders
  BY DEF Quiet, Holders
<1>2. \A p \in Holders : p \in Producers
  BY DEF Holders
<1>3. Pointers(at, n, f, r, lo, hi)'
  BY DEF Quiet, ListInv, Pointers
<1>4. Chain(at, n, f, lo, hi)'
  BY DEF Quiet, ListInv, Chain, Kept, InSegment
<1>5. Owners(at, n, f, lo, hi)'
  BY <1>1, <1>2 DEF Quiet, ListInv, Owners, Kept, InSegment
<1> QED
  BY <1>3, <1>4, <1>5

LEMMA QuietFresh ==
  ASSUME Quiet, FreshInv
  PROVE  FreshInv'
  BY DEF Quiet, FreshInv, Holders

LEMMA ThreadFacts ==
  /\ \A p \in Producers : p \in Threads /\ p \notin Consumers /\ p # NoThread
  /\ \A c \in Consumers : c \in Threads /\ c \notin Producers /\ c # NoThread
  /\ NoThread \notin Producers /\ NoThread \notin Consumers
  /\ Root \in Links /\ Root \notin Nodes /\ NoNode \notin Nodes /\ Root # NoNode
  /\ \A n \in Nodes : n \in Links /\ n # Root /\ n # NoNode
  BY ConstantsAssumption DEF Threads, Links

LEMMA LockConsumeStep ==
  ASSUME IInv, NEW c \in Consumers, LockConsume(c)
  PROVE  IInv'
<1>0. TypeOK /\ MutexInv /\ FreshInv /\ SomeList
  BY DEF IInv
<1>1. \A t \in Threads : pc'[t] = IF t = c THEN "look" ELSE pc[t]
  BY <1>0, ThreadFacts DEF LockConsume, Goto, TypeOK
<1>2. TypeOK'
  BY <1>0, ThreadFacts DEF LockConsume, Goto, TypeOK
<1>3. MutexInv'
  BY <1>0, <1>1, ThreadFacts DEF LockConsume, ConsumeFree, MutexInv
<1>4. Quiet
  BY <1>1, ThreadFacts DEF LockConsume, Quiet
<1>5. PICK at \in Journals, n, f, r \in Nat, lo, hi \in Bounds : ListInv(at, n, f, r, lo, hi)
  BY <1>0 DEF SomeList
<1>6. Sections(at, n, f, r, lo, hi)'
  BY <1>1, <1>5, ThreadFacts DEF LockConsume, ListInv, Sections
<1>7. SomeList'
  BY <1>4, <1>5, <1>6, QuietList DEF SomeList, ListInv
<1> QED
  BY <1>0, <1>2, <1>3, <1>4, <1>7, QuietFresh DEF IInv

LEMMA FindNothingStep ==
  ASSUME IInv, NEW c \in Consumers, FindNothing(c)
  PROVE  IInv'
<1>0. TypeOK /\ MutexInv /\ FreshInv /\ SomeList
  BY DEF IInv
<1>1. \A t \in Threads : pc'[t] = IF t = c THEN "idle" ELSE pc[t]
  BY <1>0, ThreadFacts DEF FindNothing, Goto, TypeOK
<1>2. TypeOK'
  BY <1>0, ThreadFacts DEF FindNothing, Goto, TypeOK
<1>3. MutexInv'
  BY <1>0, <1>1, ThreadFacts DEF FindNothing, MutexInv
<1>4. Quiet
  BY <1>1, ThreadFacts DEF FindNothing, Quiet
<1>5. PICK at \in Journals, n, f, r \in Nat, lo, hi \in Bounds : ListInv(at, n, f, r, lo, hi)
  BY <1>0 DEF SomeList
<1>6. Sections(at, n, f, r, lo, hi)'
  BY <1>1, <1>5, ThreadFacts DEF FindNothing, ListInv, Sections
<1>7. SomeList'
  BY <1>4, <1>5, <1>6, QuietList DEF SomeList, ListInv
<1> QED
  BY <1>0, <1>2, <1>3, <1>4, <1>7, QuietFresh DEF IInv

(* What lies behind fRead, for who reads it while no destructor runs.       *)
LEMMA BehindRead ==
  ASSUME TypeOK, ptr = NoNode, NEW at \in Journals, NEW n \in Nat, NEW f \in Nat, NEW r \in Nat,
         NEW lo \in Bounds, NEW hi \in Bounds, ListInv(at, n, f, r, lo, hi)
  PROVE  /\ r < n => r + 1 \in Kept(n, f, lo, hi) /\ at[r + 1] \in Nodes
         /\ r # 0 => r \in Kept(n, f, lo, hi) /\ read \in Nodes
         /\ next[read] = IF r < n THEN at[r + 1] ELSE Root
<1>1. Pointers(at, n, f, r, lo, hi) /\ Chain(at, n, f, lo, hi)
  BY DEF ListInv
<1>2. r < n => r + 1 \in Kept(n, f, lo, hi) /\ at[r + 1] \in Nodes
  BY <1>1 DEF Pointers, Kept
<1>3. r # 0 => r \in Kept(n, f, lo, hi) /\ read \in Nodes
  BY <1>1 DEF Pointers, Kept
<1>4. r = 0 => next[read] = IF r < n THEN at[r + 1] ELSE Root
  BY <1>1 DEF Pointers
<1>5. r # 0 => next[read] = IF r < n THEN at[r + 1] ELSE Root
  <2>1. r # 0 => read = at[r]
    BY <1>1 DEF Pointers
  <2> QED
    BY <1>1, <1>3, <2>1 DEF Chain
<1> QED
  BY <1>2, <1>3, <1>4, <1>5

LEMMA FindNextStep ==
  ASSUME IInv, NEW c \in Consumers, FindNext(c)
  PROVE  IInv'
<1>0. TypeOK /\ MutexInv /\ FreshInv /\ SomeList
  BY DEF IInv
<1>1. \A t \in Threads : /\ pc'[t] = IF t = c THEN "move" ELSE pc[t]
                         /\ item'[t] = IF t = c THEN next[read] ELSE item[t]
  BY <1>0, ThreadFacts DEF FindNext, Goto, TypeOK
<1>2. TypeOK'
  BY <1>0, ThreadFacts DEF FindNext, Goto, TypeOK
<1>3. MutexInv'
  BY <1>0, <1>1, ThreadFacts DEF FindNext, MutexInv
<1>4. Quiet
  BY <1>1, ThreadFacts DEF FindNext, Quiet
<1>5. PICK at \in Journals, n, f, r \in Nat, lo, hi \in Bounds : ListInv(at, n, f, r, lo, hi)
  BY <1>0 DEF SomeList
<1>6. r < n /\ next[read] = at[r + 1]
  <2>1. ptr = NoNode
    BY <1>0, ThreadFacts DEF FindNext, MutexInv
  <2> QED
    BY <1>0, <1>5, <2>1, BehindRead DEF FindNext
<1>7. \A d \in Consumers : d # c => pc[d] \notin {"move", "advance"}
  BY <1>0 DEF FindNext, MutexInv
<1>8. Sections(at, n, f, r, lo, hi)'
  BY <1>1, <1>5, <1>6, <1>7, ThreadFacts DEF FindNext, ListInv, Sections
<1>9. SomeList'
  BY <1>4, <1>5, <1>8, QuietList DEF SomeList, ListInv
<1> QED
  BY <1>0, <1>2, <1>3, <1>4, <1>9, QuietFresh DEF IInv

LEMMA MoveDataStep ==
  ASSUME IInv, NEW c \in Consumers, MoveData(c)
  PROVE  IInv'
<1>0. TypeOK /\ MutexInv /\ FreshInv /\ SomeList
  BY DEF IInv
<1>1. \A t \in Threads : pc'[t] = IF t = c THEN "advance" ELSE pc[t]
  BY <1>0, ThreadFacts DEF MoveData, Goto, TypeOK
<1>5. PICK at \in Journals, n, f, r \in Nat, lo, hi \in Bounds : ListInv(at, n, f, r, lo, hi)
  BY <1>0 DEF SomeList
<1>6. item[c] \in Nodes /\ \A d \in Consumers : d # c => pc[d] # "advance"
  BY <1>0, <1>5 DEF MoveData, MutexInv, ListInv, Sections, Pointers
<1>2. TypeOK'
  BY <1>0, <1>6, ThreadFacts DEF MoveData, Goto, TypeOK
<1>3. MutexInv'
  BY <1>0, <1>1, ThreadFacts DEF MoveData, MutexInv
<1>4. Quiet
  BY <1>1, ThreadFacts DEF MoveData, Quiet
<1>7. out'[c] = data[item[c]]
  BY <1>0 DEF MoveData, TypeOK
<1>8. Sections(at, n, f, r, lo, hi)'
  BY <1>1, <1>5, <1>6, <1>7, ThreadFacts DEF MoveData, ListInv, Sections
<1>9. SomeList'
  BY <1>4, <1>5, <1>8, QuietList DEF SomeList, ListInv
<1> QED
  BY <1>0, <1>2, <1>3, <1>4, <1>9, QuietFresh DEF IInv

(* The list of the next state, when no node was made, linked or deleted.    *)
LEMMA SameChain ==
  ASSUME NEW at \in Journals, NEW n \in Nat, NEW f \in Nat, NEW r \in Nat,
         NEW lo \in Bounds, NEW hi \in Bounds, ListInv(at, n, f, r, lo, hi),
         NEW g \in Nat, NEW l \in Bounds, NEW h \in Bounds,
         UNCHANGED <<data, alive>>, \A m \in Nodes : next'[m] = next[m],
         \A p \in Producers : pc'[p] = "link" <=> pc[p] = "link",
         \A p \in Producers : pc[p] = "link" => item'[p] = item[p],
         Kept(n, g, l, h) = Kept(n, f, lo, hi),
         \A p, q \in Producers : \A i \in 1 .. n :
           InSegment(p, i, l, h) /\ InSegment(q, i, l, h) => p = q
  PROVE  Chain(at, n, g, l, h)' /\ Owners(at, n, g, l, h)'
<1> DEFINE K == Kept(n, f, lo, hi)
<1>1. Pointers(at, n, f, r, lo, hi) /\ Chain(at, n, f, lo, hi) /\ Owners(at, n, f, lo, hi)
  BY DEF ListInv
<1>2. Holders' = Holders /\ \A p \in Holders : p \in Producers /\ item'[p] = item[p]
  BY DEF Holders
<1>3. /\ \A i \in K : at[i] \in Nodes
      /\ Kept(n, g, l, h)' = K
  <2>1. Kept(n, g, l, h)' = Kept(n, g, l, h)
    BY DEF Kept, InSegment
  <2> QED
    BY <1>1, <2>1 DEF Pointers, Kept
<1> HIDE DEF K
<1>4. Chain(at, n, g, l, h)'
  BY <1>1, <1>3 DEF Chain, K
<1>5. alive' = {item'[p] : p \in Holders'} \cup {at[i] : i \in K}
  BY <1>1, <1>2 DEF Owners, K
<1>6. Owners(at, n, g, l, h)'
  BY <1>1, <1>2, <1>3, <1>5 DEF Owners, K, InSegment
<1> QED
  BY <1>4, <1>6

LEMMA SameFresh ==
  ASSUME FreshInv, data' = data, \A m \in Nodes : next'[m] = next[m],
         \A p \in Producers : pc'[p] = "link" <=> pc[p] = "link",
         \A p \in Producers : pc[p] = "link" => item'[p] = item[p]
  PROVE  FreshInv'
<1>1. Holders' = Holders /\ \A p \in Holders : p \in Producers /\ item'[p] = item[p]
  BY DEF Holders
<1> QED
  BY <1>1 DEF FreshInv

LEMMA AdvanceStep ==
  ASSUME IInv, NEW c \in Consumers, Advance(c)
  PROVE  IInv'
<1>0. TypeOK /\ MutexInv /\ FreshInv /\ SomeList
  BY DEF IInv
<1>1. \A t \in Threads : /\ pc'[t] = IF t = c THEN "idle" ELSE pc[t]
                         /\ item'[t] = IF t = c THEN NoNode ELSE item[t]
  BY <1>0, ThreadFacts DEF Advance, Goto, TypeOK
<1>2. PICK at \in Journals, n, f, r \in Nat, lo, hi \in Bounds : ListInv(at, n, f, r, lo, hi)
  BY <1>0 DEF SomeList
<1>3. Pointers(at, n, f, r, lo, hi) /\ Sections(at, n, f, r, lo, hi)
  BY <1>2 DEF ListInv
<1>4. r < n /\ item[c] = at[r + 1] /\ at[r + 1] \in Nodes
  <2>1. r < n /\ item[c] = at[r + 1]
    BY <1>3 DEF Advance, Sections
  <2>2. r + 1 \in 1 .. n
    BY <2>1
  <2> QED
    BY <1>3, <2>1, <2>2 DEF Pointers
<1>5. /\ waiting' \in Seq(Nodes) /\ Len(waiting') = n - (r + 1)
      /\ \A i \in 1 .. n - (r + 1) : waiting'[i] = at[(r + 1) + i]
  <2>1. waiting \in Seq(Nodes) /\ Len(waiting) = n - r /\ n - r >= 1
    BY <1>0, <1>3, <1>4 DEF TypeOK, Pointers
  <2>2. waiting # << >> /\ waiting' = Tail(waiting)
    <3>1. waiting # << >>
      BY <2>1, EmptySeq
    <3> QED
      BY <2>1, <3>1, TailIsSubSeq DEF Advance
  <2>3. /\ waiting' \in Seq(Nodes) /\ Len(waiting') = Len(waiting) - 1
        /\ \A i \in 1 .. Len(waiting) - 1 : waiting'[i] = waiting[1 + i]
    <3>1. /\ Tail(waiting) \in Seq(Nodes) /\ Len(Tail(waiting)) = Len(waiting) - 1
          /\ \A i \in 1 .. Len(Tail(waiting)) : Tail(waiting)[i] = waiting[i + 1]
      BY <2>1, <2>2, HeadTailProperties
    <3> QED
      BY <2>2, <3>1
  <2>4. \A i \in 1 .. n - (r + 1) : 1 + i \in 1 .. n - r /\ r + (1 + i) = (r + 1) + i
    OBVIOUS
  <2> QED
    BY <1>3, <2>1, <2>3, <2>4 DEF Pointers
<1>6. TypeOK'
  BY <1>0, <1>4, <1>5, ThreadFacts DEF Advance, Goto, TypeOK
<1>7. MutexInv'
  BY <1>0, <1>1, ThreadFacts DEF Advance, MutexInv
<1>8. ptr = NoNode
  BY <1>0, ThreadFacts DEF Advance, MutexInv
<1>9. Pointers(at, n, f, r + 1, lo, hi)'
  BY <1>3, <1>4, <1>5, <1>8 DEF Advance, Pointers
<1>10. Sections(at, n, f, r + 1, lo, hi)'
  <2>1. \A d \in Consumers : pc'[d] \notin {"move", "advance"}
    BY <1>0, <1>1, ThreadFacts DEF Advance, MutexInv
  <2>2. \A p \in Producers : pc'[p] = pc[p]
    BY <1>1, ThreadFacts
  <2>3. \A p \in Producers : hi[p] <= r => hi[p] <= r + 1
    BY DEF Bounds
  <2> QED
    BY <1>3, <2>1, <2>2, <2>3 DEF Advance, Sections
<1>11. Chain(at, n, f, lo, hi)' /\ Owners(at, n, f, lo, hi)'
  <2>1. ListInv(at, n, f, r, lo, hi)
    BY <1>2
  <2>2. \A p, q \in Producers : \A i \in 1 .. n :
           InSegment(p, i, lo, hi) /\ InSegment(q, i, lo, hi) => p = q
    BY <1>2 DEF ListInv, Owners
  <2>3. UNCHANGED <<data, alive, next>> /\ \A p \in Producers : pc'[p] = pc[p] /\ item'[p] = item[p]
    BY <1>1, ThreadFacts DEF Advance
  <2> QED
    BY <2>1, <2>2, <2>3, SameChain
<1>12. SomeList'
  BY <1>2, <1>9, <1>10, <1>11 DEF SomeList, ListInv
<1>13. FreshInv'
  BY <1>0, <1>1, ThreadFacts, SameFresh DEF Advance
<1> QED
  BY <1>6, <1>7, <1>12, <1>13 DEF IInv

LEMMA LoadReadStep ==
  ASSUME IInv, NEW p \in Producers, LoadRead(p)
  PROVE  IInv'
<1>0. TypeOK /\ MutexInv /\ FreshInv /\ SomeList
  BY DEF IInv
<1>1. \A t \in Threads : pc'[t] = IF t = p THEN "unhook" ELSE pc[t]
  BY <1>0, ThreadFacts DEF LoadRead, Goto, TypeOK
<1>2. \A q \in Producers : upto'[q] = IF q = p THEN read ELSE upto[q]
  BY <1>0 DEF LoadRead, TypeOK
<1>3. TypeOK'
  BY <1>0, ThreadFacts DEF LoadRead, Goto, TypeOK
<1>4. MutexInv'
  BY <1>0, <1>1, ThreadFacts DEF LoadRead, MutexInv
<1>5. PICK at \in Journals, n, f, r \in Nat, lo, hi \in Bounds : ListInv(at, n, f, r, lo, hi)
  BY <1>0 DEF SomeList
<1>6. Pointers(at, n, f, r, lo, hi) /\ Sections(at, n, f, r, lo, hi)
  BY <1>5 DEF ListInv
<1>7. ptr = NoNode /\ pc[p] = "load"
  BY <1>0, ThreadFacts DEF LoadRead, MutexInv
<1> DEFINE l == [lo EXCEPT ![p] = r]
           h == [hi EXCEPT ![p] = r]
<1>8. /\ l \in Bounds /\ \A q \in Producers : l[q] = IF q = p THEN r ELSE lo[q]
      /\ h \in Bounds /\ \A q \in Producers : h[q] = IF q = p THEN r ELSE hi[q]
  BY DEF Bounds
<1> HIDE DEF l, h
<1>9. \A q \in Producers : \A i \in 1 .. n : InSegment(q, i, l, h) <=> InSegment(q, i, lo, hi)
  <2>1. lo[p] = hi[p] /\ lo[p] \in Nat
    BY <1>6, <1>7 DEF Sections, Bounds
  <2> QED
    BY <1>8, <2>1 DEF InSegment
<1>10. Pointers(at, n, f, r, l, h)'
  BY <1>6 DEF LoadRead, Pointers
<1>11. Sections(at, n, f, r, l, h)'
  <2>1. r = 0 \/ f <= r
    BY <1>6, <1>7 DEF Pointers
  <2>2. read = at[r]
    BY <1>6 DEF Pointers
  <2> QED
    BY <1>1, <1>2, <1>6, <1>8, <2>1, <2>2, ThreadFacts DEF LoadRead, Sections
<1>12. Chain(at, n, f, l, h)' /\ Owners(at, n, f, l, h)'
  <2>1. Kept(n, f, l, h) = Kept(n, f, lo, hi)
    BY <1>9 DEF Kept
  <2>2. \A a, b \in Producers : \A i \in 1 .. n :
           InSegment(a, i, l, h) /\ InSegment(b, i, l, h) => a = b
    BY <1>5, <1>9 DEF ListInv, Owners
  <2>3. /\ UNCHANGED <<data, alive, next, item>>
        /\ \A q \in Producers : pc'[q] = "link" <=> pc[q] = "link"
    BY <1>1, <1>7, ThreadFacts DEF LoadRead
  <2> QED
    BY <1>5, <1>8, <2>1, <2>2, <2>3, SameChain
<1>13. SomeList'
  BY <1>5, <1>8, <1>10, <1>11, <1>12 DEF SomeList, ListInv
<1>14. FreshInv'
  BY <1>0, <1>1, <1>7, ThreadFacts, SameFresh DEF LoadRead
<1> QED
  BY <1>3, <1>4, <1>13, <1>14 DEF IInv

(* The loop of a producer ends exactly when its segment is empty.           *)
LEMMA SegmentEnd ==
  ASSUME NEW at \in Journals, NEW n \in Nat, NEW f \in Nat, NEW r \in Nat,
         NEW lo \in Bounds, NEW hi \in Bounds, ListInv(at, n, f, r, lo, hi),
         NEW p \in Producers, pc[p] = "free"
  PROVE  /\ erase[p] = at[lo[p]] /\ upto[p] = at[hi[p]]
         /\ lo[p] \in Nat /\ hi[p] \in Nat /\ lo[p] <= hi[p] /\ hi[p] <= f /\ hi[p] <= r /\ r <= n
         /\ lo[p] < hi[p] => lo[p] \in Kept(n, f, lo, hi) /\ lo[p] # 0
         /\ erase[p] = upto[p] <=> lo[p] = hi[p]
<1>1. Pointers(at, n, f, r, lo, hi) /\ Sections(at, n, f, r, lo, hi) /\ Chain(at, n, f, lo, hi)
  BY DEF ListInv
<1>2. /\ erase[p] = at[lo[p]] /\ upto[p] = at[hi[p]]
      /\ lo[p] \in Nat /\ hi[p] \in Nat /\ lo[p] <= hi[p] /\ hi[p] <= f /\ hi[p] <= r /\ r <= n
      /\ lo[p] = 0 <=> hi[p] = 0
  BY <1>1 DEF Sections, Pointers, Bounds
<1>3. ASSUME lo[p] < hi[p]
      PROVE  lo[p] \in Kept(n, f, lo, hi) /\ lo[p] # 0 /\ at[lo[p]] # at[hi[p]]
  <2> DEFINE l == lo[p]
             i == hi[p] - 1
  <2>1. l \in 1 .. n /\ i \in 1 .. n /\ i < n /\ l <= i /\ i + 1 = hi[p] /\ l # 0
    BY <1>2, <1>3
  <2>2. InSegment(p, l, lo, hi) /\ InSegment(p, i, lo, hi)
    BY <1>2, <1>3, <2>1 DEF InSegment
  <2>3. l \in Kept(n, f, lo, hi) /\ i \in Kept(n, f, lo, hi)
    BY <2>1, <2>2 DEF Kept
  <2> HIDE DEF l, i
  <2>4. at[i + 1] # at[l]
    BY <1>1, <2>1, <2>3 DEF Chain
  <2> QED
    BY <2>1, <2>3, <2>4 DEF l
<1> QED
  BY <1>2, <1>3

LEMMA EmplaceReturnStep ==
  ASSUME IInv, NEW p \in Producers, EmplaceReturn(p)
  PROVE  IInv'
<1>0. TypeOK /\ MutexInv /\ FreshInv /\ SomeList
  BY DEF IInv
<1>1. \A t \in Threads : pc'[t] = IF t = p THEN "idle" ELSE pc[t]
  BY <1>0, ThreadFacts DEF EmplaceReturn, Goto, TypeOK
<1>2. \A q \in Producers : q # p => upto'[q] = upto[q] /\ erase'[q] = erase[q]
  BY <1>0 DEF EmplaceReturn, TypeOK
<1>3. TypeOK'
  BY <1>0, ThreadFacts DEF EmplaceReturn, Goto, TypeOK
<1>4. MutexInv'
  BY <1>0, <1>1, ThreadFacts DEF EmplaceReturn, MutexInv
<1>5. PICK at \in Journals, n, f, r \in Nat, lo, hi \in Bounds : ListInv(at, n, f, r, lo, hi)
  BY <1>0 DEF SomeList
<1>6. Pointers(at, n, f, r, lo, hi) /\ Sections(at, n, f, r, lo, hi)
  BY <1>5 DEF ListInv
<1>7. lo[p] = hi[p] /\ pc[p] = "free"
  BY <1>5, SegmentEnd DEF EmplaceReturn
<1>8. Pointers(at, n, f, r, lo, hi)'
  BY <1>6 DEF EmplaceReturn, Pointers
<1>9. Sections(at, n, f, r, lo, hi)'
  BY <1>1, <1>2, <1>6, <1>7, ThreadFacts DEF EmplaceReturn, Sections
<1>10. Chain(at, n, f, lo, hi)' /\ Owners(at, n, f, lo, hi)'
  <2>1. \A a, b \in Producers : \A i \in 1 .. n :
           InSegment(a, i, lo, hi) /\ InSegment(b, i, lo, hi) => a = b
    BY <1>5 DEF ListInv, Owners
  <2>2. /\ UNCHANGED <<data, alive, next, item>>
        /\ \A q \in Producers : pc'[q] = "link" <=> pc[q] = "link"
    BY <1>1, <1>7, ThreadFacts DEF EmplaceReturn
  <2> QED
    BY <1>5, <2>1, <2>2, SameChain
<1>11. SomeList'
  BY <1>5, <1>8, <1>9, <1>10 DEF SomeList, ListInv
<1>12. FreshInv'
  BY <1>0, <1>1, <1>7, ThreadFacts, SameFresh DEF EmplaceReturn
<1> QED
  BY <1>3, <1>4, <1>11, <1>12 DEF IInv

(* The producer takes what lies before the entry it loaded as its segment.  *)
LEMMA UnhookStep ==
  ASSUME IInv, NEW p \in Producers, Unhook(p)
  PROVE  IInv'
<1>0. TypeOK /\ MutexInv /\ FreshInv /\ SomeList
  BY DEF IInv
<1>1. \A t \in Threads : pc'[t] = IF t = p THEN "free" ELSE pc[t]
  BY <1>0, ThreadFacts DEF Unhook, Goto, TypeOK
<1>2. \A q \in Producers : erase'[q] = IF q = p THEN FirstToErase(p) ELSE erase[q]
  BY <1>0 DEF Unhook, TypeOK
<1>4. MutexInv'
  BY <1>0, <1>1, ThreadFacts DEF Unhook, MutexInv
<1>5. PICK at \in Journals, n, f, r \in Nat, lo, hi \in Bounds : ListInv(at, n, f, r, lo, hi)
  BY <1>0 DEF SomeList
<1>6. Pointers(at, n, f, r, lo, hi) /\ Sections(at, n, f, r, lo, hi)
  BY <1>5 DEF ListInv
<1>7. ptr = NoNode /\ pc[p] = "unhook"
  BY <1>0, ThreadFacts DEF Unhook, MutexInv
<1>8. /\ upto[p] = at[hi[p]] /\ hi[p] <= r /\ (hi[p] = 0 \/ f <= hi[p]) /\ lo[p] = hi[p]
      /\ hi[p] \in Nat /\ r <= n
  BY <1>6, <1>7 DEF Sections, Pointers, Bounds
<1>9. \A q \in Producers : q # p => pc[q] # "unhook"
  BY <1>0, <1>7 DEF MutexInv
<1>10. \A q \in Producers : pc'[q] = "link" <=> pc[q] = "link"
  BY <1>1, <1>7, ThreadFacts
<1>11. CASE hi[p] = 0
  <2>1. upto[p] = Root /\ FirstToErase(p) = Root /\ next' = next
    BY <1>6, <1>8, <1>11 DEF Pointers, FirstToErase, Unhook, Unhooked
  <2>2. TypeOK'
    BY <1>0, <2>1, ThreadFacts DEF Unhook, Goto, TypeOK
  <2>3. Pointers(at, n, f, r, lo, hi)'
    BY <1>6, <2>1 DEF Unhook, Pointers
  <2>4. Sections(at, n, f, r, lo, hi)'
    <3>1. at[0] = Root
      BY <1>6 DEF Pointers
    <3> QED
      BY <1>1, <1>2, <1>6, <1>8, <1>11, <2>1, <3>1, ThreadFacts DEF Unhook, Sections
  <2>5. Chain(at, n, f, lo, hi)' /\ Owners(at, n, f, lo, hi)'
    <3>1. \A a, b \in Producers : \A i \in 1 .. n :
             InSegment(a, i, lo, hi) /\ InSegment(b, i, lo, hi) => a = b
      BY <1>5 DEF ListInv, Owners
    <3>2. UNCHANGED <<data, alive, item>>
      BY DEF Unhook
    <3> QED
      BY <1>5, <1>10, <2>1, <3>1, <3>2, SameChain
  <2>6. SomeList'
    BY <1>5, <2>3, <2>4, <2>5 DEF SomeList, ListInv
  <2>7. FreshInv'
    BY <1>0, <1>10, <2>1, SameFresh DEF Unhook
  <2> QED
    BY <1>4, <2>2, <2>6, <2>7 DEF IInv
<1>12. CASE hi[p] # 0
  <2> DEFINE g == hi[p]
             l == [lo EXCEPT ![p] = f]
  <2>0. g \in 1 .. n /\ f <= g /\ f \in 1 .. n /\ g <= r /\ r <= n /\ f # 0 /\ g \in Nat
    BY <1>6, <1>8, <1>12 DEF Pointers
  <2>1. /\ upto[p] = at[g] /\ at[g] \in Nodes /\ upto[p] # Root
        /\ next[Root] = at[f] /\ at[f] \in Nodes /\ FirstToErase(p) = at[f]
        /\ next' = [next EXCEPT ![Root] = at[g]]
    <3>1. at[g] \in Nodes /\ at[f] \in Nodes /\ next[Root] = at[f]
      BY <1>6, <1>7, <2>0 DEF Pointers
    <3> QED
      BY <1>8, <3>1, ThreadFacts DEF FirstToErase, Unhook, Unhooked
  <2>2. l \in Bounds /\ \A q \in Producers : l[q] = IF q = p THEN f ELSE lo[q]
    BY DEF Bounds
  <2> HIDE DEF l
  <2>3. /\ next'[Root] = at[g] /\ \A m \in Nodes : next'[m] = next[m]
        /\ TypeOK'
    <3>1. next'[Root] = at[g] /\ (\A m \in Nodes : next'[m] = next[m])
          /\ next' \in [Links -> Links \cup {NoNode}]
      BY <1>0, <2>1, ThreadFacts DEF TypeOK
    <3>2. erase' \in [Producers -> Links]
      BY <1>0, <2>1, ThreadFacts DEF TypeOK, Unhook
    <3> QED
      BY <1>0, <3>1, <3>2, ThreadFacts DEF Unhook, Goto, TypeOK
  <2>4. Pointers(at, n, g, r, l, hi)'
    BY <1>6, <1>7, <2>0, <2>3 DEF Unhook, Pointers
  <2>5. Sections(at, n, g, r, l, hi)'
    <3>1. \A q \in Producers : q # p => pc'[q] = pc[q] /\ pc'[q] # "unhook"
      BY <1>1, <1>9, ThreadFacts
    <3>2. \A c \in Consumers : pc'[c] = pc[c]
      BY <1>1, ThreadFacts
    <3>3. pc'[p] = "free" /\ erase'[p] = at[l[p]]
      BY <1>1, <1>2, <2>1, <2>2, ThreadFacts
    <3>4. \A q \in Producers : hi[q] \in Nat /\ (hi[q] <= f => hi[q] <= g)
      BY <2>0 DEF Bounds
    <3> QED
      BY <1>2, <1>6, <1>8, <2>0, <2>1, <2>2, <3>1, <3>2, <3>3, <3>4 DEF Unhook, Sections
  <2>6. \A q \in Producers : lo[q] < hi[q] => q # p /\ hi[q] <= f
    <3> SUFFICES ASSUME NEW q \in Producers, lo[q] < hi[q]
                 PROVE  q # p /\ hi[q] <= f
      OBVIOUS
    <3>1. lo[q] \in Nat /\ hi[q] \in Nat
      BY DEF Bounds
    <3> QED
      BY <1>6, <1>8, <3>1 DEF Sections
  <2>7. Kept(n, g, l, hi) = Kept(n, f, lo, hi)
    <3>1. ASSUME NEW i \in 1 .. n, g <= i \/ \E q \in Producers : InSegment(q, i, l, hi)
          PROVE  f <= i \/ \E q \in Producers : InSegment(q, i, lo, hi)
      BY <2>0, <2>2, <3>1 DEF InSegment
    <3>2. ASSUME NEW i \in 1 .. n, f <= i \/ \E q \in Producers : InSegment(q, i, lo, hi)
          PROVE  g <= i \/ \E q \in Producers : InSegment(q, i, l, hi)
      <4>1. CASE f <= i
        BY <2>0, <2>2, <4>1 DEF InSegment
      <4>2. CASE \E q \in Producers : InSegment(q, i, lo, hi)
        <5>1. PICK q \in Producers : InSegment(q, i, lo, hi)
          BY <4>2
        <5>2. lo[q] \in Nat /\ hi[q] \in Nat
          BY DEF Bounds
        <5>3. q # p
          BY <2>6, <5>1, <5>2 DEF InSegment
        <5> QED
          BY <2>2, <5>1, <5>3 DEF InSegment
      <4> QED
        BY <3>2, <4>1, <4>2
    <3> QED
      BY <3>1, <3>2 DEF Kept
  <2>8. \A a, b \in Producers : \A i \in 1 .. n :
           InSegment(a, i, l, hi) /\ InSegment(b, i, l, hi) => a = b
    <3> SUFFICES ASSUME NEW a \in Producers, NEW b \in Producers, NEW i \in 1 .. n, a # b,
                        InSegment(a, i, l, hi), InSegment(b, i, l, hi)
                 PROVE  FALSE
      OBVIOUS
    <3>1. lo[a] \in Nat /\ hi[a] \in Nat /\ lo[b] \in Nat /\ hi[b] \in Nat
      BY DEF Bounds
    <3>2. InSegment(a, i, lo, hi) /\ InSegment(b, i, lo, hi) => FALSE
      BY <1>5 DEF ListInv, Owners
    <3>3. CASE a = p
      BY <2>2, <2>6, <3>1, <3>3 DEF InSegment
    <3>4. CASE b = p
      BY <2>2, <2>6, <3>1, <3>4 DEF InSegment
    <3>5. CASE a # p /\ b # p
      BY <2>2, <3>2, <3>5 DEF InSegment
    <3> QED
      BY <3>3, <3>4, <3>5
  <2>9. Chain(at, n, g, l, hi)' /\ Owners(at, n, g, l, hi)'
    <3>1. UNCHANGED <<data, alive, item>>
      BY DEF Unhook
    <3> HIDE DEF g
    <3> QED
      BY <1>5, <1>10, <2>0, <2>2, <2>3, <2>7, <2>8, <3>1, SameChain
  <2>10. SomeList'
    BY <1>5, <2>0, <2>2, <2>4, <2>5, <2>9 DEF SomeList, ListInv
  <2>11. FreshInv'
    <3>1. UNCHANGED <<data, item>>
      BY DEF Unhook
    <3> QED
      BY <1>0, <1>10, <2>3, <3>1, SameFresh
  <2> QED
    BY <1>4, <2>3, <2>10, <2>11 DEF IInv
<1> QED
  BY <1>11, <1>12

(* One node of a segment is deleted: the first, which nothing else refers   *)
(* to as one that is kept.                                                  *)
LEMMA FreeStep ==
  ASSUME IInv, NEW p \in Producers, Free(p)
  PROVE  IInv'
<1>0. TypeOK /\ MutexInv /\ FreshInv /\ SomeList
  BY DEF IInv
<1>1. pc' = pc /\ pc[p] = "free" /\ item' = item /\ p \in Threads /\ ptr = NoNode
  BY <1>0, ThreadFacts DEF Free, MutexInv
<1>4. MutexInv'
  BY <1>0, <1>1 DEF Free, MutexInv
<1>5. PICK at \in Journals, n, f, r \in Nat, lo, hi \in Bounds : ListInv(at, n, f, r, lo, hi)
  BY <1>0 DEF SomeList
<1>6. /\ Pointers(at, n, f, r, lo, hi) /\ Sections(at, n, f, r, lo, hi)
      /\ Chain(at, n, f, lo, hi) /\ Owners(at, n, f, lo, hi)
  BY <1>5 DEF ListInv
<1> DEFINE i == lo[p]
           l == [lo EXCEPT ![p] = i + 1]
           K == Kept(n, f, lo, hi)
<1>7. /\ i \in 1 .. n /\ i \in K /\ i < hi[p] /\ hi[p] \in Nat /\ hi[p] <= f /\ hi[p] <= r /\ r <= n
      /\ erase[p] = at[i] /\ upto[p] = at[hi[p]] /\ i # 0 /\ i \in Nat
  <2>1. lo[p] # hi[p]
    BY <1>1, <1>5, SegmentEnd DEF Free
  <2> HIDE DEF K
  <2>2. erase[p] = at[lo[p]] /\ upto[p] = at[hi[p]]
    BY <1>1, <1>6 DEF Sections
  <2>3. lo[p] \in Nat /\ hi[p] \in Nat /\ lo[p] <= hi[p] /\ hi[p] <= f /\ hi[p] <= r /\ r <= n
    BY <1>1, <1>5, SegmentEnd
  <2>4. lo[p] < hi[p] => lo[p] \in K /\ lo[p] # 0
    BY <1>1, <1>5, SegmentEnd DEF K
  <2> QED
    BY <2>1, <2>2, <2>3, <2>4
<1>8. l \in Bounds /\ \A q \in Producers : l[q] = IF q = p THEN i + 1 ELSE lo[q]
  BY DEF Bounds
<1> HIDE DEF l
<1>9. at[i] \in Nodes /\ next[at[i]] = at[i + 1] /\ at[i + 1] \in Nodes
  BY <1>6, <1>7 DEF Pointers, Chain
<1>10. /\ \A m \in Links : next'[m] = IF m = at[i] THEN NoNode ELSE next[m]
       /\ \A m \in Nodes : data'[m] = IF m = at[i] THEN Nothing ELSE data[m]
       /\ \A q \in Producers : erase'[q] = IF q = p THEN at[i + 1] ELSE erase[q]
       /\ alive' = alive \ {at[i]}
  BY <1>0, <1>7, <1>9 DEF Free, AfterErased, TypeOK
<1>11. TypeOK'
  <2>1. AfterErased(p) \in Links /\ erase[p] \in Nodes
    BY <1>7, <1>9, ThreadFacts DEF AfterErased
  <2> QED
    BY <1>0, <2>1, ThreadFacts DEF Free, TypeOK
<1>12. \A j \in 1 .. n : j \in Kept(n, f, l, hi) <=> (j \in K /\ j # i)
  <2> SUFFICES ASSUME NEW j \in 1 .. n
               PROVE  j \in Kept(n, f, l, hi) <=> (j \in K /\ j # i)
    OBVIOUS
  <2>1. CASE j = i
    <3>1. ~ (f <= j) /\ ~ InSegment(p, j, l, hi)
      BY <1>7, <1>8, <2>1 DEF InSegment
    <3>2. \A q \in Producers : q # p => ~ InSegment(q, j, lo, hi)
      BY <1>6, <1>7, <2>1 DEF Owners, InSegment
    <3>3. \A q \in Producers : ~ InSegment(q, j, l, hi)
      BY <1>8, <3>1, <3>2 DEF InSegment
    <3> QED
      BY <2>1, <3>1, <3>3 DEF Kept
  <2>2. CASE j # i
    <3>1. \A q \in Producers : InSegment(q, j, l, hi) <=> InSegment(q, j, lo, hi)
      BY <1>7, <1>8, <2>2 DEF InSegment
    <3> QED
      BY <2>2, <3>1 DEF Kept
  <2> QED
    BY <2>1, <2>2
<1>13. /\ Kept(n, f, l, hi) = K \ {i} /\ Kept(n, f, l, hi)' = K \ {i}
       /\ \A j \in K : j \in 1 .. n /\ at[j] \in Nodes
       /\ \A j \in K \ {i} : at[j] # at[i]
  <2>1. Kept(n, f, l, hi) = K \ {i}
    BY <1>12 DEF Kept
  <2>2. Kept(n, f, l, hi)' = Kept(n, f, l, hi)
    BY DEF Kept, InSegment
  <2> QED
    BY <1>6, <1>7, <2>1, <2>2 DEF Pointers, Chain, Kept
<1> HIDE DEF K
<1>14. Holders' = Holders /\ \A q \in Holders : q \in Producers /\ item[q] # at[i] /\ item[q] \in Nodes
  BY <1>0, <1>1, <1>6, <1>7 DEF Holders, Owners, FreshInv, K
<1>15. FreshInv'
  BY <1>0, <1>1, <1>10, <1>14, ThreadFacts DEF FreshInv
<1>16. Pointers(at, n, f, r, l, hi)'
  BY <1>6, <1>9, <1>10, ThreadFacts DEF Free, Pointers
<1>17. Sections(at, n, f, r, l, hi)'
  <2>1. \A c \in Consumers : pc[c] = "advance" => data'[item[c]] = data[item[c]]
    <3> SUFFICES ASSUME NEW c \in Consumers, pc[c] = "advance"
                 PROVE  data'[item[c]] = data[item[c]]
      OBVIOUS
    <3>1. r < n /\ item[c] = at[r + 1] /\ r + 1 \in 1 .. n /\ f <= r + 1
      BY <1>1, <1>6, <1>7 DEF Sections, Pointers
    <3>2. r + 1 \in K \ {i}
      BY <1>7, <3>1 DEF K, Kept
    <3> QED
      BY <1>10, <1>13, <3>1, <3>2
  <2>2. \A c \in Consumers : out'[c] = out[c]
    BY DEF Free
  <2> QED
    BY <1>1, <1>6, <1>7, <1>8, <1>10, <2>1, <2>2 DEF Free, Sections
<1>18. Chain(at, n, f, l, hi)'
  BY <1>6, <1>10, <1>13, ThreadFacts DEF Chain, K
<1>19. Owners(at, n, f, l, hi)'
  <2>1. \A a, b \in Producers : \A j \in 1 .. n :
           InSegment(a, j, l, hi) /\ InSegment(b, j, l, hi) => a = b
    <3> SUFFICES ASSUME NEW a \in Producers, NEW j \in 1 .. n, InSegment(a, j, l, hi)
                 PROVE  InSegment(a, j, lo, hi)
      BY <1>6 DEF Owners
    <3> QED
      BY <1>7, <1>8 DEF InSegment
  <2>2. alive' = {item'[q] : q \in Holders'} \cup {at[j] : j \in K \ {i}}
    BY <1>1, <1>6, <1>10, <1>13, <1>14 DEF Owners, K
  <2>3. \A q \in Holders : \A j \in K : item[q] # at[j]
    BY <1>6 DEF Owners, K
  <2>4. \A m \in Nodes : m \notin alive' => next'[m] = NoNode
    BY <1>6, <1>10, ThreadFacts DEF Owners
  <2> QED
    BY <1>1, <1>13, <1>14, <2>1, <2>2, <2>3, <2>4 DEF Owners, InSegment
<1>20. SomeList'
  BY <1>5, <1>8, <1>16, <1>17, <1>18, <1>19 DEF SomeList, ListInv
<1> QED
  BY <1>4, <1>11, <1>15, <1>20 DEF IInv

LEMMA AllocateStep ==
  ASSUME IInv, NEW p \in Producers, NEW m \in Nodes, NEW e \in Elements, Allocate(p, m, e)
  PROVE  IInv'
<1>0. TypeOK /\ MutexInv /\ FreshInv /\ SomeList
  BY DEF IInv
<1>1. \A t \in Threads : /\ pc'[t] = IF t = p THEN "link" ELSE pc[t]
                         /\ item'[t] = IF t = p THEN m ELSE item[t]
  BY <1>0, ThreadFacts DEF Allocate, Goto, TypeOK
<1>2. /\ \A x \in Links : next'[x] = IF x = m THEN Root ELSE next[x]
      /\ \A x \in Nodes : data'[x] = IF x = m THEN e ELSE data[x]
      /\ alive' = alive \cup {m} /\ m \notin alive /\ pc[p] = "idle" /\ ptr = NoNode
  BY <1>0 DEF Allocate, TypeOK
<1>3. TypeOK'
  BY <1>0, ThreadFacts DEF Allocate, Goto, TypeOK
<1>4. MutexInv'
  BY <1>0, <1>1, <1>2, ThreadFacts DEF Allocate, MutexInv
<1>5. PICK at \in Journals, n, f, r \in Nat, lo, hi \in Bounds : ListInv(at, n, f, r, lo, hi)
  BY <1>0 DEF SomeList
<1>6. /\ Pointers(at, n, f, r, lo, hi) /\ Sections(at, n, f, r, lo, hi)
      /\ Chain(at, n, f, lo, hi) /\ Owners(at, n, f, lo, hi)
  BY <1>5 DEF ListInv
<1> DEFINE K == Kept(n, f, lo, hi)
<1>7. /\ Kept(n, f, lo, hi)' = K
      /\ \A j \in K : j \in 1 .. n /\ at[j] \in Nodes /\ at[j] \in alive /\ at[j] # m
  <2>1. Kept(n, f, lo, hi)' = Kept(n, f, lo, hi)
    BY DEF Kept, InSegment
  <2> QED
    BY <1>2, <1>6, <2>1 DEF Pointers, Owners, Kept
<1>8. /\ Holders' = Holders \cup {p} /\ p \notin Holders
      /\ \A q \in Holders : q \in Producers /\ q # p /\ item'[q] = item[q] /\ item[q] # m
                            /\ item[q] \in Nodes
      /\ item'[p] = m
  <2>1. Holders' = Holders \cup {p} /\ p \notin Holders
    BY <1>1, <1>2, ThreadFacts DEF Holders
  <2>2. \A q \in Holders : q \in Producers /\ q # p /\ item[q] \in alive /\ item[q] \in Nodes
    BY <1>0, <1>6, <2>1 DEF Holders, Owners, FreshInv
  <2> QED
    BY <1>1, <1>2, <2>1, <2>2, ThreadFacts
<1> HIDE DEF K
<1>9. FreshInv'
  BY <1>0, <1>2, <1>8, ThreadFacts DEF FreshInv
<1>10. Pointers(at, n, f, r, lo, hi)'
  BY <1>2, <1>6, ThreadFacts DEF Allocate, Pointers
<1>11. Sections(at, n, f, r, lo, hi)'
  <2>1. \A c \in Consumers : pc'[c] = pc[c] /\ item'[c] = item[c] /\ out'[c] = out[c]
    BY <1>1, ThreadFacts DEF Allocate
  <2>2. \A q \in Producers : q # p => pc'[q] = pc[q]
    BY <1>1, ThreadFacts
  <2>3. \A c \in Consumers : pc[c] = "advance" => data'[item[c]] = data[item[c]]
    <3> SUFFICES ASSUME NEW c \in Consumers, pc[c] = "advance"
                 PROVE  data'[item[c]] = data[item[c]]
      OBVIOUS
    <3>1. r < n /\ item[c] = at[r + 1] /\ r + 1 \in 1 .. n /\ f <= r + 1
      BY <1>2, <1>6 DEF Sections, Pointers
    <3>2. r + 1 \in K
      BY <3>1 DEF K, Kept
    <3> QED
      BY <1>2, <1>7, <3>1, <3>2
  <2>4. pc'[p] = "link" /\ lo[p] = hi[p]
    BY <1>1, <1>2, <1>6, ThreadFacts DEF Sections
  <2> QED
    BY <1>6, <2>1, <2>2, <2>3, <2>4 DEF Allocate, Sections
<1>12. Chain(at, n, f, lo, hi)'
  BY <1>2, <1>6, <1>7, ThreadFacts DEF Chain, K
<1>13. Owners(at, n, f, lo, hi)'
  <2>1. alive' = {item'[q] : q \in Holders'} \cup {at[j] : j \in K}
    BY <1>2, <1>6, <1>8 DEF Owners, K
  <2>2. \A q \in Holders : \A j \in K : item[q] # at[j]
    BY <1>6 DEF Owners, K
  <2>3. \A x \in Nodes : x \notin alive' => next'[x] = NoNode
    BY <1>2, <1>6, ThreadFacts DEF Owners
  <2> QED
    BY <1>6, <1>7, <1>8, <2>1, <2>2, <2>3 DEF Owners, InSegment
<1>14. SomeList'
  BY <1>5, <1>10, <1>11, <1>12, <1>13 DEF SomeList, ListInv
<1> QED
  BY <1>3, <1>4, <1>9, <1>14 DEF IInv

(* The new node becomes the last entry of the journal.                      *)
LEMMA LinkStep ==
  ASSUME IInv, NEW p \in Producers, Link(p)
  PROVE  IInv'
<1>0. TypeOK /\ MutexInv /\ FreshInv /\ SomeList
  BY DEF IInv
<1>1. \A t \in Threads : /\ pc'[t] = IF t = p THEN "load" ELSE pc[t]
                         /\ item'[t] = IF t = p THEN NoNode ELSE item[t]
  BY <1>0, ThreadFacts DEF Link, Goto, TypeOK
<1>2. pc[p] = "link" /\ produceMutex = NoThread /\ p \in Holders
  BY DEF Link, Holders
<1>3. PICK m \in Nodes : m = item[p] /\ next[m] = Root /\ data[m] \in Elements
  BY <1>0, <1>2 DEF FreshInv
<1>4. ptr = NoNode
  BY <1>0, <1>2, ThreadFacts DEF MutexInv
<1>5. PICK at \in Journals, n, f, r \in Nat, lo, hi \in Bounds : ListInv(at, n, f, r, lo, hi)
  BY <1>0 DEF SomeList
<1>6. /\ Pointers(at, n, f, r, lo, hi) /\ Sections(at, n, f, r, lo, hi)
      /\ Chain(at, n, f, lo, hi) /\ Owners(at, n, f, lo, hi)
  BY <1>5 DEF ListInv
<1> DEFINE K == Kept(n, f, lo, hi)
           w == n + 1
           a == [at EXCEPT ![w] = m]
<1>7. /\ w \in Nat /\ w # 0 /\ f \in 1 .. w /\ r \in 0 .. n /\ n < w /\ w = n + 1
      /\ n # 0 => n \in K /\ tail \in Nodes
      /\ n = 0 => f = 1 /\ r = 0 /\ tail = Root
      /\ tail = at[n]
  BY <1>4, <1>6 DEF Pointers, Kept
<1>8. /\ a \in Journals /\ a[w] = m /\ \A i \in 0 .. n : a[i] = at[i]
  BY <1>3, ThreadFacts DEF Journals
<1>9. \A q \in Producers : /\ lo[q] \in Nat /\ hi[q] \in Nat
                           /\ lo[q] = hi[q] \/ (lo[q] \in 0 .. n /\ hi[q] \in 0 .. n)
                           /\ pc[q] \in {"unhook", "free"} => lo[q] \in 0 .. n /\ hi[q] \in 0 .. n
  <2> SUFFICES ASSUME NEW q \in Producers
               PROVE  /\ lo[q] \in Nat /\ hi[q] \in Nat
                      /\ lo[q] = hi[q] \/ (lo[q] \in 0 .. n /\ hi[q] \in 0 .. n)
                      /\ pc[q] \in {"unhook", "free"} => lo[q] \in 0 .. n /\ hi[q] \in 0 .. n
    OBVIOUS
  <2>1. lo[q] \in Nat /\ hi[q] \in Nat
    BY DEF Bounds
  <2> QED
    BY <1>6, <1>7, <2>1 DEF Sections
<1>10. /\ Kept(w, f, lo, hi) = K \cup {w} /\ Kept(w, f, lo, hi)' = K \cup {w} /\ w \notin K
       /\ \A i \in K : i \in 1 .. n /\ i \in Nat /\ a[i] = at[i] /\ at[i] \in Nodes /\ at[i] # m
  <2>1. \A i \in 1 .. w : i \in Kept(w, f, lo, hi) <=> i \in K \cup {w}
    BY <1>7, <1>9 DEF Kept, InSegment
  <2>2. Kept(w, f, lo, hi) = K \cup {w}
    <3>1. Kept(w, f, lo, hi) \subseteq 1 .. w /\ K \cup {w} \subseteq 1 .. w
      BY <1>7 DEF Kept
    <3> QED
      BY <2>1, <3>1
  <2>3. Kept(w, f, lo, hi)' = Kept(w, f, lo, hi)
    BY DEF Kept, InSegment
  <2>4. \A i \in K : i \in 1 .. n
    BY DEF Kept
  <2>5. \A i \in K : at[i] \in Nodes /\ at[i] # m
    BY <1>2, <1>3, <1>6, <2>4 DEF Pointers, Owners
  <2> QED
    BY <1>7, <1>8, <2>2, <2>3, <2>4, <2>5
<1> HIDE DEF K, w, a
<1>11. /\ \A x \in Links : next'[x] = IF x = tail THEN m ELSE next[x]
       /\ tail' = m /\ data' = data /\ alive' = alive /\ ptr' = NoNode
       /\ waiting' = Append(waiting, m)
  BY <1>0, <1>3, <1>4 DEF Link, TypeOK
<1>12. TypeOK'
  <2>1. waiting' \in Seq(Nodes)
    BY <1>0, <1>11, AppendProperties DEF TypeOK
  <2> QED
    BY <1>0, <1>3, <2>1, ThreadFacts DEF Link, Goto, TypeOK
<1>13. MutexInv'
  BY <1>0, <1>1, <1>2, <1>4, ThreadFacts DEF Link, MutexInv
<1>14. /\ Holders' = Holders \ {p}
       /\ \A q \in Holders : q \in Producers /\ item[q] \in Nodes /\ (q # p => item'[q] = item[q])
       /\ \A q \in Holders : item[q] # tail /\ (q # p => item[q] # m)
  <2>1. Holders' = Holders \ {p}
    BY <1>1, <1>2, ThreadFacts DEF Holders
  <2>2. \A q \in Holders : q \in Producers /\ item[q] \in Nodes /\ (q # p => item[q] # m)
    BY <1>0, <1>2, <1>3 DEF Holders, FreshInv
  <2>3. \A q \in Holders : item[q] # tail
    BY <1>6, <1>7, <2>2, ThreadFacts DEF Owners, K
  <2> QED
    BY <1>1, <2>1, <2>2, <2>3, ThreadFacts
<1>15. FreshInv'
  BY <1>0, <1>11, <1>14, ThreadFacts DEF FreshInv
<1>16. Pointers(a, w, f, r, lo, hi)'
  <2>1. /\ waiting \in Seq(Nodes) /\ Len(waiting) = n - r /\ Len(waiting) \in Nat
        /\ \A i \in 1 .. n - r : waiting[i] = at[r + i]
    BY <1>0, <1>6 DEF TypeOK, Pointers
  <2>2. /\ Len(waiting') = Len(waiting) + 1 /\ waiting'[Len(waiting) + 1] = m
        /\ \A i \in 1 .. Len(waiting) : waiting'[i] = waiting[i]
    <3>1. LET s == Append(waiting, m)
          IN  /\ Len(s) = Len(waiting) + 1 /\ s[Len(waiting) + 1] = m
              /\ \A i \in 1 .. Len(waiting) : s[i] = waiting[i]
      BY <2>1, AppendProperties
    <3> QED
      BY <1>11, <3>1
  <2>3. Len(waiting') = w - r /\ \A i \in 1 .. w - r : waiting'[i] = a[r + i]
    <3>1. Len(waiting') = w - r
      BY <1>7, <2>1, <2>2
    <3>2. ASSUME NEW i \in 1 .. w - r
          PROVE  waiting'[i] = a[r + i]
      <4>1. CASE i = w - r
        <5>1. r + i = w /\ i = Len(waiting) + 1
          BY <1>7, <2>1, <4>1
        <5> QED
          BY <1>8, <2>2, <5>1
      <4>2. CASE i # w - r
        <5>1. i \in 1 .. n - r /\ r + i \in 0 .. n
          BY <1>7, <4>2
        <5> QED
          BY <1>8, <2>1, <2>2, <5>1
      <4> QED
        BY <4>1, <4>2
    <3> QED
      BY <3>1, <3>2
  <2>4. a[0] = Root /\ \A i \in 1 .. w : a[i] \in Nodes
    BY <1>3, <1>6, <1>7, <1>8 DEF Pointers
  <2>5. read' = a[r] /\ tail' = a[w] /\ r \in 0 .. w /\ f \in 1 .. w + 1
    BY <1>6, <1>7, <1>8, <1>11 DEF Link, Pointers
  <2>6. next'[Root] = a[f] /\ f <= w
    <3>1. CASE n = 0
      BY <1>7, <1>8, <1>11, <3>1, ThreadFacts
    <3>2. CASE n # 0
      <4>1. f <= n /\ f \in 0 .. n
        BY <1>4, <1>6, <1>7, <3>2 DEF Pointers
      <4> QED
        BY <1>4, <1>6, <1>7, <1>8, <1>11, <3>2, <4>1, ThreadFacts DEF Pointers
    <3> QED
      BY <3>1, <3>2
  <2>7. (r = 0 /\ f = 1) \/ f <= r
    BY <1>4, <1>6 DEF Pointers
  <2> QED
    BY <1>11, <2>3, <2>4, <2>5, <2>6, <2>7 DEF Pointers
<1>17. Sections(a, w, f, r, lo, hi)'
  <2>1. \A c \in Consumers : pc'[c] = pc[c] /\ item'[c] = item[c] /\ out'[c] = out[c]
    BY <1>1, ThreadFacts DEF Link
  <2>2. \A q \in Producers : q # p => pc'[q] = pc[q]
    BY <1>1, ThreadFacts
  <2>3. pc'[p] = "load" /\ lo[p] = hi[p]
    BY <1>1, <1>2, <1>6, ThreadFacts DEF Sections
  <2>4. \A c \in Consumers : pc[c] \in {"move", "advance"} => r < w /\ item[c] = a[r + 1]
    <3>1. \A c \in Consumers : pc[c] \in {"move", "advance"} => r < n /\ item[c] = at[r + 1]
      BY <1>6 DEF Sections
    <3>2. r < n => r < w /\ a[r + 1] = at[r + 1]
      BY <1>7, <1>8
    <3> QED
      BY <3>1, <3>2
  <2>5. \A q \in Producers : pc[q] \in {"unhook", "free"} => a[lo[q]] = at[lo[q]] /\ a[hi[q]] = at[hi[q]]
    BY <1>8, <1>9
  <2> QED
    BY <1>6, <1>11, <2>1, <2>2, <2>3, <2>4, <2>5 DEF Link, Sections
<1>18. Chain(a, w, f, lo, hi)'
  <2>1. ASSUME NEW i \in K \cup {w}
        PROVE  next'[a[i]] = IF i < w THEN a[i + 1] ELSE Root
    <3>1. CASE i = w
      BY <1>3, <1>7, <1>8, <1>10, <1>11, <1>14, <3>1, <1>2, ThreadFacts
    <3>2. CASE i = n /\ i \in K
      BY <1>7, <1>8, <1>10, <1>11, <3>2, ThreadFacts
    <3>3. CASE i # n /\ i \in K
      <4>1. i < n /\ i + 1 \in 0 .. n /\ i < w
        BY <1>7, <1>10, <3>3
      <4>2. next[at[i]] = at[i + 1]
        BY <1>6, <3>3, <4>1 DEF Chain, K
      <4>3. at[i] # tail
        <5>1. n \in K /\ tail = at[n]
          BY <1>7, <1>10, <3>3, <4>1
        <5> QED
          BY <1>6, <3>3, <5>1 DEF Chain, K
      <4> QED
        BY <1>8, <1>10, <1>11, <3>3, <4>1, <4>2, <4>3, ThreadFacts
    <3> QED
      BY <3>1, <3>2, <3>3
  <2>2. \A i \in K \cup {w} : data'[a[i]] \in Elements
    BY <1>3, <1>6, <1>8, <1>10, <1>11 DEF Chain, K
  <2>3. \A i, j \in K \cup {w} : a[i] = a[j] => i = j
    BY <1>6, <1>8, <1>10 DEF Chain, K
  <2>4. ASSUME NEW i \in K \cup {w}, NEW j \in K \cup {w}, i < w, a[i + 1] = a[j]
        PROVE  i < j
    <3>1. i \in K /\ i \in Nat /\ i <= n
      BY <1>7, <1>10, <2>4
    <3>2. CASE j = w
      BY <1>7, <1>10, <2>4, <3>2
    <3>3. CASE j \in K
      <4>1. a[j] = at[j] /\ a[j] # m
        BY <1>10, <3>3
      <4>2. i # n
        BY <1>7, <1>8, <2>4, <4>1
      <4>3. i < n /\ a[i + 1] = at[i + 1]
        BY <1>7, <1>8, <3>1, <4>2
      <4> QED
        BY <1>6, <2>4, <3>1, <3>3, <4>1, <4>3 DEF Chain, K
    <3> QED
      BY <3>2, <3>3
  <2> QED
    BY <1>10, <2>1, <2>2, <2>3, <2>4 DEF Chain
<1>19. Owners(a, w, f, lo, hi)'
  <2>1. \A q, s \in Producers : \A i \in 1 .. w :
           InSegment(q, i, lo, hi) /\ InSegment(s, i, lo, hi) => q = s
    <3> SUFFICES ASSUME NEW q \in Producers, NEW s \in Producers, NEW i \in 1 .. w,
                        InSegment(q, i, lo, hi), InSegment(s, i, lo, hi)
                 PROVE  q = s
      OBVIOUS
    <3>1. i \in 1 .. n
      BY <1>7, <1>9 DEF InSegment
    <3> QED
      BY <1>6, <3>1 DEF Owners
  <2>2. alive' = {item'[q] : q \in Holders'} \cup {a[i] : i \in K \cup {w}}
    <3>1. {item[q] : q \in Holders} = {item'[q] : q \in Holders'} \cup {m}
      BY <1>2, <1>3, <1>14
    <3>2. {a[i] : i \in K \cup {w}} = {at[i] : i \in K} \cup {m}
      BY <1>8, <1>10
    <3> QED
      BY <1>6, <1>11, <3>1, <3>2 DEF Owners, K
  <2>3. \A q \in Holders' : \A i \in K \cup {w} : item'[q] # a[i]
    BY <1>6, <1>8, <1>10, <1>14 DEF Owners, K
  <2>4. \A x \in Nodes : x \notin alive' => next'[x] = NoNode
    <3>1. tail \in Nodes => tail \in alive
      BY <1>6, <1>7, ThreadFacts DEF Owners, K
    <3> QED
      BY <1>6, <1>11, <3>1, ThreadFacts DEF Owners
  <2> QED
    BY <1>10, <2>1, <2>2, <2>3, <2>4 DEF Owners, InSegment
<1>20. SomeList'
  BY <1>5, <1>7, <1>8, <1>16, <1>17, <1>18, <1>19 DEF SomeList, ListInv
<1> QED
  BY <1>12, <1>13, <1>15, <1>20 DEF IInv

LEMMA DestroyBeginStep ==
  ASSUME IInv, DestroyBegin
  PROVE  IInv'
<1>0. TypeOK /\ MutexInv /\ FreshInv /\ SomeList
  BY DEF IInv
<1>1. pc' = pc /\ item' = item /\ next' = next /\ data' = data /\ alive' = alive /\ ptr = NoNode
  BY DEF DestroyBegin
<1>2. PICK at \in Journals, n, f, r \in Nat, lo, hi \in Bounds : ListInv(at, n, f, r, lo, hi)
  BY <1>0 DEF SomeList
<1>3. Pointers(at, n, f, r, lo, hi) /\ Sections(at, n, f, r, lo, hi)
  BY <1>2 DEF ListInv
<1>4. ptr' = IF f <= n THEN at[f] ELSE Root
  BY <1>3 DEF DestroyBegin, Pointers
<1>5. ptr' \in Links /\ ptr' # NoNode
  <2>1. f <= n => at[f] \in Nodes
    BY <1>3 DEF Pointers
  <2> QED
    BY <1>4, <2>1, ThreadFacts
<1>6. TypeOK'
  BY <1>0, <1>5 DEF DestroyBegin, TypeOK
<1>7. MutexInv'
  BY <1>0, <1>1 DEF DestroyBegin, MutexInv
<1>8. FreshInv'
  BY <1>0, <1>1, SameFresh
<1>9. Pointers(at, n, f, r, lo, hi)'
  BY <1>3, <1>4, <1>5 DEF DestroyBegin, Pointers
<1>10. Sections(at, n, f, r, lo, hi)'
  BY <1>1, <1>3 DEF DestroyBegin, Sections
<1>11. Chain(at, n, f, lo, hi)' /\ Owners(at, n, f, lo, hi)'
  <2>1. \A a, b \in Producers : \A i \in 1 .. n :
           InSegment(a, i, lo, hi) /\ InSegment(b, i, lo, hi) => a = b
    BY <1>2 DEF ListInv, Owners
  <2> QED
    BY <1>1, <1>2, <2>1, SameChain
<1>12. SomeList'
  BY <1>2, <1>9, <1>10, <1>11 DEF SomeList, ListInv
<1> QED
  BY <1>6, <1>7, <1>8, <1>12 DEF IInv

(* The list that the destructor walks along: nothing but hooked nodes.      *)
LEMMA DestroyedList ==
  ASSUME TypeOK, MutexInv, ptr # NoNode,
         NEW at \in Journals, NEW n \in Nat, NEW f \in Nat, NEW r \in Nat,
         NEW lo \in Bounds, NEW hi \in Bounds, ListInv(at, n, f, r, lo, hi)
  PROVE  /\ Holders = {} /\ \A p \in Producers : pc[p] = "idle" /\ lo[p] = hi[p]
         /\ f \in 1 .. n + 1 /\ Kept(n, f, lo, hi) = f .. n
         /\ alive = {at[i] : i \in f .. n}
         /\ ptr = IF f <= n THEN at[f] ELSE Root
         /\ ptr = Root <=> f = n + 1
<1>1. /\ Pointers(at, n, f, r, lo, hi) /\ Sections(at, n, f, r, lo, hi)
      /\ Owners(at, n, f, lo, hi)
  BY DEF ListInv
<1>2. \A p \in Producers : pc[p] = "idle" /\ lo[p] = hi[p]
  BY <1>1, ThreadFacts DEF MutexInv, Sections
<1>3. Holders = {}
  BY <1>2 DEF Holders
<1>4. Kept(n, f, lo, hi) = f .. n /\ f \in 1 .. n + 1
  <2>1. \A p \in Producers : \A i \in 1 .. n : ~ InSegment(p, i, lo, hi)
    BY <1>2 DEF InSegment, Bounds
  <2>2. f \in 1 .. n + 1
    BY <1>1 DEF Pointers
  <2> QED
    BY <2>1, <2>2 DEF Kept
<1>5. alive = {at[i] : i \in f .. n}
  BY <1>1, <1>3, <1>4 DEF Owners
<1>6. /\ ptr = IF f <= n THEN at[f] ELSE Root
      /\ f <= n => at[f] \in Nodes
  BY <1>1 DEF Pointers
<1> QED
  BY <1>2, <1>3, <1>4, <1>5, <1>6, ThreadFacts

LEMMA DestroyNextStep ==
  ASSUME IInv, DestroyNext
  PROVE  IInv'
<1>0. TypeOK /\ MutexInv /\ FreshInv /\ SomeList
  BY DEF IInv
<1>1. pc' = pc /\ item' = item /\ data' = data /\ ptr \notin {NoNode, Root}
  BY DEF DestroyNext
<1>2. PICK at \in Journals, n, f, r \in Nat, lo, hi \in Bounds : ListInv(at, n, f, r, lo, hi)
  BY <1>0 DEF SomeList
<1>3. /\ Pointers(at, n, f, r, lo, hi) /\ Sections(at, n, f, r, lo, hi)
      /\ Chain(at, n, f, lo, hi) /\ Owners(at, n, f, lo, hi)
  BY <1>2 DEF ListInv
<1>4. /\ Holders = {} /\ \A p \in Producers : pc[p] = "idle" /\ lo[p] = hi[p]
      /\ f \in 1 .. n + 1 /\ Kept(n, f, lo, hi) = f .. n
      /\ alive = {at[i] : i \in f .. n}
      /\ ptr = IF f <= n THEN at[f] ELSE Root
      /\ ptr = Root <=> f = n + 1
  BY <1>0, <1>1, <1>2, DestroyedList
<1> DEFINE g == f + 1
<1>5. f \in f .. n /\ f \in 1 .. n /\ ptr = at[f] /\ g \in 1 .. n + 1 /\ g \in Nat
      /\ \A i \in g .. n : i \in f .. n /\ i # f /\ i \in 1 .. n
  BY <1>1, <1>4
<1>6. /\ next[ptr] = IF g <= n THEN at[g] ELSE Root
      /\ ptr \in Nodes /\ \A i \in 1 .. n : at[i] \in Nodes
  BY <1>3, <1>4, <1>5 DEF Chain, Pointers
<1>7. /\ \A x \in Links : next'[x] = IF x = ptr THEN NoNode ELSE next[x]
      /\ ptr' = next[ptr] /\ ptr' \in Links /\ ptr' # NoNode
      /\ alive' = alive \ {ptr}
  <2>1. ptr' \in Links /\ ptr' # NoNode
    BY <1>5, <1>6, ThreadFacts DEF DestroyNext
  <2> QED
    BY <1>0, <1>6, <2>1, ThreadFacts DEF DestroyNext, TypeOK
<1>8. TypeOK'
  BY <1>0, <1>6, <1>7, ThreadFacts DEF DestroyNext, TypeOK
<1>9. MutexInv' /\ FreshInv'
  BY <1>0, <1>1, <1>4 DEF DestroyNext, MutexInv, FreshInv, Holders
<1>10. Pointers(at, n, g, r, lo, hi)'
  BY <1>3, <1>5, <1>6, <1>7 DEF DestroyNext, Pointers
<1>11. Sections(at, n, g, r, lo, hi)'
  <2>1. \A c \in Consumers : pc[c] = "idle"
    BY <1>0, <1>1, ThreadFacts DEF MutexInv
  <2> QED
    BY <1>1, <1>4, <2>1 DEF Sections
<1>12. Kept(n, g, lo, hi)' = g .. n
  <2>1. \A p \in Producers : \A i \in 1 .. n : ~ InSegment(p, i, lo, hi)
    BY <1>4 DEF InSegment, Bounds
  <2> QED
    BY <1>5, <2>1 DEF Kept, InSegment
<1> HIDE DEF g
<1>13. \A i \in g .. n : at[i] # ptr /\ at[i] \in Nodes
  BY <1>3, <1>4, <1>5, <1>6 DEF Chain
<1>14. Chain(at, n, g, lo, hi)'
  <2>1. \A i \in g .. n : next'[at[i]] = IF i < n THEN at[i + 1] ELSE Root
    BY <1>3, <1>4, <1>5, <1>7, <1>13, ThreadFacts DEF Chain
  <2> QED
    BY <1>1, <1>3, <1>4, <1>5, <1>12, <2>1 DEF Chain
<1>15. Owners(at, n, g, lo, hi)'
  <2>1. alive' = {at[i] : i \in g .. n}
    <3>1. \A i \in f .. n : i = f \/ i \in g .. n
      BY <1>5 DEF g
    <3> QED
      BY <1>4, <1>5, <1>7, <1>13, <3>1
  <2>2. Holders' = {}
    BY <1>1, <1>4 DEF Holders
  <2>3. \A x \in Nodes : x \notin alive' => next'[x] = NoNode
    BY <1>3, <1>7, ThreadFacts DEF Owners
  <2> QED
    BY <1>3, <1>12, <2>1, <2>2, <2>3 DEF Owners, InSegment
<1>16. SomeList'
  BY <1>2, <1>5, <1>10, <1>11, <1>14, <1>15 DEF SomeList, ListInv
<1> QED
  BY <1>8, <1>9, <1>16 DEF IInv

LEMMA NextIInv == IInv /\ [Next]_vars => IInv'
<1> SUFFICES ASSUME IInv, [Next]_vars
             PROVE  IInv'
  OBVIOUS
<1>1. ASSUME NEW p \in Producers, Emplace(p)
      PROVE  IInv'
  <2>1. ASSUME NEW m \in Nodes, NEW e \in Elements, Allocate(p, m, e)
        PROVE  IInv'
    BY <2>1, AllocateStep
  <2> QED
    BY <1>1, <2>1, LinkStep, LoadReadStep, UnhookStep, FreeStep, EmplaceReturnStep DEF Emplace
<1>2. ASSUME NEW c \in Consumers, Consume(c)
      PROVE  IInv'
  BY <1>2, LockConsumeStep, FindNextStep, FindNothingStep, MoveDataStep, AdvanceStep DEF Consume
<1>3. CASE UNCHANGED vars
  <2>1. TypeOK' /\ MutexInv' /\ FreshInv'
    BY <1>3 DEF IInv, TypeOK, MutexInv, FreshInv, Holders, vars
  <2>2. PICK at \in Journals, n, f, r \in Nat, lo, hi \in Bounds : ListInv(at, n, f, r, lo, hi)
    BY DEF IInv, SomeList
  <2>3. Sections(at, n, f, r, lo, hi)'
    BY <1>3, <2>2 DEF ListInv, Sections, vars
  <2>4. Quiet
    BY <1>3 DEF Quiet, vars
  <2>5. SomeList'
    BY <2>2, <2>3, <2>4, QuietList DEF SomeList, ListInv
  <2> QED
    BY <2>1, <2>5 DEF IInv
<1> QED
  BY <1>1, <1>2, <1>3, DestroyBeginStep, DestroyNextStep DEF Next, Terminating

(* No variable leaves its type, for any sets of threads and any number of   *)
(* addresses: no deleted node's link is followed (mcmp_list.h:24-88).       *)
THEOREM TypeCorrect == Spec => []TypeOK
<1>1. Spec => []IInv
  BY InitIInv, NextIInv, PTL DEF Spec
<1>2. IInv => TypeOK
  BY DEF IInv
<1> QED
  BY <1>1, <1>2, PTL
-----------------------------------------------------------------------------
(* The walk along the links *)

Max == Cardinality(Nodes)

LEMMA MaxType == Max \in Nat
  BY ConstantsAssumption, FS_CardinalityType DEF Max

End(x, path) == IF path = << >> THEN x ELSE path[Len(path)]
Extended(x, path) ==
  IF next[End(x, path)] \in Nodes THEN Append(path, next[End(x, path)]) ELSE path

(* w[k] is the path from x after k attempts to go on.                       *)
IsWalk(x, w) == w = [k \in 0 .. Max |-> IF k = 0 THEN << >> ELSE Extended(x, w[k - 1])]

LEMMA BehindIsChosen ==
  ASSUME NEW x
  PROVE  Behind(x) = (CHOOSE w : IsWalk(x, w))[Max]
  BY DEF Behind, IsWalk, Extended, End, Max

LEMMA WalkStart ==
  ASSUME NEW x, NEW w, IsWalk(x, w)
  PROVE  w[0] = << >> /\ \A k \in Nat : k < Max => w[k + 1] = Extended(x, w[k])
<1> DEFINE F(k) == IF k = 0 THEN << >> ELSE Extended(x, w[k - 1])
<1>1. w = [k \in 0 .. Max |-> F(k)]
  BY DEF IsWalk
<1> HIDE DEF F
<1>2. \A k \in 0 .. Max : w[k] = F(k)
  BY <1>1
<1>3. w[0] = F(0)
  BY <1>2, MaxType
<1>4. \A k \in Nat : k < Max => k + 1 \in 0 .. Max /\ k + 1 # 0 /\ (k + 1) - 1 = k
  BY MaxType
<1> QED
  BY <1>2, <1>3, <1>4 DEF F

(* What holds of 0, and of n + 1 if of n, holds of every natural number.    *)
LEMMA LeastNatural ==
  ASSUME NEW S \in SUBSET Nat, S # {}
  PROVE  \E m \in S : \A n \in S : m <= n
<1> DEFINE T == {1 .. n : n \in S}
<1>1. T # {}
  OBVIOUS
<1>2. T \subseteq FiniteSubsetsOf(Nat)
  BY FS_Interval DEF FiniteSubsetsOf
<1>3. PICK t \in T : \A u \in T : <<u, t>> \notin StrictSubsetOrdering(Nat)
  <2> HIDE DEF T
  <2> QED
    BY <1>1, <1>2, FS_StrictSubsetOrderingWellFounded, WFMin
<1>4. PICK m \in S : t = 1 .. m
  OBVIOUS
<1>5. ASSUME NEW n \in S
      PROVE  m <= n
  <2> SUFFICES ASSUME n < m
               PROVE  FALSE
    OBVIOUS
  <2>1. 1 .. n \in T /\ 1 .. n \in SUBSET Nat /\ 1 .. m \in SUBSET Nat
    OBVIOUS
  <2>2. m \in 1 .. m /\ m \notin 1 .. n /\ 1 .. n \subseteq 1 .. m
    OBVIOUS
  <2>3. <<1 .. n, 1 .. m>> \in StrictSubsetOrdering(Nat)
    BY <2>1, <2>2 DEF StrictSubsetOrdering
  <2> QED
    BY <1>3, <1>4, <2>1, <2>3
<1> QED
  BY <1>5

LEMMA Induction ==
  ASSUME NEW S \in SUBSET Nat, 0 \in S, \A n \in S : n + 1 \in S
  PROVE  S = Nat
<1> SUFFICES ASSUME Nat \ S # {}
             PROVE  FALSE
  OBVIOUS
<1>1. PICK m \in Nat \ S : \A n \in Nat \ S : m <= n
  BY LeastNatural, Nat \ S \in SUBSET Nat
<1>2. m - 1 \in S
  BY <1>1
<1> QED
  BY <1>1, <1>2

LEMMA WalkUnique ==
  ASSUME NEW x, NEW v, NEW w, IsWalk(x, v), IsWalk(x, w)
  PROVE  v = w
<1> DEFINE S == {k \in Nat : k <= Max => v[k] = w[k]}
<1>1. 0 \in S
  BY WalkStart
<1>2. ASSUME NEW k \in S
      PROVE  k + 1 \in S
  <2>1. k + 1 <= Max => k < Max /\ v[k] = w[k]
    BY MaxType
  <2>2. k + 1 <= Max => v[k + 1] = Extended(x, v[k]) /\ w[k + 1] = Extended(x, w[k])
    BY <2>1, WalkStart
  <2> QED
    BY <2>1, <2>2
<1>3. S = Nat
  <2> HIDE DEF S
  <2>1. S \in SUBSET Nat
    BY DEF S
  <2> QED
    BY <1>1, <1>2, <2>1, Induction
<1>4. \A k \in 0 .. Max : v[k] = w[k]
  BY <1>3, MaxType
<1> DEFINE F(u, k) == IF k = 0 THEN << >> ELSE Extended(x, u[k - 1])
<1>5. v = [k \in 0 .. Max |-> F(v, k)] /\ w = [k \in 0 .. Max |-> F(w, k)]
  BY DEF IsWalk
<1> HIDE DEF F
<1> QED
  BY <1>4, <1>5

LEMMA WalkExists ==
  ASSUME NEW x
  PROVE  \E w : IsWalk(x, w)
<1> DEFINE Upto(n, w) == w = [k \in 0 .. n |-> IF k = 0 THEN << >> ELSE Extended(x, w[k - 1])]
           S == {n \in Nat : \E w : Upto(n, w)}
<1>1. 0 \in S
  <2> DEFINE w == [k \in 0 .. 0 |-> << >>]
  <2>1. Upto(0, w)
    OBVIOUS
  <2> QED
    BY <2>1
<1>2. ASSUME NEW n \in S
      PROVE  n + 1 \in S
  <2>1. PICK w : Upto(n, w)
    OBVIOUS
  <2> DEFINE G(k) == IF k = 0 THEN << >> ELSE Extended(x, w[k - 1])
             v == [k \in 0 .. n + 1 |-> G(k)]
             H(k) == IF k = 0 THEN << >> ELSE Extended(x, v[k - 1])
  <2>2. w = [k \in 0 .. n |-> G(k)]
    BY <2>1
  <2>3. \A k \in 0 .. n : v[k] = w[k]
    <3> HIDE DEF G
    <3> QED
      BY <2>2
  <2>4. ASSUME NEW k \in 0 .. n + 1
        PROVE  v[k] = H(k)
    <3>1. v[k] = G(k)
      OBVIOUS
    <3>2. k # 0 => k - 1 \in 0 .. n
      OBVIOUS
    <3>3. k # 0 => v[k - 1] = w[k - 1]
      BY <2>3, <3>2
    <3> QED
      BY <3>1, <3>3
  <2>5. v = [k \in 0 .. n + 1 |-> H(k)]
    <3>1. v = [k \in 0 .. n + 1 |-> v[k]]
      OBVIOUS
    <3> HIDE DEF v, H
    <3> QED
      BY <2>4, <3>1
  <2>6. Upto(n + 1, v)
    BY <2>5
  <2> HIDE DEF v, Upto
  <2> QED
    BY <2>6
<1>3. S = Nat
  <2> HIDE DEF S
  <2>1. S \in SUBSET Nat
    BY DEF S
  <2> QED
    BY <1>1, <1>2, <2>1, Induction
<1>4. PICK w : Upto(Max, w)
  BY <1>3, MaxType
<1> QED
  BY <1>4 DEF IsWalk

LEMMA WalkIsBehind ==
  ASSUME NEW x, NEW w, IsWalk(x, w)
  PROVE  Behind(x) = w[Max]
<1>1. IsWalk(x, CHOOSE v : IsWalk(x, v))
  OBVIOUS
<1>2. (CHOOSE v : IsWalk(x, v)) = w
  BY <1>1, WalkUnique
<1> QED
  BY <1>2, BehindIsChosen

LEMMA BehindWalk ==
  ASSUME NEW x
  PROVE  \E w : IsWalk(x, w) /\ Behind(x) = w[Max]
  BY WalkExists, WalkIsBehind

LEMMA ExtendedFacts ==
  ASSUME NEW x, NEW path \in Seq(Nodes)
  PROVE  /\ End(x, path) = IF Len(path) = 0 THEN x ELSE path[Len(path)]
         /\ next[End(x, path)] \notin Nodes => Extended(x, path) = path
         /\ next[End(x, path)] \in Nodes =>
              /\ Extended(x, path) \in Seq(Nodes)
              /\ Len(Extended(x, path)) = Len(path) + 1
              /\ Extended(x, path)[Len(path) + 1] = next[End(x, path)]
              /\ \A i \in 1 .. Len(path) : Extended(x, path)[i] = path[i]
<1>1. path = << >> <=> Len(path) = 0
  BY EmptySeq
<1>2. End(x, path) = IF Len(path) = 0 THEN x ELSE path[Len(path)]
  BY <1>1 DEF End
<1>3. next[End(x, path)] \notin Nodes => Extended(x, path) = path
  BY DEF Extended
<1>4. ASSUME NEW y \in Nodes
      PROVE  /\ Append(path, y) \in Seq(Nodes)
             /\ Len(Append(path, y)) = Len(path) + 1
             /\ Append(path, y)[Len(path) + 1] = y
             /\ \A i \in 1 .. Len(path) : Append(path, y)[i] = path[i]
  BY <1>4, AppendProperties
<1>5. next[End(x, path)] \in Nodes => Extended(x, path) = Append(path, next[End(x, path)])
  BY DEF Extended
<1> QED
  BY <1>2, <1>3, <1>4, <1>5

LEMMA WalkType ==
  ASSUME NEW x, NEW w, IsWalk(x, w)
  PROVE  \A k \in Nat : k <= Max => w[k] \in Seq(Nodes) /\ Len(w[k]) <= k
<1> DEFINE S == {k \in Nat : k <= Max => w[k] \in Seq(Nodes) /\ Len(w[k]) <= k}
<1>1. 0 \in S
  <2>1. w[0] \in Seq(Nodes) /\ Len(w[0]) = 0
    <3>1. w[0] = << >>
      BY WalkStart
    <3> QED
      BY <3>1, EmptySeq
  <2> QED
    BY <2>1
<1>2. ASSUME NEW k \in S
      PROVE  k + 1 \in S
  <2> SUFFICES ASSUME k + 1 <= Max
               PROVE  w[k + 1] \in Seq(Nodes) /\ Len(w[k + 1]) <= k + 1
    OBVIOUS
  <2>1. w[k] \in Seq(Nodes) /\ Len(w[k]) <= k /\ w[k + 1] = Extended(x, w[k])
    BY WalkStart, MaxType
  <2>2. w[k + 1] \in Seq(Nodes) /\ (Len(w[k + 1]) = Len(w[k]) \/ Len(w[k + 1]) = Len(w[k]) + 1)
    BY <2>1, ExtendedFacts
  <2> QED
    BY <2>1, <2>2
<1> HIDE DEF S
<1>3. S = Nat
  BY <1>1, <1>2, Induction DEF S
<1> QED
  BY <1>3 DEF S

(* What is found behind x lies in any set that holds the first of it and    *)
(* the successors of its members.                                           *)
LEMMA BehindWithin ==
  ASSUME NEW x, NEW T, next[x] \in Nodes => next[x] \in T,
         \A m \in Nodes : m \in T /\ next[m] \in Nodes => next[m] \in T
  PROVE  NodesOf(Behind(x)) \subseteq T
<1>1. PICK w : IsWalk(x, w) /\ Behind(x) = w[Max]
  BY BehindWalk
<1> DEFINE S == {k \in Nat : k <= Max => \A i \in 1 .. Len(w[k]) : w[k][i] \in T}
<1>2. 0 \in S
  <2>1. w[0] = << >> /\ Len(<< >>) = 0
    BY <1>1, WalkStart
  <2> QED
    BY <2>1
<1>3. ASSUME NEW k \in S
      PROVE  k + 1 \in S
  <2> SUFFICES ASSUME k + 1 <= Max, NEW i \in 1 .. Len(w[k + 1])
               PROVE  w[k + 1][i] \in T
    OBVIOUS
  <2>1. /\ w[k] \in Seq(Nodes) /\ w[k + 1] = Extended(x, w[k])
        /\ \A j \in 1 .. Len(w[k]) : w[k][j] \in T
    <3>1. k \in Nat /\ k < Max /\ k <= Max
      BY MaxType
    <3>2. w[k + 1] = Extended(x, w[k])
      BY <1>1, <3>1, WalkStart
    <3>3. w[k] \in Seq(Nodes)
      BY <1>1, <3>1, WalkType
    <3> QED
      BY <3>1, <3>2, <3>3
  <2>2. CASE next[End(x, w[k])] \notin Nodes
    BY <2>1, <2>2, ExtendedFacts
  <2>3. CASE next[End(x, w[k])] \in Nodes
    <3>1. next[End(x, w[k])] \in T
      <4>1. CASE Len(w[k]) = 0
        BY <2>1, <2>3, <4>1, ExtendedFacts
      <4>2. CASE Len(w[k]) # 0
        <5>1. Len(w[k]) \in 1 .. Len(w[k])
          BY <2>1, <4>2
        <5>2. End(x, w[k]) \in T /\ End(x, w[k]) \in Nodes
          BY <2>1, <4>2, <5>1, ExtendedFacts
        <5> QED
          BY <2>3, <5>2
      <4> QED
        BY <4>1, <4>2
    <3>2. /\ Len(w[k + 1]) = Len(w[k]) + 1 /\ w[k + 1][Len(w[k]) + 1] = next[End(x, w[k])]
          /\ \A j \in 1 .. Len(w[k]) : w[k + 1][j] = w[k][j]
      BY <2>1, <2>3, ExtendedFacts
    <3>3. i = Len(w[k]) + 1 \/ i \in 1 .. Len(w[k])
      BY <2>1, <3>2
    <3> QED
      BY <2>1, <3>1, <3>2, <3>3
  <2> QED
    BY <2>2, <2>3
<1> HIDE DEF S
<1>4. S = Nat
  BY <1>2, <1>3, Induction DEF S
<1> QED
  BY <1>1, <1>4, MaxType DEF S, NodesOf

(* A chain of links from x on: the d nodes after x.                         *)
Linked(x, s, d) ==
  /\ s \in [1 .. d -> Nodes]
  /\ d # 0 => next[x] = s[1]
  /\ \A i \in 1 .. d - 1 : next[s[i]] = s[i + 1]

LEMMA WalkFollows ==
  ASSUME NEW x, NEW w, IsWalk(x, w), NEW d \in Nat, NEW s, Linked(x, s, d)
  PROVE  \A k \in Nat : k <= Max /\ k <= d =>
           Len(w[k]) = k /\ \A i \in 1 .. k : w[k][i] = s[i]
<1> DEFINE S == {k \in Nat : k <= Max /\ k <= d =>
                               Len(w[k]) = k /\ \A i \in 1 .. k : w[k][i] = s[i]}
<1>1. 0 \in S
  <2>1. w[0] = << >> /\ Len(<< >>) = 0
    BY WalkStart
  <2> QED
    BY <2>1
<1>2. ASSUME NEW k \in S
      PROVE  k + 1 \in S
  <2> SUFFICES ASSUME k + 1 <= Max, k + 1 <= d
               PROVE  Len(w[k + 1]) = k + 1 /\ \A i \in 1 .. k + 1 : w[k + 1][i] = s[i]
    OBVIOUS
  <2>1. /\ w[k] \in Seq(Nodes) /\ w[k + 1] = Extended(x, w[k])
        /\ Len(w[k]) = k /\ \A i \in 1 .. k : w[k][i] = s[i]
    BY WalkStart, WalkType, MaxType
  <2>2. next[End(x, w[k])] = s[k + 1] /\ s[k + 1] \in Nodes
    <3>1. CASE k = 0
      BY <2>1, <3>1, ExtendedFacts DEF Linked
    <3>2. CASE k # 0
      <4>1. End(x, w[k]) = s[k] /\ k \in 1 .. d - 1
        BY <2>1, <3>2, ExtendedFacts
      <4> QED
        BY <4>1 DEF Linked
    <3> QED
      BY <3>1, <3>2
  <2>3. /\ Len(w[k + 1]) = k + 1 /\ w[k + 1][k + 1] = s[k + 1]
        /\ \A i \in 1 .. k : w[k + 1][i] = w[k][i]
    BY <2>1, <2>2, ExtendedFacts
  <2>4. \A i \in 1 .. k + 1 : i = k + 1 \/ i \in 1 .. k
    OBVIOUS
  <2> QED
    BY <2>1, <2>3, <2>4
<1> HIDE DEF S
<1>3. S = Nat
  BY <1>1, <1>2, Induction DEF S
<1> QED
  BY <1>3 DEF S

(* A walk keeps what it has found.                                          *)
LEMMA WalkGrows ==
  ASSUME NEW x, NEW w, IsWalk(x, w), NEW d \in Nat
  PROVE  \A k \in Nat : d <= k /\ k <= Max =>
           Len(w[d]) <= Len(w[k]) /\ \A i \in 1 .. Len(w[d]) : w[k][i] = w[d][i]
<1> DEFINE S == {k \in Nat : d <= k /\ k <= Max =>
                   Len(w[d]) <= Len(w[k]) /\ \A i \in 1 .. Len(w[d]) : w[k][i] = w[d][i]}
<1>1. 0 \in S
  <2>1. w[0] = << >> /\ Len(<< >>) = 0
    BY WalkStart
  <2>2. d <= 0 => d = 0
    OBVIOUS
  <2> QED
    BY <2>1, <2>2
<1>2. ASSUME NEW k \in S
      PROVE  k + 1 \in S
  <2> SUFFICES ASSUME d <= k + 1, k + 1 <= Max
               PROVE  /\ Len(w[d]) <= Len(w[k + 1])
                      /\ \A i \in 1 .. Len(w[d]) : w[k + 1][i] = w[d][i]
    OBVIOUS
  <2>1. CASE d = k + 1
    <3>1. Len(w[d]) \in Nat
      BY <2>1, WalkType
    <3> QED
      BY <2>1, <3>1
  <2>2. CASE d # k + 1
    <3>1. /\ w[k] \in Seq(Nodes) /\ w[k + 1] = Extended(x, w[k]) /\ w[d] \in Seq(Nodes)
          /\ Len(w[d]) <= Len(w[k]) /\ \A i \in 1 .. Len(w[d]) : w[k][i] = w[d][i]
      BY <2>2, WalkStart, WalkType, MaxType
    <3>2. /\ w[k + 1] \in Seq(Nodes)
          /\ Len(w[k + 1]) = Len(w[k]) \/ Len(w[k + 1]) = Len(w[k]) + 1
          /\ \A i \in 1 .. Len(w[k]) : w[k + 1][i] = w[k][i]
      BY <3>1, ExtendedFacts
    <3>3. \A i \in 1 .. Len(w[d]) : i \in 1 .. Len(w[k])
      BY <3>1
    <3> QED
      BY <3>1, <3>2, <3>3
  <2> QED
    BY <2>1, <2>2
<1> HIDE DEF S
<1>3. S = Nat
  BY <1>1, <1>2, Induction DEF S
<1> QED
  BY <1>3 DEF S

(* The walk finds every node of a chain, and nothing else if the chain      *)
(* ends.                                                                    *)
LEMMA BehindFinds ==
  ASSUME NEW x, NEW d \in Nat, d <= Max, NEW s, Linked(x, s, d)
  PROVE  \A i \in 1 .. d : s[i] \in NodesOf(Behind(x))
<1>1. PICK w : IsWalk(x, w) /\ Behind(x) = w[Max]
  BY BehindWalk
<1>2. Len(w[d]) = d /\ \A i \in 1 .. d : w[d][i] = s[i]
  BY <1>1, WalkFollows
<1>3. Len(w[d]) <= Len(w[Max]) /\ \A i \in 1 .. Len(w[d]) : w[Max][i] = w[d][i]
  BY <1>1, WalkGrows, MaxType
<1>4. Len(w[Max]) \in Nat
  BY <1>1, WalkType, MaxType
<1> SUFFICES ASSUME NEW i \in 1 .. d
             PROVE  s[i] \in NodesOf(Behind(x))
  OBVIOUS
<1>5. i \in 1 .. Len(w[Max]) /\ w[Max][i] = s[i]
  BY <1>2, <1>3, <1>4
<1> QED
  BY <1>1, <1>5 DEF NodesOf

LEMMA BehindIs ==
  ASSUME NEW x, NEW d \in Nat, d <= Max, NEW s, Linked(x, s, d),
         next[IF d = 0 THEN x ELSE s[d]] \notin Nodes
  PROVE  /\ Behind(x) \in Seq(Nodes) /\ Len(Behind(x)) = d
         /\ \A i \in 1 .. d : Behind(x)[i] = s[i]
         /\ NodesOf(Behind(x)) = {s[i] : i \in 1 .. d}
<1>1. PICK w : IsWalk(x, w) /\ Behind(x) = w[Max]
  BY BehindWalk
<1>2. w[d] \in Seq(Nodes) /\ Len(w[d]) = d /\ \A i \in 1 .. d : w[d][i] = s[i]
  BY <1>1, WalkFollows, WalkType
<1>3. next[End(x, w[d])] \notin Nodes
  <2>1. End(x, w[d]) = IF d = 0 THEN x ELSE s[d]
    BY <1>2, ExtendedFacts
  <2> QED
    BY <2>1
<1> DEFINE S == {k \in Nat : d <= k /\ k <= Max => w[k] = w[d]}
<1>4. 0 \in S
  <2>1. d <= 0 => d = 0
    OBVIOUS
  <2> QED
    BY <2>1
<1>5. ASSUME NEW k \in S
      PROVE  k + 1 \in S
  <2> SUFFICES ASSUME d <= k + 1, k + 1 <= Max
               PROVE  w[k + 1] = w[d]
    OBVIOUS
  <2>1. CASE d = k + 1
    BY <2>1
  <2>2. CASE d # k + 1
    <3>1. w[k] = w[d] /\ w[k + 1] = Extended(x, w[k])
      BY <1>1, <2>2, WalkStart, MaxType
    <3> QED
      BY <1>2, <1>3, <3>1, ExtendedFacts
  <2> QED
    BY <2>1, <2>2
<1>6. S = Nat
  <2> HIDE DEF S
  <2> QED
    BY <1>4, <1>5, Induction DEF S
<1>7. Behind(x) = w[d]
  BY <1>1, <1>6, MaxType
<1>8. NodesOf(Behind(x)) = {s[i] : i \in 1 .. d}
  BY <1>2, <1>7 DEF NodesOf
<1> QED
  BY <1>2, <1>7, <1>8

(* The walk from x is x's successor and the walk from there.                *)
LEMMA BehindNext ==
  ASSUME NEW x, next[x] \in Nodes
  PROVE  NodesOf(Behind(x)) \subseteq {next[x]} \cup NodesOf(Behind(next[x]))
<1> DEFINE y == next[x]
<1>1. PICK v : IsWalk(x, v) /\ Behind(x) = v[Max]
  BY BehindWalk
<1>2. PICK w : IsWalk(y, w) /\ Behind(y) = w[Max]
  BY BehindWalk
<1> HIDE DEF y
<1> DEFINE S == {k \in Nat : k + 1 <= Max =>
                   /\ Len(v[k + 1]) = Len(w[k]) + 1 /\ v[k + 1][1] = y
                   /\ \A i \in 1 .. Len(w[k]) : v[k + 1][i + 1] = w[k][i]}
<1>3. 0 \in S
  <2> SUFFICES ASSUME 1 <= Max
               PROVE  /\ Len(v[1]) = Len(w[0]) + 1 /\ v[1][1] = y
                      /\ \A i \in 1 .. Len(w[0]) : v[1][i + 1] = w[0][i]
    OBVIOUS
  <2>1. v[0] \in Seq(Nodes) /\ Len(v[0]) = 0 /\ Len(w[0]) = 0 /\ v[1] = Extended(x, v[0])
    <3>1. v[0] = << >> /\ w[0] = << >>
      BY <1>1, <1>2, WalkStart
    <3>2. v[0 + 1] = Extended(x, v[0])
      BY <1>1, WalkStart, MaxType
    <3> QED
      BY <3>1, <3>2, EmptySeq
  <2>2. next[End(x, v[0])] = y /\ y \in Nodes
    BY <2>1, ExtendedFacts DEF y
  <2>3. Len(v[1]) = 1 /\ v[1][1] = y
    <3>1. /\ Len(Extended(x, v[0])) = Len(v[0]) + 1
          /\ Extended(x, v[0])[Len(v[0]) + 1] = next[End(x, v[0])]
      BY <2>1, <2>2, ExtendedFacts
    <3> QED
      BY <2>1, <2>2, <3>1
  <2> QED
    BY <2>1, <2>3
<1>4. ASSUME NEW k \in S
      PROVE  k + 1 \in S
  <2> DEFINE j == k + 1
  <2> SUFFICES ASSUME j + 1 <= Max
               PROVE  /\ Len(v[j + 1]) = Len(w[j]) + 1 /\ v[j + 1][1] = y
                      /\ \A i \in 1 .. Len(w[j]) : v[j + 1][i + 1] = w[j][i]
    OBVIOUS
  <2>1. /\ Len(v[j]) = Len(w[k]) + 1 /\ v[j][1] = y
        /\ \A i \in 1 .. Len(w[k]) : v[j][i + 1] = w[k][i]
    BY MaxType
  <2>2. j \in Nat /\ j < Max /\ k < Max /\ j <= Max /\ k <= Max
    BY MaxType
  <2>3. /\ v[j] \in Seq(Nodes) /\ w[k] \in Seq(Nodes)
        /\ v[j + 1] = Extended(x, v[j]) /\ w[j] = Extended(y, w[k])
    BY <1>1, <1>2, <2>2, WalkStart, WalkType
  <2> HIDE DEF j
  <2>4. End(x, v[j]) = End(y, w[k])
    <3>1. CASE Len(w[k]) = 0
      BY <2>1, <2>3, <3>1, ExtendedFacts
    <3>2. CASE Len(w[k]) # 0
      <4>1. Len(w[k]) \in 1 .. Len(w[k]) /\ Len(v[j]) # 0
        BY <2>1, <2>3, <3>2
      <4> QED
        BY <2>1, <2>3, <3>2, <4>1, ExtendedFacts
    <3> QED
      BY <3>1, <3>2
  <2>5. CASE next[End(y, w[k])] \notin Nodes
    <3>1. v[j + 1] = v[j] /\ w[j] = w[k]
      BY <2>3, <2>4, <2>5, ExtendedFacts
    <3> QED
      BY <2>1, <3>1
  <2>6. CASE next[End(y, w[k])] \in Nodes
    <3> DEFINE z == next[End(y, w[k])]
    <3>1. /\ Len(v[j + 1]) = Len(v[j]) + 1 /\ v[j + 1][Len(v[j]) + 1] = z
          /\ \A i \in 1 .. Len(v[j]) : v[j + 1][i] = v[j][i]
      BY <2>3, <2>4, <2>6, ExtendedFacts
    <3>2. /\ Len(w[j]) = Len(w[k]) + 1 /\ w[j][Len(w[k]) + 1] = z
          /\ \A i \in 1 .. Len(w[k]) : w[j][i] = w[k][i]
      BY <2>3, <2>6, ExtendedFacts
    <3> HIDE DEF z
    <3>3. Len(w[k]) \in Nat
      BY <2>3
    <3>4. \A i \in 1 .. Len(w[j]) : i = Len(w[k]) + 1 \/ (i \in 1 .. Len(w[k]) /\ i + 1 \in 1 .. Len(v[j]))
      BY <2>1, <3>2, <3>3
    <3>5. \A i \in 1 .. Len(w[j]) : v[j + 1][i + 1] = w[j][i]
      BY <2>1, <3>1, <3>2, <3>3, <3>4
    <3>6. 1 \in 1 .. Len(v[j])
      BY <2>1, <3>3
    <3> QED
      BY <2>1, <3>1, <3>2, <3>5, <3>6
  <2> QED
    BY <2>5, <2>6
<1> HIDE DEF S
<1>5. S = Nat
  BY <1>3, <1>4, Induction DEF S
<1>6. CASE Max = 0
  <2>1. v[Max] = << >> /\ Len(<< >>) = 0
    BY <1>1, <1>6, WalkStart
  <2> QED
    BY <1>1, <2>1 DEF NodesOf
<1>7. CASE Max # 0
  <2> DEFINE k == Max - 1
  <2>1. k \in Nat /\ k + 1 = Max /\ k <= Max
    BY <1>7, MaxType
  <2>2. /\ Len(v[Max]) = Len(w[k]) + 1 /\ v[Max][1] = y
        /\ \A i \in 1 .. Len(w[k]) : v[Max][i + 1] = w[k][i]
    BY <1>5, <2>1 DEF S
  <2>3. Len(w[k]) <= Len(w[Max]) /\ \A i \in 1 .. Len(w[k]) : w[Max][i] = w[k][i]
    BY <1>2, <2>1, MaxType, WalkGrows
  <2>4. Len(w[k]) \in Nat /\ Len(w[Max]) \in Nat
    BY <1>2, <2>1, MaxType, WalkType
  <2> HIDE DEF k
  <2> SUFFICES ASSUME NEW i \in 1 .. Len(v[Max])
               PROVE  v[Max][i] \in {y} \cup NodesOf(w[Max])
    BY <1>1, <1>2 DEF NodesOf, y
  <2>5. CASE i = 1
    BY <2>2, <2>5
  <2>6. CASE i # 1
    <3>1. PICK j \in 1 .. Len(w[k]) : j + 1 = i
      BY <2>2, <2>4, <2>6
    <3>2. v[Max][i] = w[Max][j] /\ j \in 1 .. Len(w[Max])
      BY <2>2, <2>3, <2>4, <3>1
    <3> QED
      BY <3>2 DEF NodesOf
  <2> QED
    BY <2>5, <2>6
<1> QED
  BY <1>6, <1>7

(* No more entries than there are addresses lie between two entries whose   *)
(* nodes, and those in between, are all different.                          *)
LEMMA ChainFits ==
  ASSUME NEW d \in Nat, NEW s \in [1 .. d -> Nodes], \A i, j \in 1 .. d : s[i] = s[j] => i = j
  PROVE  /\ d <= Max
         /\ (\E m \in Nodes : \A i \in 1 .. d : s[i] # m) => d < Max
<1> DEFINE T == {s[i] : i \in 1 .. d}
<1>1. IsFiniteSet(1 .. d) /\ Cardinality(1 .. d) = d
  BY FS_Interval
<1>2. s \in Bijection(1 .. d, T)
  BY DEF Bijection, Injection, Surjection, IsInjective
<1>3. IsFiniteSet(T) /\ Cardinality(T) = d
  BY <1>1, <1>2, FS_Bijection DEF ExistsBijection
<1>4. T \subseteq Nodes
  OBVIOUS
<1> HIDE DEF T
<1>5. d <= Max /\ (T # Nodes => d < Max)
  <2>1. Cardinality(T) <= Cardinality(Nodes) /\ (Cardinality(T) = Cardinality(Nodes) => T = Nodes)
    BY <1>4, ConstantsAssumption, FS_Subset
  <2> QED
    BY <1>3, <2>1, MaxType DEF Max
<1> QED
  BY <1>5 DEF T

(* The nodes of the entries after a, up to b.                               *)
Stretch(at, a, b) == [i \in 1 .. b - a |-> at[a + i]]
Values(s, d) == {s[i] : i \in 1 .. d}
Entries(at, a, b) == {at[i] : i \in a .. b}

LEMMA StretchValues ==
  ASSUME NEW at, NEW a \in Nat, NEW b \in Nat, a <= b
  PROVE  Values(Stretch(at, a, b), b - a) = Entries(at, a + 1, b)
<1> DEFINE s == Stretch(at, a, b)
<1>1. \A i \in 1 .. b - a : a + i \in a + 1 .. b /\ s[i] = at[a + i]
  BY DEF Stretch
<1>2. ASSUME NEW j \in a + 1 .. b
      PROVE  \E i \in 1 .. b - a : s[i] = at[j]
  <2>1. j - a \in 1 .. b - a /\ a + (j - a) = j
    OBVIOUS
  <2> QED
    BY <1>1, <2>1
<1> HIDE DEF s
<1>3. {s[i] : i \in 1 .. b - a} \subseteq {at[j] : j \in a + 1 .. b}
  BY <1>1
<1>4. {at[j] : j \in a + 1 .. b} \subseteq {s[i] : i \in 1 .. b - a}
  BY <1>2
<1> QED
  BY <1>3, <1>4 DEF Values, Entries, s

LEMMA StretchLinked ==
  ASSUME NEW at \in Journals, NEW n \in Nat, NEW f \in Nat, NEW r \in Nat,
         NEW lo \in Bounds, NEW hi \in Bounds, ListInv(at, n, f, r, lo, hi),
         NEW a \in Nat, NEW b \in Nat, a <= b, b <= n,
         \A i \in a + 1 .. b : i \in Kept(n, f, lo, hi),
         NEW x, a < b => next[x] = at[a + 1]
  PROVE  /\ b - a \in Nat /\ b - a <= Max
         /\ Linked(x, Stretch(at, a, b), b - a)
<1> DEFINE d == b - a
           s == Stretch(at, a, b)
<1>1. Pointers(at, n, f, r, lo, hi) /\ Chain(at, n, f, lo, hi)
  BY DEF ListInv
<1>2. d \in Nat /\ \A i \in 1 .. d : a + i \in a + 1 .. b /\ a + i \in 1 .. n
  OBVIOUS
<1>3. \A i \in 1 .. d : s[i] = at[a + i] /\ at[a + i] \in Nodes /\ a + i \in Kept(n, f, lo, hi)
  BY <1>1, <1>2 DEF Stretch, Pointers
<1>4. s \in [1 .. d -> Nodes]
  BY <1>3 DEF Stretch
<1>5. ASSUME NEW i \in 1 .. d, NEW j \in 1 .. d, s[i] = s[j]
      PROVE  i = j
  <2>1. a + i = a + j
    BY <1>1, <1>3, <1>5 DEF Chain
  <2> QED
    BY <2>1
<1>6. d <= Max
  <2> HIDE DEF d, s
  <2> QED
    BY <1>2, <1>4, <1>5, ChainFits
<1>7. d # 0 => next[x] = s[1]
  <2>1. d # 0 => a < b /\ 1 \in 1 .. d
    OBVIOUS
  <2> QED
    BY <1>3, <2>1
<1>8. ASSUME NEW i \in 1 .. d - 1
      PROVE  next[s[i]] = s[i + 1]
  <2>1. i \in 1 .. d /\ i + 1 \in 1 .. d /\ a + i < n /\ a + (i + 1) = (a + i) + 1
    BY <1>2
  <2>2. next[at[a + i]] = at[(a + i) + 1]
    BY <1>1, <1>3, <2>1 DEF Chain
  <2> QED
    BY <1>3, <2>1, <2>2
<1> QED
  BY <1>2, <1>4, <1>6, <1>7, <1>8 DEF Linked

(* From x the code gets to the node of the entry after a.                   *)
LeadsOn(x, a, at, n, f, lo, hi) ==
  /\ a <= n
  /\ \A i \in a + 1 .. n : i \in Kept(n, f, lo, hi)
  /\ next[x] = IF a < n THEN at[a + 1] ELSE Root

(* What it finds from there on is what the journal says.                    *)
LEMMA StretchToEnd ==
  ASSUME NEW at \in Journals, NEW n \in Nat, NEW f \in Nat, NEW r \in Nat,
         NEW lo \in Bounds, NEW hi \in Bounds, ListInv(at, n, f, r, lo, hi),
         NEW a \in Nat, NEW x, LeadsOn(x, a, at, n, f, lo, hi)
  PROVE  Behind(x) = Stretch(at, a, n)
<1> DEFINE d == n - a
           s == Stretch(at, a, n)
<1>0. /\ a <= n /\ n <= n /\ (a < n => next[x] = at[a + 1])
      /\ \A i \in a + 1 .. n : i \in Kept(n, f, lo, hi)
  BY DEF LeadsOn
<1>a. n - a \in Nat /\ n - a <= Max
  BY <1>0, StretchLinked
<1>b. Linked(x, Stretch(at, a, n), n - a)
  BY <1>0, StretchLinked
<1>1. d \in Nat /\ d <= Max /\ Linked(x, s, d)
  BY <1>a, <1>b
<1>2. next[IF d = 0 THEN x ELSE s[d]] \notin Nodes
  <2>1. CASE d = 0
    BY <2>1, ThreadFacts DEF LeadsOn
  <2>2. CASE d # 0
    <3>1. n \in Kept(n, f, lo, hi) /\ s[d] = at[n]
      BY <1>0, <1>1, <2>2 DEF Stretch
    <3>2. next[at[n]] = Root
      BY <3>1 DEF ListInv, Chain
    <3> QED
      BY <2>2, <3>1, <3>2, ThreadFacts
  <2> QED
    BY <2>1, <2>2
<1>3. \A i \in 1 .. d : s[i] = at[a + i]
  BY DEF Stretch
<1> HIDE DEF d, s
<1>4. /\ Behind(x) \in Seq(Nodes) /\ Len(Behind(x)) = d
      /\ \A i \in 1 .. d : Behind(x)[i] = s[i]
  BY <1>1, <1>2, BehindIs
<1>5. s \in Seq(Nodes) /\ Len(s) = d
  BY <1>1, SeqDef DEF Linked
<1>6. Behind(x) = s
  BY <1>1, <1>4, <1>5, SeqEqual
<1> QED
  BY <1>6 DEF s

LEMMA FoundToEnd ==
  ASSUME NEW at \in Journals, NEW n \in Nat, NEW f \in Nat, NEW r \in Nat,
         NEW lo \in Bounds, NEW hi \in Bounds, ListInv(at, n, f, r, lo, hi),
         NEW a \in Nat, NEW x, LeadsOn(x, a, at, n, f, lo, hi)
  PROVE  NodesOf(Behind(x)) = Entries(at, a + 1, n)
<1> DEFINE d == n - a
           s == Stretch(at, a, n)
<1>0. /\ a <= n /\ n <= n /\ (a < n => next[x] = at[a + 1])
      /\ \A i \in a + 1 .. n : i \in Kept(n, f, lo, hi)
  BY DEF LeadsOn
<1>1. Behind(x) = Stretch(at, a, n)
  BY StretchToEnd
<1>2. Values(Stretch(at, a, n), n - a) = Entries(at, a + 1, n)
  BY <1>0, StretchValues
<1>3. Linked(x, Stretch(at, a, n), n - a) /\ n - a \in Nat
  BY <1>0, StretchLinked
<1>4. Behind(x) = s /\ Values(s, d) = Entries(at, a + 1, n) /\ Linked(x, s, d) /\ d \in Nat
  BY <1>1, <1>2, <1>3
<1> HIDE DEF s, d
<1>5. Len(s) = d
  BY <1>4, SeqDef DEF Linked
<1> QED
  BY <1>4, <1>5 DEF NodesOf, Values

LEMMA KeptFacts ==
  ASSUME NEW at \in Journals, NEW n \in Nat, NEW f \in Nat, NEW r \in Nat,
         NEW lo \in Bounds, NEW hi \in Bounds, ListInv(at, n, f, r, lo, hi)
  PROVE  /\ \A i \in Kept(n, f, lo, hi) : i \in 1 .. n /\ at[i] \in Nodes /\ at[i] \in alive
         /\ f \in 1 .. n + 1
         /\ \A i \in f .. n : i \in Kept(n, f, lo, hi)
         /\ \A p \in Holders : item[p] \in alive
<1>1. Pointers(at, n, f, r, lo, hi) /\ Owners(at, n, f, lo, hi)
  BY DEF ListInv
<1>2. f \in 1 .. n + 1 /\ \A i \in 1 .. n : at[i] \in Nodes
  BY <1>1 DEF Pointers
<1>3. \A i \in f .. n : i \in Kept(n, f, lo, hi)
  BY <1>2 DEF Kept
<1>4. \A i \in Kept(n, f, lo, hi) : i \in 1 .. n
  BY DEF Kept
<1>5. alive = {item[p] : p \in Holders} \cup {at[i] : i \in Kept(n, f, lo, hi)}
  BY <1>1 DEF Owners
<1> QED
  BY <1>2, <1>3, <1>4, <1>5

LEMMA NoUseAfterFreeNow == IInv => NoUseAfterFree
<1> SUFFICES ASSUME IInv
             PROVE  NoUseAfterFree
  OBVIOUS
<1>0. TypeOK /\ MutexInv /\ FreshInv /\ SomeList
  BY DEF IInv
<1>1. PICK at \in Journals, n, f, r \in Nat, lo, hi \in Bounds : ListInv(at, n, f, r, lo, hi)
  BY <1>0 DEF SomeList
<1>2. Pointers(at, n, f, r, lo, hi) /\ Sections(at, n, f, r, lo, hi)
  BY <1>1 DEF ListInv
<1>3. /\ \A i \in Kept(n, f, lo, hi) : i \in 1 .. n /\ at[i] \in Nodes /\ at[i] \in alive
      /\ f \in 1 .. n + 1
      /\ \A i \in f .. n : i \in Kept(n, f, lo, hi)
      /\ \A p \in Holders : item[p] \in alive
  BY <1>1, KeptFacts
<1>4. \A t \in Threads : pc[t] # "idle" => ptr = NoNode
  BY <1>0 DEF MutexInv
<1>5. ASSUME NEW c \in Consumers
      PROVE  /\ pc[c] = "look" => read \in alive \cup {Root}
             /\ pc[c] \in {"move", "advance"} => item[c] \in alive
  <2>1. ASSUME pc[c] \in {"look", "move", "advance"}
        PROVE  ptr = NoNode
    BY <1>4, <2>1, ThreadFacts
  <2>2. ASSUME pc[c] = "look"
        PROVE  read \in alive \cup {Root}
    <3>1. r # 0 => r \in Kept(n, f, lo, hi)
      BY <1>0, <1>1, <2>1, <2>2, BehindRead
    <3> QED
      BY <1>2, <1>3, <3>1 DEF Pointers
  <2>3. ASSUME pc[c] \in {"move", "advance"}
        PROVE  item[c] \in alive
    <3>1. r < n /\ item[c] = at[r + 1]
      BY <1>2, <2>3 DEF Sections
    <3>2. r + 1 \in Kept(n, f, lo, hi)
      BY <1>0, <1>1, <2>1, <2>3, <3>1, BehindRead
    <3> QED
      BY <1>3, <3>1, <3>2
  <2> QED
    BY <2>2, <2>3
<1>6. ASSUME NEW p \in Producers
      PROVE  /\ pc[p] = "link" => {tail, item[p]} \subseteq alive \cup {Root}
             /\ pc[p] = "unhook" => upto[p] \in alive \cup {Root}
             /\ (pc[p] = "free" /\ erase[p] # upto[p]) => erase[p] \in alive
  <2>1. ASSUME pc[p] = "link"
        PROVE  {tail, item[p]} \subseteq alive \cup {Root}
    <3>1. item[p] \in alive
      BY <1>3, <2>1 DEF Holders
    <3>2. ptr = NoNode
      BY <1>4, <2>1, ThreadFacts
    <3>3. n = 0 \/ n \in f .. n
      BY <1>2, <3>2 DEF Pointers
    <3>4. tail = at[n] /\ at[0] = Root
      BY <1>2 DEF Pointers
    <3> QED
      BY <1>3, <3>1, <3>3, <3>4
  <2>2. ASSUME pc[p] = "unhook"
        PROVE  upto[p] \in alive \cup {Root}
    <3>1. upto[p] = at[hi[p]] /\ hi[p] <= r /\ (hi[p] = 0 \/ f <= hi[p]) /\ hi[p] \in Nat
      BY <1>2, <2>2 DEF Sections, Bounds
    <3>2. r <= n /\ at[0] = Root
      BY <1>2 DEF Pointers
    <3>3. hi[p] = 0 \/ hi[p] \in f .. n
      BY <1>3, <3>1, <3>2
    <3> QED
      BY <1>3, <3>1, <3>2, <3>3
  <2>3. ASSUME pc[p] = "free", erase[p] # upto[p]
        PROVE  erase[p] \in alive
    <3>1. erase[p] = at[lo[p]] /\ lo[p] \in Kept(n, f, lo, hi)
      BY <1>1, <2>3, SegmentEnd
    <3> QED
      BY <1>3, <3>1
  <2> QED
    BY <2>1, <2>2, <2>3
<1>7. ptr \notin {NoNode, Root} => ptr \in alive
  <2> SUFFICES ASSUME ptr \notin {NoNode, Root}
               PROVE  ptr \in alive
    OBVIOUS
  <2>1. f \in 1 .. n + 1 /\ ptr = (IF f <= n THEN at[f] ELSE Root)
    BY <1>0, <1>1, DestroyedList
  <2>2. f \in f .. n /\ ptr = at[f]
    BY <2>1
  <2> QED
    BY <1>3, <2>2
<1> QED
  BY <1>5, <1>6, <1>7 DEF NoUseAfterFree

LEMMA DestroyerFindsAllNow == IInv /\ ptr # NoNode => DestroyerFindsAll
<1> SUFFICES ASSUME IInv, ptr # NoNode
             PROVE  DestroyerFindsAll
  OBVIOUS
<1>0. TypeOK /\ MutexInv /\ SomeList
  BY DEF IInv
<1>1. PICK at \in Journals, n, f, r \in Nat, lo, hi \in Bounds : ListInv(at, n, f, r, lo, hi)
  BY <1>0 DEF SomeList
<1>2. /\ f \in 1 .. n + 1 /\ Kept(n, f, lo, hi) = f .. n
      /\ alive = {at[i] : i \in f .. n}
      /\ ptr = IF f <= n THEN at[f] ELSE Root
      /\ ptr = Root <=> f = n + 1
  BY <1>0, <1>1, DestroyedList
<1>3. CASE ptr = Root
  <2>1. f .. n = {}
    BY <1>2, <1>3
  <2> QED
    BY <1>2, <1>3, <2>1 DEF DestroyerFindsAll
<1>4. CASE ptr # Root
  <2>1. f \in Nat /\ f <= n /\ ptr = at[f] /\ \A i \in f + 1 .. n : i \in Kept(n, f, lo, hi)
    BY <1>2, <1>4
  <2>2. next[ptr] = IF f < n THEN at[f + 1] ELSE Root
    <3>1. f \in Kept(n, f, lo, hi)
      BY <1>2, <2>1
    <3> QED
      BY <1>1, <2>1, <3>1 DEF ListInv, Chain
  <2>3. NodesOf(Behind(ptr)) = Entries(at, f + 1, n)
    <3>1. LeadsOn(ptr, f, at, n, f, lo, hi)
      BY <2>1, <2>2 DEF LeadsOn
    <3>2. ListInv(at, n, f, r, lo, hi) /\ f \in Nat
      BY <1>1
    <3> QED
      BY <3>1, <3>2, FoundToEnd
  <2>4. Entries(at, f, n) = {at[f]} \cup Entries(at, f + 1, n)
    <3>1. \A i \in f .. n : i = f \/ i \in f + 1 .. n
      BY <2>1
    <3>2. f \in f .. n /\ \A i \in f + 1 .. n : i \in f .. n
      BY <2>1
    <3> QED
      BY <3>1, <3>2 DEF Entries
  <2> QED
    BY <1>2, <1>4, <2>1, <2>3, <2>4 DEF DestroyerFindsAll, Entries
<1> QED
  BY <1>3, <1>4

LEMMA WaitingFound ==
  ASSUME TypeOK, ptr = NoNode, NEW at \in Journals, NEW n \in Nat, NEW f \in Nat, NEW r \in Nat,
         NEW lo \in Bounds, NEW hi \in Bounds, ListInv(at, n, f, r, lo, hi)
  PROVE  Behind(read) = waiting
<1>1. Pointers(at, n, f, r, lo, hi)
  BY DEF ListInv
<1>2. r <= n /\ next[read] = IF r < n THEN at[r + 1] ELSE Root
  BY <1>1, BehindRead DEF Pointers
<1>3. \A i \in r + 1 .. n : i \in Kept(n, f, lo, hi)
  BY <1>1 DEF Pointers, Kept
<1>4. Behind(read) = Stretch(at, r, n)
  <2>1. LeadsOn(read, r, at, n, f, lo, hi)
    BY <1>2, <1>3 DEF LeadsOn
  <2> QED
    BY <2>1, StretchToEnd
<1>5. /\ waiting \in Seq(Nodes) /\ Len(waiting) = n - r
      /\ \A i \in 1 .. n - r : waiting[i] = at[r + i]
  BY <1>1 DEF TypeOK, Pointers
<1>6. waiting = [i \in 1 .. n - r |-> waiting[i]]
  BY <1>5, SeqDef
<1> QED
  BY <1>4, <1>5, <1>6 DEF Stretch

LEMMA HookedFound ==
  ASSUME TypeOK, ptr = NoNode, NEW at \in Journals, NEW n \in Nat, NEW f \in Nat, NEW r \in Nat,
         NEW lo \in Bounds, NEW hi \in Bounds, ListInv(at, n, f, r, lo, hi)
  PROVE  NodesOf(Behind(Root)) = Entries(at, f, n)
<1>1. f \in 1 .. n + 1 /\ next[Root] = IF f <= n THEN at[f] ELSE Root
  BY DEF ListInv, Pointers
<1>2. PICK a \in Nat : a + 1 = f
  <2>1. f - 1 \in Nat /\ (f - 1) + 1 = f
    BY <1>1
  <2> QED
    BY <2>1
<1>3. a <= n /\ next[Root] = IF a < n THEN at[a + 1] ELSE Root
  BY <1>1, <1>2
<1>4. \A i \in a + 1 .. n : i \in Kept(n, f, lo, hi)
  BY <1>1, <1>2, KeptFacts
<1>5. NodesOf(Behind(Root)) = Entries(at, a + 1, n)
  <2>1. LeadsOn(Root, a, at, n, f, lo, hi)
    BY <1>3, <1>4 DEF LeadsOn
  <2> QED
    BY <2>1, FoundToEnd
<1> QED
  BY <1>2, <1>5

(* What a producer has to delete lies between its bounds.                   *)
LEMMA SegmentFacts ==
  ASSUME NEW at \in Journals, NEW n \in Nat, NEW f \in Nat, NEW r \in Nat,
         NEW lo \in Bounds, NEW hi \in Bounds, ListInv(at, n, f, r, lo, hi),
         NEW p \in Producers
  PROVE  /\ lo[p] \in Nat /\ hi[p] \in Nat /\ lo[p] <= hi[p]
         /\ lo[p] < hi[p] => 1 <= lo[p] /\ hi[p] <= f /\ hi[p] <= n
         /\ \A i \in lo[p] .. hi[p] - 1 :
              i \in 1 .. n /\ i < f /\ InSegment(p, i, lo, hi) /\ i \in Kept(n, f, lo, hi)
<1>1. lo[p] \in Nat /\ hi[p] \in Nat
  BY DEF Bounds
<1>2. CASE pc[p] # "free"
  <2>1. lo[p] = hi[p]
    BY <1>2 DEF ListInv, Sections
  <2>2. lo[p] .. hi[p] - 1 = {}
    BY <1>1, <2>1
  <2> QED
    BY <1>1, <2>1, <2>2
<1>3. CASE pc[p] = "free"
  <2>1. /\ lo[p] <= hi[p] /\ hi[p] <= f /\ hi[p] <= r /\ r <= n
        /\ lo[p] < hi[p] => lo[p] # 0
    BY <1>3, SegmentEnd
  <2>2. ASSUME NEW i \in lo[p] .. hi[p] - 1
        PROVE  i \in 1 .. n /\ i < f /\ InSegment(p, i, lo, hi)
    BY <1>1, <2>1 DEF InSegment
  <2>3. \A i \in lo[p] .. hi[p] - 1 : i \in Kept(n, f, lo, hi)
    BY <2>2 DEF Kept
  <2> QED
    BY <1>1, <2>1, <2>2, <2>3
<1> QED
  BY <1>2, <1>3

(* Nothing of it lies at or behind upto.                                    *)
LEMMA NothingLeftOver ==
  ASSUME TypeOK, FreshInv, NEW at \in Journals, NEW n \in Nat, NEW f \in Nat, NEW r \in Nat,
         NEW lo \in Bounds, NEW hi \in Bounds, ListInv(at, n, f, r, lo, hi),
         NEW p \in Producers, pc[p] = "free", lo[p] < hi[p]
  PROVE  \A i \in lo[p] .. hi[p] - 1 : at[i] \notin {upto[p]} \cup NodesOf(Behind(upto[p]))
<1> DEFINE b == hi[p]
           K == Kept(n, f, lo, hi)
           T == {m \in Nodes : \A j \in K : at[j] = m => b <= j}
<1>1. Chain(at, n, f, lo, hi) /\ Owners(at, n, f, lo, hi) /\ Pointers(at, n, f, r, lo, hi)
  BY DEF ListInv
<1>2. /\ b \in 1 .. n /\ upto[p] = at[b]
      /\ \A i \in lo[p] .. b - 1 : i \in K
  BY SegmentFacts, SegmentEnd
<1>3. \A i \in K : i \in 1 .. n /\ at[i] \in Nodes
  BY KeptFacts
<1>4. upto[p] \in T
  <2>1. at[b] \in Nodes
    BY <1>1, <1>2 DEF Pointers
  <2>2. PICK i \in Nat : i + 1 = b /\ i \in K /\ i < n
    <3>1. b - 1 \in lo[p] .. b - 1 /\ b - 1 \in Nat /\ (b - 1) + 1 = b /\ b - 1 < n
      BY <1>2, SegmentFacts
    <3> QED
      BY <1>2, <3>1
  <2>3. ASSUME NEW j \in K, at[j] = at[b]
        PROVE  b <= j
    <3>1. i < j
      BY <1>1, <2>2, <2>3 DEF Chain
    <3>2. j \in 1 .. n
      BY <1>3
    <3> QED
      BY <1>2, <2>2, <3>1, <3>2
  <2> QED
    BY <1>2, <2>1, <2>3
<1>5. ASSUME NEW m \in Nodes, m \in T, next[m] \in Nodes
      PROVE  next[m] \in T
  <2>1. m \in alive
    <3>1. next[m] # NoNode
      BY <1>5, ThreadFacts
    <3> QED
      BY <1>1, <3>1 DEF Owners
  <2>2. \A q \in Holders : item[q] # m
    BY <1>5, ThreadFacts DEF FreshInv
  <2>3. PICK k \in K : m = at[k]
    BY <1>1, <2>1, <2>2 DEF Owners
  <2>4. k \in 1 .. n /\ b <= k /\ k < n /\ next[m] = at[k + 1]
    <3>1. k \in 1 .. n /\ b <= k
      BY <1>3, <1>5, <2>3
    <3>2. next[m] = IF k < n THEN at[k + 1] ELSE Root
      BY <1>1, <2>3 DEF Chain
    <3> QED
      BY <1>5, <3>1, <3>2, ThreadFacts
  <2>5. ASSUME NEW j \in K, at[j] = next[m]
        PROVE  b <= j
    <3>1. k < j
      BY <1>1, <2>4, <2>5 DEF Chain
    <3> QED
      BY <1>2, <1>3, <2>4, <3>1
  <2> QED
    BY <1>5, <2>5
<1>6. NodesOf(Behind(upto[p])) \subseteq T
  <2>1. upto[p] \in Nodes
    BY <1>4
  <2> HIDE DEF T
  <2>2. next[upto[p]] \in Nodes => next[upto[p]] \in T
    BY <1>4, <1>5, <2>1
  <2> QED
    BY <1>5, <2>2, BehindWithin
<1> SUFFICES ASSUME NEW i \in lo[p] .. hi[p] - 1, at[i] \in {upto[p]} \cup NodesOf(Behind(upto[p]))
             PROVE  FALSE
  OBVIOUS
<1>7. at[i] \in T /\ i \in K /\ i < b /\ i \in Nat
  BY <1>2, <1>3, <1>4, <1>6
<1> QED
  BY <1>2, <1>7

(* A producer finds what it has to delete, and nothing else.                *)
LEMMA ErasingFound ==
  ASSUME TypeOK, FreshInv, NEW at \in Journals, NEW n \in Nat, NEW f \in Nat, NEW r \in Nat,
         NEW lo \in Bounds, NEW hi \in Bounds, ListInv(at, n, f, r, lo, hi),
         NEW p \in Producers
  PROVE  Erasing(p) = Entries(at, lo[p], hi[p] - 1)
<1> DEFINE a == lo[p]
           b == hi[p]
           E == Entries(at, a, b - 1)
           rest == {upto[p]} \cup NodesOf(Behind(upto[p]))
<1>1. a \in Nat /\ b \in Nat /\ a <= b
  BY SegmentFacts
<1>2. pc[p] # "free" => a = b
  BY DEF ListInv, Sections
<1>3. pc[p] = "free" => (erase[p] = upto[p] <=> a = b)
  BY SegmentEnd
<1>4. CASE a = b
  <2>1. Erasing(p) = {}
    BY <1>2, <1>3, <1>4 DEF Erasing
  <2>2. a .. b - 1 = {}
    BY <1>1, <1>4
  <2> QED
    BY <2>1, <2>2 DEF Entries
<1>5. CASE a # b
  <2>1. pc[p] = "free" /\ erase[p] # upto[p]
    BY <1>2, <1>3, <1>5
  <2>2. 1 <= a /\ a < b /\ b <= f /\ b <= n
    BY <1>1, <1>5, SegmentFacts
  <2>3. erase[p] = at[a] /\ upto[p] = at[b]
    BY <2>1, SegmentEnd
  <2>4. Erasing(p) = ({erase[p]} \cup NodesOf(Behind(erase[p]))) \ rest
    BY <2>1 DEF Erasing
  <2>5. E \cap rest = {}
    <3>1. \A i \in a .. b - 1 : at[i] \notin rest
      BY <1>1, <2>1, <2>2, NothingLeftOver
    <3> QED
      BY <3>1 DEF Entries
  <2>6. \A i \in a .. b - 1 : i \in Kept(n, f, lo, hi) /\ i < n /\ at[i] \in Nodes
    <3>1. \A i \in a .. b - 1 : i \in Kept(n, f, lo, hi)
      BY SegmentFacts
    <3>2. \A i \in a .. b - 1 : at[i] \in Nodes
      BY <3>1, KeptFacts
    <3>3. \A i \in a .. b - 1 : i < n
      BY <1>1, <2>2
    <3> QED
      BY <3>1, <3>2, <3>3
  <2>7. \A i \in a .. b - 1 : next[at[i]] = at[i + 1]
    BY <2>6 DEF ListInv, Chain
  <2>8. at[b] \in Nodes
    <3>1. \A i \in 1 .. n : at[i] \in Nodes
      BY DEF ListInv, Pointers
    <3> QED
      BY <1>1, <2>2, <3>1
  <2>9. E \subseteq {erase[p]} \cup NodesOf(Behind(erase[p]))
    <3>1. PICK e \in Nat : e + 1 = b
      <4>1. b - 1 \in Nat /\ (b - 1) + 1 = b
        BY <1>1, <2>2
      <4> QED
        BY <4>1
    <3>2. a <= e /\ e <= n /\ (\A i \in a + 1 .. e : i \in Kept(n, f, lo, hi))
          /\ (a < e => next[at[a]] = at[a + 1])
      <4>1. \A i \in a + 1 .. e : i \in a .. b - 1
        BY <1>1, <3>1
      <4>2. a \in a .. b - 1
        BY <1>1, <2>2
      <4> QED
        BY <1>1, <2>2, <2>6, <2>7, <3>1, <4>1, <4>2
    <3> HIDE DEF a, b, rest, E
    <3>3. e - a \in Nat /\ e - a <= Max
      BY <1>1, <3>2, StretchLinked
    <3>4. Linked(at[a], Stretch(at, a, e), e - a)
      BY <1>1, <3>2, StretchLinked
    <3>5. Values(Stretch(at, a, e), e - a) = Entries(at, a + 1, e)
      BY <1>1, <3>2, StretchValues
    <3>6. \A i \in 1 .. e - a : Stretch(at, a, e)[i] \in NodesOf(Behind(at[a]))
      BY <3>3, <3>4, BehindFinds
    <3>7. Entries(at, a + 1, e) \subseteq NodesOf(Behind(at[a]))
      BY <3>5, <3>6 DEF Values
    <3>8. \A i \in a .. b - 1 : i = a \/ i \in a + 1 .. e
      BY <1>1, <3>1
    <3> QED
      BY <2>3, <3>7, <3>8 DEF Entries, E
  <2>10. NodesOf(Behind(erase[p])) \subseteq E \cup rest
    <3> DEFINE S == {k \in Nat : \A i \in Nat : a <= i /\ i + k + 1 = b =>
                                   NodesOf(Behind(at[i])) \subseteq E \cup rest}
    <3>1. 0 \in S
      <4> SUFFICES ASSUME NEW i \in Nat, a <= i, i + 1 = b
                   PROVE  NodesOf(Behind(at[i])) \subseteq E \cup rest
        OBVIOUS
      <4>1. i \in a .. b - 1
        BY <1>1
      <4>2. next[at[i]] = at[b]
        BY <2>7, <4>1
      <4>3. NodesOf(Behind(at[i])) \subseteq {at[b]} \cup NodesOf(Behind(at[b]))
        BY <2>8, <4>2, BehindNext
      <4> QED
        BY <2>3, <4>3
    <3>2. ASSUME NEW k \in S
          PROVE  k + 1 \in S
      <4> SUFFICES ASSUME NEW i \in Nat, a <= i, i + (k + 1) + 1 = b
                   PROVE  NodesOf(Behind(at[i])) \subseteq E \cup rest
        OBVIOUS
      <4>1. PICK j \in Nat : j = i + 1
        OBVIOUS
      <4>2. k \in Nat /\ a <= j /\ j + k + 1 = b /\ i \in a .. b - 1 /\ j \in a .. b - 1
        BY <1>1, <4>1
      <4>3. NodesOf(Behind(at[j])) \subseteq E \cup rest
        BY <4>2
      <4>4. next[at[i]] = at[j]
        BY <2>7, <4>1, <4>2
      <4>5. at[j] \in Nodes /\ at[j] \in E
        BY <2>6, <4>2 DEF Entries
      <4>6. NodesOf(Behind(at[i])) \subseteq {at[j]} \cup NodesOf(Behind(at[j]))
        BY <4>4, <4>5, BehindNext
      <4> QED
        BY <4>3, <4>5, <4>6
    <3> HIDE DEF S
    <3>3. S = Nat
      BY <3>1, <3>2, Induction DEF S
    <3>4. PICK k \in Nat : a + k + 1 = b
      <4>1. b - a - 1 \in Nat /\ a + (b - a - 1) + 1 = b
        BY <1>1, <2>2
      <4> QED
        BY <4>1
    <3>5. \A i \in Nat : a <= i /\ i + k + 1 = b => NodesOf(Behind(at[i])) \subseteq E \cup rest
      BY <3>3 DEF S
    <3>6. NodesOf(Behind(at[a])) \subseteq E \cup rest
      BY <1>1, <3>4, <3>5
    <3> QED
      BY <2>3, <3>6
  <2>11. erase[p] \in E
    <3>1. a \in a .. b - 1
      BY <1>1, <2>2
    <3> QED
      BY <2>3, <3>1 DEF Entries
  <2> HIDE DEF E, rest
  <2>12. Erasing(p) = E
    BY <2>4, <2>5, <2>9, <2>10, <2>11
  <2> QED
    BY <2>12 DEF E
<1> QED
  BY <1>4, <1>5

LEMMA NodesAccountedNow == IInv /\ ptr = NoNode => NodesAccounted
<1> SUFFICES ASSUME IInv, ptr = NoNode
             PROVE  NodesAccounted
  OBVIOUS
<1>0. TypeOK /\ MutexInv /\ FreshInv /\ SomeList
  BY DEF IInv
<1>1. PICK at \in Journals, n, f, r \in Nat, lo, hi \in Bounds : ListInv(at, n, f, r, lo, hi)
  BY <1>0 DEF SomeList
<1> DEFINE K == Kept(n, f, lo, hi)
           L == Entries(at, f, n)
           E(p) == Entries(at, lo[p], hi[p] - 1)
<1>2. Behind(read) = waiting
  BY <1>0, <1>1, WaitingFound
<1>3. NodesOf(Behind(Root)) = L
  BY <1>0, <1>1, HookedFound
<1>4. \A p \in Producers : Erasing(p) = E(p)
  BY <1>0, <1>1, ErasingFound
<1>5. /\ \A p, q \in Producers : \A i \in 1 .. n :
           InSegment(p, i, lo, hi) /\ InSegment(q, i, lo, hi) => p = q
      /\ alive = {item[p] : p \in Holders} \cup {at[i] : i \in K}
      /\ \A p \in Holders : \A i \in K : item[p] # at[i]
      /\ \A i, j \in K : at[i] = at[j] => i = j
  BY <1>1 DEF ListInv, Owners, Chain
<1>6. Fresh = {item[p] : p \in Holders}
  BY DEF Fresh, Holders
<1>7. \A i \in f .. n : i \in K
  BY <1>1, KeptFacts
<1>8. \A p \in Producers : \A i \in lo[p] .. hi[p] - 1 :
        i \in 1 .. n /\ i < f /\ InSegment(p, i, lo, hi) /\ i \in K
  BY <1>1, SegmentFacts
<1>9. \A i \in K : i \in f .. n \/ \E p \in Producers : i \in lo[p] .. hi[p] - 1
  <2>1. \A p \in Producers : lo[p] \in Nat /\ hi[p] \in Nat
    BY DEF Bounds
  <2>2. \A i \in K : i \in 1 .. n /\ (f <= i \/ \E p \in Producers : lo[p] <= i /\ i < hi[p])
    BY DEF Kept, InSegment
  <2> HIDE DEF K
  <2> SUFFICES ASSUME NEW i \in K
               PROVE  i \in f .. n \/ \E p \in Producers : i \in lo[p] .. hi[p] - 1
    OBVIOUS
  <2>3. CASE f <= i
    BY <2>2, <2>3
  <2>4. CASE ~(f <= i)
    <3>1. PICK p \in Producers : lo[p] <= i /\ i < hi[p]
      BY <2>2, <2>4
    <3>2. i \in lo[p] .. hi[p] - 1
      BY <2>1, <2>2, <3>1
    <3> QED
      BY <3>2
  <2> QED
    BY <2>3, <2>4
<1> HIDE DEF K
<1>10. alive = Fresh \cup L \cup UNION {E(p) : p \in Producers}
  <2>1. {at[i] : i \in K} = L \cup UNION {E(p) : p \in Producers}
    <3>1. ASSUME NEW i \in K
          PROVE  at[i] \in L \cup UNION {E(p) : p \in Producers}
      <4>1. i \in f .. n => at[i] \in L
        BY DEF Entries
      <4>2. \A p \in Producers : i \in lo[p] .. hi[p] - 1 => at[i] \in E(p)
        BY DEF Entries
      <4> HIDE DEF L, E
      <4> QED
        BY <1>9, <4>1, <4>2
    <3>2. L \subseteq {at[i] : i \in K}
      BY <1>7 DEF Entries
    <3>3. \A p \in Producers : E(p) \subseteq {at[i] : i \in K}
      BY <1>8 DEF Entries
    <3> HIDE DEF L, E
    <3> QED
      BY <3>1, <3>2, <3>3
  <2> HIDE DEF L, E
  <2> QED
    BY <1>5, <1>6, <2>1
<1>11. Fresh \cap L = {}
  BY <1>5, <1>6, <1>7 DEF Entries
<1>12. ASSUME NEW p \in Producers
       PROVE  /\ E(p) \cap (Fresh \cup L) = {}
              /\ \A q \in Producers \ {p} : E(p) \cap E(q) = {}
  <2>1. E(p) \cap Fresh = {}
    BY <1>5, <1>6, <1>8 DEF Entries
  <2>2. E(p) \cap L = {}
    <3> SUFFICES ASSUME NEW i \in lo[p] .. hi[p] - 1, NEW j \in f .. n, at[i] = at[j]
                 PROVE  FALSE
      BY DEF Entries
    <3>1. i \in K /\ j \in K /\ i < f
      BY <1>7, <1>8
    <3>2. i = j
      BY <1>5, <3>1
    <3> QED
      BY <3>1, <3>2
  <2>3. ASSUME NEW q \in Producers \ {p}
        PROVE  E(p) \cap E(q) = {}
    <3> SUFFICES ASSUME NEW i \in lo[p] .. hi[p] - 1, NEW j \in lo[q] .. hi[q] - 1, at[i] = at[j]
                 PROVE  FALSE
      BY DEF Entries
    <3>1. i \in K /\ j \in K /\ i \in 1 .. n /\ InSegment(p, i, lo, hi) /\ InSegment(q, j, lo, hi)
      BY <1>8
    <3>2. i = j
      BY <1>5, <3>1
    <3> QED
      BY <1>5, <3>1, <3>2
  <2> HIDE DEF E, L
  <2> QED
    BY <2>1, <2>2, <2>3
<1>13. UNION {E(p) : p \in Producers} = UNION {Erasing(p) : p \in Producers}
  BY <1>4
<1> HIDE DEF E, L
<1> QED
  BY <1>2, <1>3, <1>4, <1>10, <1>11, <1>12, <1>13 DEF NodesAccounted

(* Producers and the destructor delete every node once, and none before its *)
(* last use (mcmp_list.h:24-33, 70-87).                                     *)
THEOREM HeapIsSound == Spec => []HeapSound
<1>1. IInv => HeapSound
  BY NoUseAfterFreeNow, DestroyerFindsAllNow, NodesAccountedNow DEF HeapSound
<1> QED
  BY <1>1, InitIInv, NextIInv, PTL DEF Spec

-----------------------------------------------------------------------------
(* The list is a queue *)

Queue == [i \in 1 .. Len(waiting) |-> data[waiting[i]]]

(* The nodes that wait belong to nobody else, and fit in the memory.        *)
LEMMA WaitingFacts ==
  ASSUME IInv, ptr = NoNode
  PROVE  /\ waiting \in Seq(Nodes) /\ Len(waiting) \in Nat
         /\ \A i \in 1 .. Len(waiting) :
              waiting[i] \in Nodes /\ waiting[i] \in alive /\ data[waiting[i]] \in Elements
         /\ \A p \in Holders : \A i \in 1 .. Len(waiting) : waiting[i] # item[p]
         /\ \A p \in Producers : pc[p] = "free" /\ erase[p] # upto[p] =>
              \A i \in 1 .. Len(waiting) : waiting[i] # erase[p]
         /\ \A i, j \in 1 .. Len(waiting) : waiting[i] = waiting[j] => i = j
         /\ \A c \in Consumers : pc[c] = "advance" =>
              Len(waiting) # 0 /\ item[c] = waiting[1] /\ out[c] = data[waiting[1]]
<1>0. TypeOK /\ MutexInv /\ SomeList
  BY DEF IInv
<1>1. PICK at \in Journals, n, f, r \in Nat, lo, hi \in Bounds : ListInv(at, n, f, r, lo, hi)
  BY <1>0 DEF SomeList
<1>2. Pointers(at, n, f, r, lo, hi) /\ Sections(at, n, f, r, lo, hi)
      /\ Chain(at, n, f, lo, hi) /\ Owners(at, n, f, lo, hi)
  BY <1>1 DEF ListInv
<1> DEFINE K == Kept(n, f, lo, hi)
           d == n - r
<1>3. /\ waiting \in Seq(Nodes) /\ Len(waiting) = d /\ d \in Nat
      /\ \A i \in 1 .. d : waiting[i] = at[r + i]
  BY <1>0, <1>2 DEF TypeOK, Pointers
<1>4. \A i \in 1 .. d : r + i \in f .. n /\ r + i \in Nat
  BY <1>2 DEF Pointers
<1>5. \A i \in K : i \in 1 .. n /\ at[i] \in Nodes /\ at[i] \in alive
  BY <1>1, KeptFacts
<1>6. \A i \in f .. n : i \in K
  BY <1>1, KeptFacts
<1>7. \A i \in 1 .. d : r + i \in K
  BY <1>4, <1>6
<1>8. \A p \in Producers : pc[p] = "free" /\ erase[p] # upto[p] =>
        \A i \in 1 .. d : waiting[i] # erase[p]
  <2> SUFFICES ASSUME NEW p \in Producers, pc[p] = "free", erase[p] # upto[p],
                      NEW i \in 1 .. d, waiting[i] = erase[p]
               PROVE  FALSE
    OBVIOUS
  <2>1. /\ erase[p] = at[lo[p]] /\ lo[p] \in Nat /\ hi[p] \in Nat
        /\ lo[p] <= hi[p] /\ hi[p] <= r /\ (lo[p] < hi[p] => lo[p] \in K) /\ lo[p] # hi[p]
    BY <1>1, SegmentEnd
  <2>2. lo[p] \in K /\ lo[p] < r + i
    BY <2>1
  <2>3. at[lo[p]] = at[r + i]
    BY <1>3, <2>1
  <2>4. lo[p] = r + i
    BY <1>2, <1>7, <2>2, <2>3 DEF Chain
  <2> QED
    BY <1>4, <2>1, <2>2, <2>4
<1>9. \A i, j \in 1 .. d : waiting[i] = waiting[j] => i = j
  <2> SUFFICES ASSUME NEW i \in 1 .. d, NEW j \in 1 .. d, waiting[i] = waiting[j]
               PROVE  i = j
    OBVIOUS
  <2>1. at[r + i] = at[r + j]
    BY <1>3
  <2>2. r + i = r + j
    BY <1>2, <1>7, <2>1 DEF Chain
  <2> QED
    BY <2>2
<1>10. \A c \in Consumers : pc[c] = "advance" =>
         d # 0 /\ item[c] = waiting[1] /\ out[c] = data[waiting[1]]
  <2> SUFFICES ASSUME NEW c \in Consumers, pc[c] = "advance"
               PROVE  d # 0 /\ item[c] = waiting[1] /\ out[c] = data[waiting[1]]
    OBVIOUS
  <2>1. r < n /\ item[c] = at[r + 1] /\ out[c] = data[item[c]]
    BY <1>2 DEF Sections
  <2>2. 1 \in 1 .. d
    BY <2>1
  <2> QED
    BY <1>3, <2>1, <2>2
<1> HIDE DEF K
<1>11. \A p \in Holders : \A i \in 1 .. d : waiting[i] # item[p]
  BY <1>2, <1>3, <1>7 DEF Owners, K
<1>12. \A i \in 1 .. d : waiting[i] \in Nodes /\ waiting[i] \in alive /\ data[waiting[i]] \in Elements
  <2>1. \A i \in K : data[at[i]] \in Elements
    BY <1>2 DEF Chain, K
  <2> QED
    BY <1>3, <1>5, <1>7, <2>1
<1> HIDE DEF d
<1> QED
  BY <1>3, <1>8, <1>9, <1>10, <1>11, <1>12

LEMMA QueueType ==
  IInv /\ ptr = NoNode => Queue \in Seq(Elements) /\ Len(Queue) = Len(waiting)
<1> SUFFICES ASSUME IInv, ptr = NoNode
             PROVE  Queue \in Seq(Elements) /\ Len(Queue) = Len(waiting)
  OBVIOUS
<1>1. /\ Len(waiting) \in Nat
      /\ \A i \in 1 .. Len(waiting) : data[waiting[i]] \in Elements
  BY WaitingFacts
<1>2. Queue \in [1 .. Len(waiting) -> Elements]
  BY <1>1 DEF Queue
<1> QED
  BY <1>1, <1>2, SeqDef

LEMMA QueueStays ==
  ASSUME waiting' = waiting, got' = got,
         \A i \in 1 .. Len(waiting) : data'[waiting[i]] = data[waiting[i]]
  PROVE  UNCHANGED Line!vars
<1>1. Queue' = Queue
  BY DEF Queue
<1> QED
  BY <1>1 DEF Queue, Line!vars

(* Memory has a place for the new node beside those that wait.              *)
LEMMA RoomForOne ==
  ASSUME IInv, ptr = NoNode, NEW p \in Holders
  PROVE  Len(waiting) < Cardinality(Nodes)
<1>1. item[p] \in Nodes
  BY DEF IInv, FreshInv
<1>2. /\ waiting \in Seq(Nodes) /\ Len(waiting) \in Nat
      /\ \A i \in 1 .. Len(waiting) : waiting[i] \in Nodes /\ waiting[i] # item[p]
      /\ \A i, j \in 1 .. Len(waiting) : waiting[i] = waiting[j] => i = j
  BY WaitingFacts
<1>3. waiting \in [1 .. Len(waiting) -> Nodes]
  BY <1>2, LenProperties
<1> QED
  BY <1>1, <1>2, <1>3, ChainFits DEF Max

LEMMA LinkPuts ==
  ASSUME IInv, IInv', NEW p \in Producers, Link(p)
  PROVE  \E e \in Elements : Line!Put(e)
<1> DEFINE d == Len(waiting)
<1>0. data[item[p]] \in Elements /\ item[p] \in Nodes /\ p \in Holders
  BY DEF Link, IInv, Holders, FreshInv
<1> PICK e \in Elements : e = data[item[p]]
  BY <1>0
<1>1. ptr = NoNode /\ ptr' = NoNode /\ p \in Holders /\ item[p] \in Nodes /\ e = data[item[p]]
  BY <1>0, ThreadFacts DEF Link, IInv, MutexInv
<1>2. data' = data /\ got' = got /\ waiting' = Append(waiting, item[p])
  BY DEF Link
<1>3. waiting \in Seq(Nodes) /\ d \in Nat
  BY <1>1, WaitingFacts
<1>4. /\ Len(Append(waiting, item[p])) = d + 1 /\ Append(waiting, item[p])[d + 1] = item[p]
      /\ \A i \in 1 .. d : Append(waiting, item[p])[i] = waiting[i]
  BY <1>1, <1>3, AppendProperties
<1>5. Len(waiting') = d + 1 /\ waiting'[d + 1] = item[p] /\ \A i \in 1 .. d : waiting'[i] = waiting[i]
  BY <1>2, <1>4
<1>6. Queue \in Seq(Elements) /\ Len(Queue) = d
  BY <1>1, QueueType
<1>7. Queue' \in Seq(Elements) /\ Len(Queue') = d + 1
  <2>1. (ptr = NoNode)'
    BY <1>1
  <2>2. (Queue \in Seq(Elements) /\ Len(Queue) = Len(waiting))'
    BY <2>1, QueueType, PTL
  <2> QED
    BY <1>5, <2>2
<1>8. /\ Append(Queue, e) \in Seq(Elements) /\ Len(Append(Queue, e)) = d + 1
      /\ Append(Queue, e)[d + 1] = e
      /\ \A i \in 1 .. d : Append(Queue, e)[i] = Queue[i]
  BY <1>1, <1>6, AppendProperties
<1>9. ASSUME NEW i \in 1 .. d + 1
      PROVE  Queue'[i] = Append(Queue, e)[i]
  <2>1. Queue'[i] = data[waiting'[i]]
    BY <1>2, <1>5 DEF Queue
  <2>2. CASE i = d + 1
    BY <1>1, <1>5, <1>8, <2>1, <2>2
  <2>3. CASE i # d + 1
    <3>1. i \in 1 .. d
      BY <1>3, <2>3
    <3>2. Queue[i] = data[waiting[i]]
      BY <3>1 DEF Queue
    <3> QED
      BY <1>5, <1>8, <2>1, <3>1, <3>2
  <2> QED
    BY <2>2, <2>3
<1> HIDE DEF d
<1>10. Queue' = Append(Queue, e)
  BY <1>7, <1>8, <1>9, SeqEqual
<1>11. Len(Queue) < Cardinality(Nodes)
  BY <1>1, <1>6, RoomForOne DEF d
<1> QED
  BY <1>1, <1>2, <1>10, <1>11 DEF Line!Put, Queue

LEMMA AdvanceGets ==
  ASSUME IInv, IInv', NEW c \in Consumers, Advance(c)
  PROVE  Line!Get(c)
<1> DEFINE d == Len(waiting)
<1>1. ptr = NoNode /\ ptr' = NoNode /\ pc[c] = "advance"
  BY ThreadFacts DEF Advance, IInv, MutexInv
<1>2. data' = data /\ waiting' = SubSeq(waiting, 2, d) /\ got' = [got EXCEPT ![c] = out[c]]
  BY DEF Advance
<1>3. waiting \in Seq(Nodes) /\ d \in Nat /\ d # 0 /\ out[c] = data[waiting[1]]
  BY <1>1, WaitingFacts
<1>4. Queue \in Seq(Elements) /\ Len(Queue) = d /\ \A i \in 1 .. d : Queue[i] = data[waiting[i]]
  BY <1>1, QueueType DEF Queue
<1>5. Queue # << >>
  BY <1>3, <1>4, EmptySeq
<1>6. Head(Queue) = out[c]
  <2>1. 1 \in 1 .. d
    BY <1>3
  <2> QED
    BY <1>3, <1>4, <2>1
<1>7. PICK b \in Nat : b + 1 = d
  <2>1. d - 1 \in Nat /\ (d - 1) + 1 = d
    BY <1>3
  <2> QED
    BY <2>1
<1>8. /\ Len(waiting') = b /\ \A i \in 1 .. b : waiting'[i] = waiting[i + 1] /\ i + 1 \in 1 .. d
  <2>1. waiting # << >>
    BY <1>3, EmptySeq
  <2>2. waiting' = Tail(waiting)
    BY <1>2, <1>3, <2>1, TailIsSubSeq
  <2>3. Len(Tail(waiting)) = d - 1 /\ \A i \in 1 .. Len(Tail(waiting)) : Tail(waiting)[i] = waiting[i + 1]
    BY <1>3, <2>1, HeadTailProperties
  <2> QED
    BY <1>7, <2>2, <2>3
<1>9. Tail(Queue) \in Seq(Elements) /\ Len(Tail(Queue)) = b /\ \A i \in 1 .. b : Tail(Queue)[i] = Queue[i + 1]
  <2>1. Len(Tail(Queue)) = d - 1 /\ \A i \in 1 .. Len(Tail(Queue)) : Tail(Queue)[i] = Queue[i + 1]
    BY <1>4, <1>5, HeadTailProperties
  <2>2. Tail(Queue) \in Seq(Elements)
    BY <1>4, <1>5, HeadTailProperties
  <2> QED
    BY <1>7, <2>1, <2>2
<1>10. Queue' \in Seq(Elements) /\ Len(Queue') = b
  <2>1. (ptr = NoNode)'
    BY <1>1
  <2>2. (Queue \in Seq(Elements) /\ Len(Queue) = Len(waiting))'
    BY <2>1, QueueType, PTL
  <2> QED
    BY <1>8, <2>2
<1>11. ASSUME NEW i \in 1 .. b
       PROVE  Queue'[i] = Tail(Queue)[i]
  <2>1. Queue'[i] = data[waiting'[i]]
    BY <1>2, <1>8 DEF Queue
  <2> QED
    BY <1>4, <1>8, <1>9, <2>1
<1> HIDE DEF d
<1>12. Queue' = Tail(Queue)
  BY <1>9, <1>10, <1>11, SeqEqual
<1> QED
  BY <1>2, <1>5, <1>6, <1>12 DEF Line!Get, Queue

LEMMA InitLine == Init => Line!Init
  BY DEF Init, Line!Init

LEMMA NextLine ==
  ASSUME IInv, IInv', [Next]_vars
  PROVE  [Line!Next]_(Line!vars)
<1>1. ASSUME NEW p \in Producers, Link(p)
      PROVE  Line!Next
  BY <1>1, LinkPuts DEF Line!Next
<1>2. ASSUME NEW c \in Consumers, Advance(c)
      PROVE  Line!Next
  BY <1>2, AdvanceGets DEF Line!Next
<1>3. ASSUME UNCHANGED <<data, waiting, got>>
      PROVE  UNCHANGED Line!vars
  BY <1>3, QueueStays
<1>4. ASSUME NEW p \in Producers, NEW m \in Nodes, NEW e \in Elements, Allocate(p, m, e)
      PROVE  UNCHANGED Line!vars
  <2>1. waiting' = waiting /\ got' = got /\ ptr = NoNode /\ m \notin alive
    BY <1>4 DEF Allocate
  <2>2. \A k \in Nodes : k # m => data'[k] = data[k]
    BY <1>4 DEF Allocate, IInv, TypeOK
  <2>3. \A i \in 1 .. Len(waiting) : waiting[i] \in Nodes /\ waiting[i] \in alive
    BY <2>1, WaitingFacts
  <2> QED
    BY <2>1, <2>2, <2>3, QueueStays
<1>5. ASSUME NEW p \in Producers, Free(p)
      PROVE  UNCHANGED Line!vars
  <2>1. /\ waiting' = waiting /\ got' = got /\ ptr = NoNode
        /\ pc[p] = "free" /\ erase[p] # upto[p]
    BY <1>5, ThreadFacts DEF Free, IInv, MutexInv
  <2>2. \A k \in Nodes : k # erase[p] => data'[k] = data[k]
    BY <1>5 DEF Free, IInv, TypeOK
  <2>3. \A i \in 1 .. Len(waiting) : waiting[i] \in Nodes /\ waiting[i] # erase[p]
    BY <2>1, WaitingFacts
  <2> QED
    BY <2>1, <2>2, <2>3, QueueStays
<1>6. ASSUME NEW p \in Producers, LoadRead(p) \/ Unhook(p) \/ EmplaceReturn(p)
      PROVE  UNCHANGED Line!vars
  BY <1>3, <1>6 DEF LoadRead, Unhook, EmplaceReturn
<1>7. ASSUME NEW c \in Consumers, LockConsume(c) \/ FindNext(c) \/ FindNothing(c) \/ MoveData(c)
      PROVE  UNCHANGED Line!vars
  BY <1>3, <1>7 DEF LockConsume, FindNext, FindNothing, MoveData
<1>8. ASSUME DestroyBegin \/ DestroyNext \/ UNCHANGED vars
      PROVE  UNCHANGED Line!vars
  BY <1>3, <1>8 DEF DestroyBegin, DestroyNext, vars
<1> QED
  BY <1>1, <1>2, <1>4, <1>5, <1>6, <1>7, <1>8 DEF Next, Emplace, Consume, Terminating

(* The list is a queue, although its two ends share no mutex: consumers get *)
(* every element once, in the order of the links (mcmp_list.h:35-68).       *)
THEOREM ListImplementsBoundedQueue == Spec => ImplementsBoundedQueue
<1>1. IInv /\ [Next]_vars => IInv' /\ [Line!Next]_(Line!vars)
  BY NextIInv, NextLine
<1> QED
  BY <1>1, InitIInv, InitLine, PTL DEF Spec, ImplementsBoundedQueue, Line!Spec
=============================================================================
