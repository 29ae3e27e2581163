-------------------------------- MODULE GcList --------------------------------
(***************************************************************************)
(* MCMPList (mcmp_list.h): a circular list behind fRoot.  Producers append *)
(* under one mutex, consumers advance fRead under another one; nothing but *)
(* relaxed atomics stands between the two sides.  Consumed nodes stay in   *)
(* the list until a producer unhooks them, under its mutex, and deletes    *)
(* them after it unlocked.                                                 *)
(*                                                                         *)
(* SCMPList, MCSPList and SCSPList are the same code without the mutex of  *)
(* a side on which a single thread calls: this specification with one      *)
(* consumer, with one producer, or with one of each.                       *)
(***************************************************************************)
EXTENDS Integers, Sequences, FiniteSets

CONSTANTS
  Producers, Consumers,   \* the threads
  Elements, Nothing,      \* the values, and what a consumer has at first
  Nodes,                  \* bound: the addresses the allocator hands out
  Root,                   \* &fRoot
  NoNode,                 \* a pointer nobody may follow
  NoThread                \* the holder of a mutex that is free

ASSUME ConstantsAssumption ==
  /\ IsFiniteSet(Nodes)
  /\ Producers \cap Consumers = {}
  /\ NoThread \notin Producers \cup Consumers
  /\ Nothing \notin Elements
  /\ Root \notin Nodes
  /\ NoNode \notin Nodes \cup {Root}

Threads == Producers \cup Consumers
Links   == Nodes \cup {Root}

VARIABLES
  next,         \* ListItem::next of fRoot and of the nodes
  data,         \* ListItem::data
  alive,        \* the nodes allocated
  tail,         \* fTail
  read,         \* fRead
  produceMutex, \* the holder of fProduceMutex
  consumeMutex, \* the holder of fConsumeMutex
  pc,           \* where each thread is
  item,         \* newItem of a producer; the node behind fRead of a consumer
  upto,         \* read of a producer
  erase,        \* erase of a producer
  out,          \* aOut of a consumer
  ptr,          \* ptr of the destructor; NoNode until it runs
  waiting,      \* history: the nodes linked and not consumed, in order
  got           \* history: aOut of its latest successful call

vars == <<next, data, alive, tail, read, produceMutex, consumeMutex, pc, item,
          upto, erase, out, ptr, waiting, got>>

TypeOK ==
  /\ next \in [Links -> Links \cup {NoNode}]
  /\ data \in [Nodes -> Elements \cup {Nothing}]
  /\ alive \subseteq Nodes
  /\ tail \in Links
  /\ read \in Links
  /\ produceMutex \in Producers \cup {NoThread}
  /\ consumeMutex \in Consumers \cup {NoThread}
  /\ pc \in [Threads -> {"idle", "link", "load", "unhook", "free",
                         "look", "move", "advance"}]
  /\ item \in [Threads -> Links \cup {NoNode}]
  /\ upto \in [Producers -> Links]
  /\ erase \in [Producers -> Links]
  /\ out \in [Consumers -> Elements \cup {Nothing}]
  /\ ptr \in Links \cup {NoNode}
  /\ waiting \in Seq(Nodes)
  /\ got \in [Consumers -> Elements \cup {Nothing}]

Init ==
  /\ next = [n \in Links |-> IF n = Root THEN Root ELSE NoNode]
  /\ data = [n \in Nodes |-> Nothing]
  /\ alive = {}
  /\ tail = Root
  /\ read = Root
  /\ produceMutex = NoThread
  /\ consumeMutex = NoThread
  /\ pc = [t \in Threads |-> "idle"]
  /\ item = [t \in Threads |-> NoNode]
  /\ upto = [p \in Producers |-> Root]
  /\ erase = [p \in Producers |-> Root]
  /\ out = [c \in Consumers |-> Nothing]
  /\ ptr = NoNode
  /\ waiting = << >>
  /\ got = [c \in Consumers |-> Nothing]

Goto(t, label) == pc' = [pc EXCEPT ![t] = label]

-----------------------------------------------------------------------------
(* emplace *)

(* The new node, with any free address, points back to fRoot.               *)
Allocate(p, n, e) ==
  /\ pc[p] = "idle" /\ ptr = NoNode
  /\ n \in Nodes \ alive
  /\ alive' = alive \cup {n}
  /\ next' = [next EXCEPT ![n] = Root]
  /\ data' = [data EXCEPT ![n] = e]
  /\ item' = [item EXCEPT ![p] = n]
  /\ Goto(p, "link")
  /\ UNCHANGED <<tail, read, produceMutex, consumeMutex, upto, erase, out, waiting, got, ptr>>

(* The mutex; fTail->next.store( newItem ), from where on consumers find    *)
(* the element; and fTail, which only the holder of the mutex looks at.     *)
Link(p) ==
  /\ pc[p] = "link"
  /\ produceMutex = NoThread
  /\ produceMutex' = p
  /\ next' = [next EXCEPT ![tail] = item[p]]
  /\ tail' = item[p]
  /\ item' = [item EXCEPT ![p] = NoNode]
  /\ waiting' = Append(waiting, item[p])
  /\ Goto(p, "load")
  /\ UNCHANGED <<data, alive, read, consumeMutex, upto, erase, out, got, ptr>>

LoadRead(p) ==
  /\ pc[p] = "load"
  /\ upto' = [upto EXCEPT ![p] = read]
  /\ Goto(p, "unhook")
  /\ UNCHANGED <<next, data, alive, tail, read, produceMutex, consumeMutex, item, erase, out, waiting, got, ptr>>

FirstToEraseUnchecked(p) == next[Root]   \* mutant

(* The first node to delete; none unless something was consumed.            *)
FirstToErase(p) == IF upto[p] = Root THEN upto[p] ELSE next[Root]

UnhookedNever(p) == next                 \* mutant

(* fRoot.next.store( read ): nothing before read is in the list any more.   *)
Unhooked(p) == IF upto[p] = Root THEN next ELSE [next EXCEPT ![Root] = upto[p]]

(* fRoot.next is loaded and stored.  In between nobody else looks at it:    *)
(* producers need the mutex, and consumers have left fRoot behind if upto   *)
(* is not Root.                                                             *)
Unhook(p) ==
  /\ pc[p] = "unhook"
  /\ erase' = [erase EXCEPT ![p] = FirstToErase(p)]
  /\ next' = Unhooked(p)
  /\ produceMutex' = NoThread
  /\ Goto(p, "free")
  /\ UNCHANGED <<data, alive, tail, read, consumeMutex, item, upto, out, waiting, got, ptr>>

AfterErasedLate(p) == NoNode             \* mutant: the link read after the delete
AfterErased(p) == next[erase[p]]

(* The loop that deletes, a node at a time, without the mutex.              *)

Free(p) ==
  /\ pc[p] = "free"
  /\ erase[p] # upto[p]
  /\ erase' = [erase EXCEPT ![p] = AfterErased(p)]
  /\ alive' = alive \ {erase[p]}
  /\ next' = [next EXCEPT ![erase[p]] = NoNode]
  /\ data' = [data EXCEPT ![erase[p]] = Nothing]
  /\ UNCHANGED <<tail, read, produceMutex, consumeMutex, pc, item, upto, out, waiting, got, ptr>>

EmplaceReturn(p) ==
  /\ pc[p] = "free"
  /\ erase[p] = upto[p]
  /\ erase' = [erase EXCEPT ![p] = Root]
  /\ upto' = [upto EXCEPT ![p] = Root]
  /\ Goto(p, "idle")
  /\ UNCHANGED <<next, data, alive, tail, read, produceMutex, consumeMutex, item, out, waiting, got, ptr>>

-----------------------------------------------------------------------------
(* consume *)

ConsumeUnlocked(c) == TRUE               \* mutant: the mutex forgotten
ConsumeFree(c) == consumeMutex = NoThread

LockConsume(c) ==
  /\ pc[c] = "idle" /\ ptr = NoNode
  /\ ConsumeFree(c)
  /\ consumeMutex' = c
  /\ Goto(c, "look")
  /\ UNCHANGED <<next, data, alive, tail, read, produceMutex, item, upto, erase, out, waiting, got, ptr>>

(* read->next; fRead itself changes under the mutex only.                   *)
FindNext(c) ==
  /\ pc[c] = "look"
  /\ next[read] # Root
  /\ item' = [item EXCEPT ![c] = next[read]]
  /\ Goto(c, "move")
  /\ UNCHANGED <<next, data, alive, tail, read, produceMutex, consumeMutex, upto, erase, out, waiting, got, ptr>>

FindNothing(c) ==
  /\ pc[c] = "look"
  /\ next[read] = Root
  /\ consumeMutex' = NoThread
  /\ Goto(c, "idle")
  /\ UNCHANGED <<next, data, alive, tail, read, produceMutex, item, upto, erase, out, waiting, got, ptr>>

MoveData(c) ==
  /\ pc[c] = "move"
  /\ out' = [out EXCEPT ![c] = data[item[c]]]
  /\ Goto(c, "advance")
  /\ UNCHANGED <<next, data, alive, tail, read, produceMutex, consumeMutex, item, upto, erase, waiting, got, ptr>>

(* fRead.store( next ): what lies before it may be deleted now.             *)
Advance(c) ==
  /\ pc[c] = "advance"
  /\ read' = item[c]
  /\ item' = [item EXCEPT ![c] = NoNode]
  /\ waiting' = SubSeq(waiting, 2, Len(waiting))
  /\ got' = [got EXCEPT ![c] = out[c]]
  /\ out' = [out EXCEPT ![c] = Nothing]
  /\ consumeMutex' = NoThread
  /\ Goto(c, "idle")
  /\ UNCHANGED <<next, data, alive, tail, produceMutex, upto, erase, ptr>>

-----------------------------------------------------------------------------
(* The destructor, when no thread is inside a call; none calls after it.    *)

DestroyBegin ==
  /\ ptr = NoNode
  /\ \A t \in Threads : pc[t] = "idle"
  /\ ptr' = next[Root]
  /\ UNCHANGED <<next, data, alive, tail, read, produceMutex, consumeMutex, pc, item,
                 upto, erase, out, waiting, got>>

(* The nodes up to fRoot, consumed or not.                                  *)
DestroyNext ==
  /\ ptr \notin {NoNode, Root}
  /\ ptr' = next[ptr]
  /\ alive' = alive \ {ptr}
  /\ next' = [next EXCEPT ![ptr] = NoNode]
  /\ UNCHANGED <<data, tail, read, produceMutex, consumeMutex, pc, item, upto, erase,
                 out, waiting, got>>

Terminating == ptr = Root /\ UNCHANGED vars

-----------------------------------------------------------------------------
Emplace(p) ==
  \/ \E n \in Nodes, e \in Elements : Allocate(p, n, e)
  \/ Link(p) \/ LoadRead(p) \/ Unhook(p) \/ Free(p) \/ EmplaceReturn(p)

Consume(c) ==
  LockConsume(c) \/ FindNext(c) \/ FindNothing(c) \/ MoveData(c) \/ Advance(c)

Next ==
  \/ \E p \in Producers : Emplace(p)
  \/ \E c \in Consumers : Consume(c)
  \/ DestroyBegin \/ DestroyNext \/ Terminating

Spec == Init /\ [][Next]_vars

-----------------------------------------------------------------------------
(* Properties *)

(* The nodes behind n, up to fRoot or a dangling link.                      *)
Behind(n) ==
  LET Extend(path) ==
        LET end == IF path = << >> THEN n ELSE path[Len(path)]
        IN  IF next[end] \in Nodes THEN Append(path, next[end]) ELSE path
      path[k \in 0 .. Cardinality(Nodes)] ==
        IF k = 0 THEN << >> ELSE Extend(path[k - 1])
  IN  path[Cardinality(Nodes)]

NodesOf(path) == {path[i] : i \in 1 .. Len(path)}

Fresh == {item[p] : p \in {q \in Producers : pc[q] = "link"}}

(* What the loop of a producer has still to delete.                         *)
Erasing(p) ==
  IF pc[p] # "free" \/ erase[p] = upto[p] THEN {}
  ELSE ({erase[p]} \cup NodesOf(Behind(erase[p]))) \ ({upto[p]} \cup NodesOf(Behind(upto[p])))

(* Nobody follows a pointer to a node that was deleted                      *)
(* (mcmp_list.h:35-50, 65-87): the consumer reads fRead and its successor   *)
(* without the mutex under which producers choose what to delete, a         *)
(* producer deletes without any, and addresses are used again.              *)
NoUseAfterFree ==
  /\ \A c \in Consumers :
       /\ pc[c] = "look" => read \in alive \cup {Root}
       /\ pc[c] \in {"move", "advance"} => item[c] \in alive
  /\ \A p \in Producers :
       /\ pc[p] = "link" => {tail, item[p]} \subseteq alive \cup {Root}
       /\ pc[p] = "unhook" => upto[p] \in alive \cup {Root}
       /\ (pc[p] = "free" /\ erase[p] # upto[p]) => erase[p] \in alive
  /\ ptr \notin {NoNode, Root} => ptr \in alive

(* Every node has one owner (mcmp_list.h:56-88): the producer that made it, *)
(* the list behind fRoot, or the producer that will delete it.  None leaks  *)
(* and none is deleted twice, although several producers delete at a time;  *)
(* what is not consumed yet is what lies behind fRead.                      *)
NodesAccounted ==
  /\ Behind(read) = waiting
  /\ alive = Fresh \cup NodesOf(Behind(Root)) \cup UNION {Erasing(p) : p \in Producers}
  /\ Fresh \cap NodesOf(Behind(Root)) = {}
  /\ \A p \in Producers :
       /\ Erasing(p) \cap (Fresh \cup NodesOf(Behind(Root))) = {}
       /\ \A q \in Producers \ {p} : Erasing(p) \cap Erasing(q) = {}

(* The destructor (mcmp_list.h:24-33) still has to delete what it will find *)
(* behind ptr: at its end no node is left.                                  *)
DestroyerFindsAll ==
  alive = IF ptr = Root THEN {} ELSE {ptr} \cup NodesOf(Behind(ptr))

(* Producers and the destructor delete every node once, and no producer     *)
(* before its last use (mcmp_list.h:24-33, 70-87).                          *)
HeapSound ==
  /\ NoUseAfterFree
  /\ IF ptr = NoNode THEN NodesAccounted ELSE DestroyerFindsAll

(* The list is a queue (mcmp_list.h:35-68): an emplace takes effect when    *)
(* its link is stored, a consume when fRead is; consumers obtain every      *)
(* element once, in the order of the links.                                 *)
Line == INSTANCE BoundedQueue WITH
  Clearable <- FALSE,
  Capacity <- Cardinality(Nodes),
  queue <- [i \in 1 .. Len(waiting) |-> data[waiting[i]]]

ImplementsBoundedQueue == Line!Spec
=============================================================================
