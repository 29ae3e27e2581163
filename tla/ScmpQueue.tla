------------------------------ MODULE ScmpQueue ------------------------------
(***************************************************************************)
(* concur::ScmpQueue (scmp_queue.h): an unbounded linked queue, many       *)
(* producers and one consumer.  head_ is a node whose data was consumed    *)
(* already; tail_ is the node pushed last.                                 *)
(*                                                                         *)
(* push:  allocate a node, exchange it into tail_ (TEAR), link the former  *)
(*        tail to it (BIND).  In between the queue is torn apart.          *)
(* pop:   load the successor of head_ (READ); if there is one, delete      *)
(*        head_, make the successor the head and move its data out.        *)
(*                                                                         *)
(* Nodes are the addresses operator new may return: a deleted address can  *)
(* be returned again while other threads still hold it.                    *)
(***************************************************************************)
EXTENDS Integers, Sequences, FiniteSets, MemoryOrder

CONSTANTS
  Producers,   \* the threads that push
  Consumer,    \* the thread that pops, and destroys the queue at the end
  Nodes,       \* bound: the addresses a node can have
  NoNode,      \* nullptr
  MaxPush      \* bound: how many elements each producer pushes

ASSUME ConstantsAssumption ==
  /\ IsFiniteSet(Producers)
  /\ Consumer \notin Producers
  /\ IsFiniteSet(Nodes)
  /\ Nodes # {}
  /\ NoNode \notin Nodes
  /\ MaxPush \in Nat

Threads  == Producers \cup {Consumer}
Elements == Producers \X (1 .. MaxPush)   \* <<p, k>>: the k-th element of p
NoData   == <<Consumer, 0>>               \* T( ), the data of the first node

(* Places that are accessed by plain reads and writes: the data of a node,  *)
(* and the storage of its next, which is constructed and freed.             *)
DataOf(n)  == <<"data", n>>
LinkOf(n)  == <<"next", n>>
Places     == {"data", "next"} \X Nodes
TailAtomic == <<"tail", NoNode>>
Atomics    == {TailAtomic} \cup {LinkOf(n) : n \in Nodes}

VARIABLES
  head,      \* head_
  tail,      \* tail_
  next,      \* Node::next of each address
  data,      \* Node::data of each address
  alive,     \* the addresses that are allocated
  pc,        \* where each thread is
  node,      \* new_node of each producer
  old,       \* old_tail of each producer
  pushed,    \* how many pushes of each producer returned
  first,     \* pop_head's local of that name
  claims,    \* history: the elements in the order of TEAR
  received,  \* history: what pop returned
  seen, rel  \* happens-before between plain accesses (MemoryOrder)

vars == <<head, tail, next, data, alive, pc, node, old, pushed, first,
          claims, received, seen, rel>>

NextElement(p) == <<p, pushed[p] + 1>>

TypeOK ==
  /\ head \in Nodes
  /\ tail \in Nodes
  /\ next \in [Nodes -> Nodes \cup {NoNode}]
  /\ data \in [Nodes -> Elements \cup {NoData}]
  /\ alive \subseteq Nodes
  /\ pc \in [Threads -> {"idle", "tear", "bind", "delete", "move", "drop", "gone"}]
  /\ \A p \in Producers : pc[p] \in {"idle", "tear", "bind"}
  /\ pc[Consumer] \notin {"tear", "bind"}
  /\ node \in [Producers -> Nodes \cup {NoNode}]
  /\ old \in [Producers -> Nodes \cup {NoNode}]
  /\ pushed \in [Producers -> 0 .. MaxPush]
  /\ first \in Nodes \cup {NoNode}
  /\ claims \in Seq(Elements)
  /\ received \in Seq(Elements \cup {NoData})
  /\ seen \in [Threads -> SUBSET Places]
  /\ rel \in [Atomics -> SUBSET Places]

(* After the constructor: one node, which all the threads have seen. *)
Init ==
  /\ head \in Nodes
  /\ tail = head
  /\ next = [n \in Nodes |-> NoNode]
  /\ data = [n \in Nodes |-> NoData]
  /\ alive = {head}
  /\ pc = [t \in Threads |-> "idle"]
  /\ node = [p \in Producers |-> NoNode]
  /\ old = [p \in Producers |-> NoNode]
  /\ pushed = [p \in Producers |-> 0]
  /\ first = NoNode
  /\ claims = << >>
  /\ received = << >>
  /\ seen = [t \in Threads |-> Places]
  /\ rel = [a \in Atomics |-> {}]

Goto(t, label) == pc' = [pc EXCEPT ![t] = label]

(* Thread t accesses the whole node n. *)
TouchNode(t, n) ==
  /\ seen' = Touch(Touch(seen, t, DataOf(n)), t, LinkOf(n))
  /\ rel' = Forget(Forget(rel, DataOf(n)), LinkOf(n))

-----------------------------------------------------------------------------
(* push, by producer p *)

(* new Node( args ): any free address; the allocator orders the free of an  *)
(* address before its reuse.                                                *)
PushNew(p) ==
  /\ pc[p] = "idle"
  /\ pushed[p] < MaxPush
  /\ pc[Consumer] \notin {"drop", "gone"}
  /\ \E n \in Nodes \ alive :
       /\ alive' = alive \cup {n}
       /\ next' = [next EXCEPT ![n] = NoNode]
       /\ data' = [data EXCEPT ![n] = NextElement(p)]
       /\ node' = [node EXCEPT ![p] = n]
       /\ TouchNode(p, n)
  /\ Goto(p, "tear")
  /\ UNCHANGED <<head, tail, old, pushed, first, claims, received>>

TearRelaxed(p) ==                      \* mutant: the exchange is relaxed
  /\ pc[p] = "tear"
  /\ old' = [old EXCEPT ![p] = tail]
  /\ tail' = node[p]
  /\ claims' = Append(claims, NextElement(p))
  /\ Goto(p, "bind")
  /\ UNCHANGED <<head, next, data, alive, node, pushed, first, received, seen, rel>>

(* tail_.exchange( new_tail, acq_rel ) <TEAR> *)
PushTear(p) ==
  /\ pc[p] = "tear"
  /\ old' = [old EXCEPT ![p] = tail]
  /\ tail' = node[p]
  /\ seen' = Acquire(seen, p, rel[TailAtomic])
  /\ rel' = RmwRelease(rel, TailAtomic, seen'[p])
  /\ claims' = Append(claims, NextElement(p))
  /\ Goto(p, "bind")
  /\ UNCHANGED <<head, next, data, alive, node, pushed, first, received>>

BindForgotten(p) ==                    \* mutant: the gap is not closed
  /\ pc[p] = "bind"
  /\ pushed' = [pushed EXCEPT ![p] = @ + 1]
  /\ Goto(p, "idle")
  /\ UNCHANGED <<head, tail, next, data, alive, node, old, first, claims, received,
                 seen, rel>>

(* old_tail->next.store( new_tail, release ) <BIND>; return true *)
PushBind(p) ==
  /\ pc[p] = "bind"
  /\ next' = [next EXCEPT ![old[p]] = node[p]]
  /\ rel' = StoreRelease(rel, LinkOf(old[p]), seen[p])
  /\ pushed' = [pushed EXCEPT ![p] = @ + 1]
  /\ Goto(p, "idle")
  /\ UNCHANGED <<head, tail, data, alive, node, old, first, claims, received, seen>>

-----------------------------------------------------------------------------
(* pop, by the consumer *)

PopReadTail ==                         \* mutant: takes the tail, past any gap
  /\ pc[Consumer] = "idle"
  /\ tail # head
  /\ first' = tail
  /\ Goto(Consumer, "delete")
  /\ UNCHANGED <<head, tail, next, data, alive, node, old, pushed, claims, received,
                 seen, rel>>

PopReadUnchecked ==                    \* mutant: nullptr is taken for a node
  /\ pc[Consumer] = "idle"
  /\ first' = next[head]
  /\ seen' = Acquire(seen, Consumer, rel[LinkOf(head)])
  /\ Goto(Consumer, "delete")
  /\ UNCHANGED <<head, tail, next, data, alive, node, old, pushed, claims, received, rel>>

(* head_->next.load( acquire ) <READ> of a successor; a pop that loads      *)
(* nullptr returns false and changes nothing.                               *)
PopRead == next[head] # NoNode /\ PopReadUnchecked

PopDeleteFirst ==                      \* mutant: deletes the new head instead
  /\ pc[Consumer] = "delete"
  /\ alive' = alive \ {first}
  /\ TouchNode(Consumer, first)
  /\ head' = first
  /\ Goto(Consumer, "move")
  /\ UNCHANGED <<tail, next, data, node, old, pushed, first, claims, received>>

(* delete head_; head_ = first *)
PopDelete ==
  /\ pc[Consumer] = "delete"
  /\ alive' = alive \ {head}
  /\ TouchNode(Consumer, head)
  /\ head' = first
  /\ Goto(Consumer, "move")
  /\ UNCHANGED <<tail, next, data, node, old, pushed, first, claims, received>>

(* dst = std::move( last->data ); return true *)
PopMove ==
  /\ pc[Consumer] = "move"
  /\ received' = Append(received, data[head])
  /\ seen' = Touch(seen, Consumer, DataOf(head))
  /\ rel' = Forget(rel, DataOf(head))
  /\ Goto(Consumer, "idle")
  /\ UNCHANGED <<head, tail, next, data, alive, node, old, pushed, first, claims>>

-----------------------------------------------------------------------------
(* ~ScmpQueue, once no producer is inside push (and none starts another) *)

DestroyBegin ==
  /\ pc[Consumer] = "idle"
  /\ \A p \in Producers : pc[p] = "idle"
  /\ Goto(Consumer, "drop")
  /\ UNCHANGED <<head, tail, next, data, alive, node, old, pushed, first, claims,
                 received, seen, rel>>

(* while( pop_head( ) ) ; *)
DestroyNext ==
  /\ pc[Consumer] = "drop"
  /\ next[head] # NoNode
  /\ first' = next[head]
  /\ seen' = Touch(Touch(Acquire(seen, Consumer, rel[LinkOf(head)]),
                         Consumer, DataOf(head)), Consumer, LinkOf(head))
  /\ rel' = Forget(Forget(rel, DataOf(head)), LinkOf(head))
  /\ alive' = alive \ {head}
  /\ head' = next[head]
  /\ UNCHANGED <<tail, next, data, pc, node, old, pushed, claims, received>>

DestroyLastUnchecked ==                \* mutant: the list is not walked
  /\ pc[Consumer] = "drop"
  /\ alive' = alive \ {head}
  /\ TouchNode(Consumer, head)
  /\ Goto(Consumer, "gone")
  /\ UNCHANGED <<head, tail, next, data, node, old, pushed, first, claims, received>>

(* delete head_ *)
DestroyLast ==
  /\ pc[Consumer] = "drop"
  /\ next[head] = NoNode
  /\ alive' = alive \ {head}
  /\ TouchNode(Consumer, head)
  /\ Goto(Consumer, "gone")
  /\ UNCHANGED <<head, tail, next, data, node, old, pushed, first, claims, received>>

-----------------------------------------------------------------------------
Finish(p) == PushTear(p) \/ PushBind(p)
Pop       == PopRead \/ PopDelete \/ PopMove
Destroy   == DestroyBegin \/ DestroyNext \/ DestroyLast

Terminating == pc[Consumer] = "gone" /\ UNCHANGED vars

Next ==
  \/ \E p \in Producers : PushNew(p) \/ Finish(p)
  \/ Pop
  \/ Destroy
  \/ Terminating

Spec == Init /\ [][Next]_vars

(* A thread that is inside push is scheduled again, and the consumer keeps  *)
(* calling pop until the queue is destroyed.                                *)
Fairness ==
  /\ \A p \in Producers : WF_vars(Finish(p))
  /\ WF_vars(Pop)
  /\ WF_vars(DestroyNext \/ DestroyLast)

FairSpec == Spec /\ Fairness

-----------------------------------------------------------------------------
(* Properties *)

Gone == pc[Consumer] = "gone"

Popped == Len(received) + IF pc[Consumer] = "move" THEN 1 ELSE 0

(* No thread uses a node after it was deleted, even if its address was     *)
(* reused: a producer between TEAR and BIND still owns the link of the     *)
(* former tail (the asserts of push_node), and the two ends of the queue   *)
(* are nodes that exist.                                                   *)
NoUseAfterFree ==
  /\ ~Gone => head \in alive
  /\ pc[Consumer] \notin {"drop", "gone"} => tail \in alive
  /\ pc[Consumer] = "delete" => first \in alive \ {head}
  /\ \A p \in Producers :
       /\ pc[p] = "tear" => node[p] \in alive
       /\ pc[p] = "bind" =>
            /\ {node[p], old[p]} \subseteq alive
            /\ next[old[p]] = NoNode
            /\ \A q \in Producers \ {p} : pc[q] = "bind" => old[q] # old[p]

(* The accesses to the data of a node, and its construction and deletion   *)
(* against the use of its link, are ordered by TEAR, BIND and READ.        *)
AccessesOrdered ==
  /\ \A p \in Producers : pc[p] = "bind" => LinkOf(old[p]) \in seen[p]
  /\ pc[Consumer] = "move" => DataOf(head) \in seen[Consumer]
  /\ pc[Consumer] = "delete" => {DataOf(head), LinkOf(head)} \subseteq seen[Consumer]

(* Memory: one node beyond the elements that are in the queue or about to  *)
(* enter it, and none once the queue is destroyed.                         *)
NoGarbage ==
  /\ pc[Consumer] \in {"idle", "move"} =>
       Cardinality(alive) = 1 + (Len(claims) - Popped)
                              + Cardinality({p \in Producers : pc[p] = "tear"})
  /\ Gone => alive = {}

(* All together: the consumer deletes every node once, not before the last  *)
(* use, and what others did with it happened before (scmp_queue.h:75-99).   *)
HeapSound == NoUseAfterFree /\ NoGarbage /\ AccessesOrdered

Line == SubSeq(claims, Len(received) + 1, Len(claims))

Unbound == {NextElement(p) : p \in {q \in Producers : pc[q] = "bind"}}

(* The header's promise about pop: it is rejected only if the queue is     *)
(* empty or it has reached a gap, which exactly the producer that made it  *)
(* closes.                                                                 *)
RejectedOnlyAtGap ==
  pc[Consumer] = "idle" =>
    (next[head] = NoNode <=> Line = << >> \/ Head(Line) \in Unbound)

(* The queue implements the abstract line: elements leave in the order of  *)
(* TEAR, each once, with the data they were pushed with.                   *)
TQ == INSTANCE TicketQueue WITH
        Elements <- Elements,
        Capacity <- Cardinality(Nodes),
        line     <- Line,
        ready    <- {Line[i] : i \in 1 .. Len(Line)} \ Unbound,
        taken    <- received

ImplementsTicketQueue == TQ!Spec

(* Every element pushed is received, unless the queue is destroyed first:   *)
(* no gap stays open and no node is lost.                                   *)
ClaimsDelivered ==
  \A e \in Elements :
    (\E i \in 1 .. Len(claims) : claims[i] = e)
      ~> (Gone \/ \E i \in 1 .. Len(received) : received[i] = e)
=============================================================================
