------------------------------- MODULE ScmrPool -------------------------------
(***************************************************************************)
(* concpool::ScmrPool (scmr_pool.h) and the Holder that owns what it lends *)
(* (pool_holder.h): a line of nodes, one thread pops, any thread that ends *)
(* a holder's life pushes the node back.                                   *)
(*                                                                         *)
(* tail_ is the separator, a node without data of its own.  pop_node takes *)
(* the separator out, makes its successor the separator and moves the      *)
(* successor's data into the node it lends: nodes and data change partners *)
(* at every pop.  push_node exchanges head_ and links the former head      *)
(* afterwards, as ScmpQueue does.                                          *)
(*                                                                         *)
(* A Holder variable holds a node or none.  Its pool_ is set whenever its  *)
(* node_ is, and there is one pool: pool_ is left out.                     *)
(***************************************************************************)
EXTENDS Integers, Sequences, FiniteSets, MemoryOrder

CONSTANTS
  Consumer,    \* the thread that calls pop, and destroys the pool
  Releasers,   \* the threads holders are moved to
  InitCount,   \* the count given to init
  NodeCount    \* bound: how many nodes are ever allocated

ASSUME ConstantsAssumption ==
  /\ IsFiniteSet(Releasers)
  /\ Consumer \notin Releasers
  /\ InitCount \in Nat
  /\ NodeCount \in Nat
  /\ InitCount < NodeCount

Threads  == Releasers \cup {Consumer}
Nodes    == 1 .. NodeCount
NoNode   == 0                     \* nullptr
Elements == 1 .. NodeCount - 1    \* the data the nodes were constructed with
NoData   == 0                     \* what is left of data that was moved out

(* Places with plain accesses: the data of a node; and its next, which is   *)
(* reset by pop and must be linked after that.                              *)
DataOf(n)  == <<"data", n>>
LinkOf(n)  == <<"next", n>>
Places     == {"data", "next"} \X Nodes
HeadAtomic == <<"head", NoNode>>
Atomics    == {HeadAtomic} \cup {LinkOf(n) : n \in Nodes}

VARIABLES
  tail,      \* tail_
  head,      \* head_
  next,      \* Node::next
  data,      \* Node::data
  alive,     \* the nodes allocated
  holder,    \* node_ of the Holder variable of each thread
  pc,        \* where each thread is
  node,      \* the node that a thread pushes, or that pop_node took out
  old,       \* old_head of each thread
  order,     \* history: the separator and the nodes behind it, in the order
             \* of their exchanges
  seen, rel  \* happens-before between plain accesses (MemoryOrder)

vars == <<tail, head, next, data, alive, holder, pc, node, old, order, seen, rel>>

TypeOK ==
  /\ tail \in Nodes
  /\ head \in Nodes
  /\ next \in [Nodes -> Nodes \cup {NoNode}]
  /\ data \in [Nodes -> Elements \cup {NoData}]
  /\ alive \subseteq Nodes
  /\ holder \in [Threads -> Nodes \cup {NoNode}]
  /\ pc \in [Threads -> {"idle", "exchange", "link", "move", "destroy", "gone"}]
  /\ \A r \in Releasers : pc[r] \in {"idle", "exchange", "link"}
  /\ node \in [Threads -> Nodes \cup {NoNode}]
  /\ old \in [Threads -> Nodes \cup {NoNode}]
  /\ order \in Seq(Nodes)
  /\ seen \in [Threads -> SUBSET Places]
  /\ rel \in [Atomics -> SUBSET Places]

(* After the constructor and init( InitCount ), before the threads start. *)
Init ==
  /\ tail = 1
  /\ head = InitCount + 1
  /\ next = [n \in Nodes |-> IF n <= InitCount THEN n + 1 ELSE NoNode]
  /\ data = [n \in Nodes |-> IF n <= InitCount + 1 THEN n - 1 ELSE NoData]
  /\ alive = 1 .. InitCount + 1
  /\ holder = [t \in Threads |-> NoNode]
  /\ pc = [t \in Threads |-> "idle"]
  /\ node = [t \in Threads |-> NoNode]
  /\ old = [t \in Threads |-> NoNode]
  /\ order = [i \in 1 .. InitCount + 1 |-> i]
  /\ seen = [t \in Threads |-> Places]
  /\ rel = [a \in Atomics |-> {}]

Goto(t, label) == pc' = [pc EXCEPT ![t] = label]

(* holder = Holder( this, n ): the move assignment swaps, and the temporary *)
(* dies with what the variable held; its destructor pushes that node.       *)
Assign(t, n) ==
  /\ holder' = [holder EXCEPT ![t] = n]
  /\ node' = [node EXCEPT ![t] = holder[t]]
  /\ Goto(t, IF holder[t] = NoNode THEN "idle" ELSE "exchange")

-----------------------------------------------------------------------------
(* Holder *)

(* holder = pool.create( args ): the node is new. *)
Create(t) ==
  /\ pc[t] = "idle"
  /\ pc[Consumer] \notin {"destroy", "gone"}
  /\ LET n == Cardinality(alive) + 1
     IN
       /\ n \in Nodes
       /\ alive' = alive \cup {n}
       /\ data' = [data EXCEPT ![n] = n - 1]
       /\ next' = [next EXCEPT ![n] = NoNode]
       /\ seen' = Touch(Touch(seen, t, DataOf(n)), t, LinkOf(n))
       /\ rel' = Forget(Forget(rel, DataOf(n)), LinkOf(n))
       /\ Assign(t, n)
  /\ UNCHANGED <<tail, head, old, order>>

(* The holder of t is moved to one of u, through some queue that            *)
(* synchronizes u with t; operator = swaps, so t gets what u had in its     *)
(* holder, if anything, and is synchronized with u for that.                *)
Move(t, u) ==
  /\ t # u
  /\ pc[t] = "idle" /\ pc[u] = "idle"
  /\ holder[t] # NoNode
  /\ holder' = [holder EXCEPT ![t] = holder[u], ![u] = holder[t]]
  /\ seen' = [seen EXCEPT ![t] = IF holder[u] = NoNode THEN @ ELSE @ \cup seen[u],
                         ![u] = @ \cup seen[t]]
  /\ UNCHANGED <<tail, head, next, data, alive, pc, node, old, order, rel>>

(* The owner of a holder uses the data. *)
Use(t) ==
  /\ pc[t] = "idle"
  /\ holder[t] # NoNode
  /\ seen' = Touch(seen, t, DataOf(holder[t]))
  /\ rel' = Forget(rel, DataOf(holder[t]))
  /\ UNCHANGED <<tail, head, next, data, alive, holder, pc, node, old, order>>

DropTwice(t) ==                        \* mutant: the holder keeps its node
  /\ pc[t] = "idle"
  /\ holder[t] # NoNode
  /\ node' = [node EXCEPT ![t] = holder[t]]
  /\ Goto(t, "exchange")
  /\ UNCHANGED <<tail, head, next, data, alive, holder, old, order, seen, rel>>

(* ~Holder *)
Drop(t) ==
  /\ pc[t] = "idle"
  /\ holder[t] # NoNode
  /\ Assign(t, NoNode)
  /\ UNCHANGED <<tail, head, next, data, alive, old, order, seen, rel>>

-----------------------------------------------------------------------------
(* push_node *)

ExchangeRelaxed(t) ==                  \* mutant: memory_order_relaxed
  UNCHANGED <<seen, rel>>

ExchangeOrder(t) ==
  /\ seen' = Acquire(seen, t, rel[HeadAtomic])
  /\ rel' = RmwRelease(rel, HeadAtomic, seen'[t])

(* head_.exchange( node, acq_rel ) *)
PushExchange(t) ==
  /\ pc[t] = "exchange"
  /\ old' = [old EXCEPT ![t] = head]
  /\ head' = node[t]
  /\ order' = Append(order, node[t])
  /\ ExchangeOrder(t)
  /\ Goto(t, "link")
  /\ UNCHANGED <<tail, next, data, alive, holder, node>>

LinkForgotten(t) ==                    \* mutant: the former head is not linked
  /\ pc[t] = "link"
  /\ node' = [node EXCEPT ![t] = NoNode]
  /\ old' = [old EXCEPT ![t] = NoNode]
  /\ Goto(t, "idle")
  /\ UNCHANGED <<tail, head, next, data, alive, holder, order, seen, rel>>

(* old_head->next.store( node, release ) *)
PushLink(t) ==
  /\ pc[t] = "link"
  /\ next' = [next EXCEPT ![old[t]] = node[t]]
  /\ rel' = StoreRelease(rel, LinkOf(old[t]), seen[t])
  /\ node' = [node EXCEPT ![t] = NoNode]
  /\ old' = [old EXCEPT ![t] = NoNode]
  /\ Goto(t, "idle")
  /\ UNCHANGED <<tail, head, data, alive, holder, order, seen>>

-----------------------------------------------------------------------------
(* pop, by the consumer *)

LinkKept  == next' = next              \* mutant: load instead of exchange
LinkReset == next' = [next EXCEPT ![tail] = NoNode]

SeparatorUnchecked ==                  \* mutant: nullptr is taken for a node
  /\ LinkReset
  /\ tail' = next[tail]
  /\ order' = Tail(order)
  /\ seen' = Touch(Acquire(seen, Consumer, rel[LinkOf(tail)]), Consumer, LinkOf(tail))
  /\ rel' = Forget(rel, LinkOf(tail))

(* tail_->next.exchange( nullptr, acquire ) returns a node: swap( tail_, .. ) *)
TakeSeparator == next[tail] # NoNode /\ SeparatorUnchecked

PopTake ==
  /\ pc[Consumer] = "idle"
  /\ TakeSeparator
  /\ node' = [node EXCEPT ![Consumer] = tail]
  /\ Goto(Consumer, "move")
  /\ UNCHANGED <<head, data, alive, holder, old>>

(* It returns nullptr: an empty holder is assigned. *)
PopFail ==
  /\ pc[Consumer] = "idle"
  /\ next[tail] = NoNode
  /\ holder[Consumer] # NoNode
  /\ Assign(Consumer, NoNode)
  /\ UNCHANGED <<tail, head, next, data, alive, old, order, seen, rel>>

DataForgotten == data' = data          \* mutant: the data stays where it is

DataMoved ==
  data' = [data EXCEPT ![node[Consumer]] = data[tail], ![tail] = NoData]

(* node->data = std::move( tail_->data ), and the holder is assigned *)
PopMove ==
  /\ pc[Consumer] = "move"
  /\ DataMoved
  /\ seen' = Touch(Touch(seen, Consumer, DataOf(tail)), Consumer, DataOf(node[Consumer]))
  /\ rel' = Forget(Forget(rel, DataOf(tail)), DataOf(node[Consumer]))
  /\ Assign(Consumer, node[Consumer])
  /\ UNCHANGED <<tail, head, next, alive, old, order>>

-----------------------------------------------------------------------------
(* ~ScmrPool, when no holder is left and no thread is inside the pool *)

DestroyBegin ==
  /\ \A t \in Threads : pc[t] = "idle" /\ holder[t] = NoNode
  /\ Goto(Consumer, "destroy")
  /\ UNCHANGED <<tail, head, next, data, alive, holder, node, old, order, seen, rel>>

(* while( n = pop_node( ) ) delete n; *)
DestroyNext ==
  /\ pc[Consumer] = "destroy"
  /\ TakeSeparator
  /\ alive' = alive \ {tail}
  /\ data' = [data EXCEPT ![tail] = NoData, ![next[tail]] = NoData]
  /\ UNCHANGED <<head, holder, pc, node, old>>

(* delete tail_ *)
DestroyLast ==
  /\ pc[Consumer] = "destroy"
  /\ next[tail] = NoNode
  /\ alive' = alive \ {tail}
  /\ order' = << >>
  /\ Goto(Consumer, "gone")
  /\ UNCHANGED <<tail, head, next, data, holder, node, old, seen, rel>>

-----------------------------------------------------------------------------
Push(t) == PushExchange(t) \/ PushLink(t)
Pop     == PopTake \/ PopFail \/ PopMove
Destroy == DestroyBegin \/ DestroyNext \/ DestroyLast

Terminating == pc[Consumer] = "gone" /\ UNCHANGED vars

Next ==
  \/ \E t \in Threads : Create(t) \/ Use(t) \/ Drop(t) \/ Push(t)
  \/ \E t, u \in Threads : Move(t, u)
  \/ Pop
  \/ Destroy
  \/ Terminating

Spec == Init /\ [][Next]_vars

(* A thread inside a destructor or inside pop is scheduled again, and the   *)
(* consumer keeps calling pop until it destroys the pool.                   *)
Fairness ==
  /\ \A t \in Threads : WF_vars(Push(t))
  /\ WF_vars(PopTake \/ PopMove)
  /\ WF_vars(DestroyNext \/ DestroyLast)

FairSpec == Spec /\ Fairness
-----------------------------------------------------------------------------
(* Properties *)

Held   == {t \in Threads : holder[t] # NoNode}
Moving == {t \in Threads : pc[t] \in {"exchange", "move"}}

(* Every node is in one place: in the line, in one holder, or in the hands *)
(* of the thread that takes it out or puts it back.  None is lost, none is *)
(* lent twice or released twice, and the destructor deletes all of them.   *)
NodesConserved ==
  /\ alive = {order[i] : i \in 1 .. Len(order)} \cup {holder[t] : t \in Held}
                                                 \cup {node[t] : t \in Moving}
  /\ Cardinality(alive) = Len(order) + Cardinality(Held) + Cardinality(Moving)

(* The line leads from tail_ to head_, through all the nodes in the order  *)
(* of the exchanges, but for the gaps that threads between exchange and    *)
(* store are about to close; and a node outside it has no successor (the   *)
(* assertion of push_node).                                                *)
LineIntact ==
  /\ order # << >> => order[1] = tail /\ order[Len(order)] = head
  /\ \A i \in 1 .. Len(order) - 1 :
       \/ next[order[i]] = order[i + 1]
       \/ /\ next[order[i]] = NoNode
          /\ \E t \in Threads :
               pc[t] = "link" /\ old[t] = order[i] /\ node[t] = order[i + 1]
  /\ \A n \in alive :
       n = head \/ (\A i \in 1 .. Len(order) : order[i] # n) => next[n] = NoNode

(* What a holder's owner did with the data happened before the next owner  *)
(* has it, and before pop moves it; a node is linked after its link was    *)
(* constructed or reset.                                                   *)
AccessesOrdered ==
  /\ \A t \in Threads :
       /\ holder[t] # NoNode => DataOf(holder[t]) \in seen[t]
       /\ pc[t] = "link" => LinkOf(old[t]) \in seen[t]
  /\ pc[Consumer] = "move" => {DataOf(tail), DataOf(node[Consumer])} \subseteq seen[Consumer]

(* All together: pops, releases and the destructor leave a line that the    *)
(* next ones can use, lose no node and race for none (scmr_pool.h:30-73).   *)
NodesIntact == NodesConserved /\ LineIntact /\ AccessesOrdered

(* The pool implements the abstract one.  Its elements are the data: they  *)
(* are lent to one holder at a time, in the order of their releases, and   *)
(* come back intact although they change the node.                         *)
Line == [i \in 1 .. Len(order) - 1 |-> data[order[i + 1]]]

Lent == {data[holder[t]] : t \in Held}
          \cup {data[IF pc[t] = "move" THEN tail ELSE node[t]] : t \in Moving}

EP == INSTANCE ElementPool WITH
        line  <- Line,
        ready <- {Line[i] : i \in {k \in 1 .. Len(order) - 1 : next[order[k]] # NoNode}},
        lent  <- Lent

ImplementsElementPool == EP!Spec

(* An element that is released is lent again, however the releasers        *)
(* interleave, unless the pool is destroyed.                               *)
ReleasedReturns ==
  \A e \in Elements :
    (\E i \in 1 .. Len(Line) : Line[i] = e)
      ~> ~(\E i \in 1 .. Len(Line) : Line[i] = e)
=============================================================================
