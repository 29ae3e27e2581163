------------------------------- MODULE ScsrPool -------------------------------
(***************************************************************************)
(* concpool::ScsrPool (scsr_pool.h), for each of a set of pools: a line of *)
(* nodes between one thread that pops and one thread that releases.  The   *)
(* node at head_ always stays in the line, so that a pool of n elements    *)
(* lends n - 1 of them.                                                    *)
(*                                                                         *)
(* The module has the operations of a pool; the specification that uses it *)
(* says which threads call them, and with what.                            *)
(***************************************************************************)
EXTENDS Integers, FiniteSets, Functions, MemoryOrder

CONSTANTS
  Pools,
  Nodes,        \* the addresses of all nodes
  First, Last,  \* the first and the last node of each init, in the order of
                \* their creation; one at least, or while( --count ) of init
                \* does not end
  NoNode        \* nullptr

VARIABLES
  tail, head,  \* tail_ and head_ of each pool
  next,        \* Node::next
  seen, rel    \* happens-before (MemoryOrder)

LinkOf(n) == <<"next", n>>
Atomics   == {LinkOf(n) : n \in Nodes}

TypeOK ==
  /\ tail \in [Pools -> Nodes]
  /\ head \in [Pools -> Nodes]
  /\ next \in [Nodes -> Nodes \cup {NoNode}]

(* The addresses in the order of the creation of the nodes: malloc may      *)
(* have returned them in any.                                               *)
Creations == Bijection(1 .. Cardinality(Nodes), Nodes)

(* Every init makes a line of its nodes: the first one, and push_node of    *)
(* the others.                                                              *)
InitWith(node) ==
  /\ tail = [i \in Pools |-> node[First[i]]]
  /\ head = [i \in Pools |-> node[Last[i]]]
  /\ next = [n \in Nodes |->
               LET k == CHOOSE j \in DOMAIN node : node[j] = n
               IN  IF \E i \in Pools : k = Last[i] THEN NoNode ELSE node[k + 1]]

Init == \E node \in Creations : InitWith(node)

-----------------------------------------------------------------------------
(* There is a node behind tail_: tail_->next.exchange returns it.           *)
Lendable(i) == next[tail[i]] # NoNode

LinkKept(i)  == next                                        \* mutant: load
LinkReset(i) == [next EXCEPT ![tail[i]] = NoNode]

(* What is left if pop_node does not look at what it exchanged.  The        *)
(* exchange has acquire semantics; what it acquired nobody else will, for   *)
(* the link is stored again before another thread loads it.                 *)
PopUnchecked(i, t) ==
  /\ tail' = [tail EXCEPT ![i] = next[tail[i]]]
  /\ next' = LinkReset(i)
  /\ seen' = Acquire(seen, t, rel[LinkOf(tail[i])])
  /\ rel' = StoreRelaxed(rel, LinkOf(tail[i]), {})
  /\ UNCHANGED head

(* pop_node, by thread t: tail_ is lent, and its successor is tail_ now.    *)
(* If the exchange returns nullptr, so does pop, and nothing changes.       *)
Pop(i, t) == Lendable(i) /\ PopUnchecked(i, t)

LinkRelaxed(i, t) == StoreRelaxed(rel, LinkOf(head[i]), seen[t])   \* mutant
LinkOrder(i, t)   == StoreRelease(rel, LinkOf(head[i]), seen[t])

(* push_node, by thread t: the link of the former head_, with release       *)
(* semantics, and head_, which only the releaser looks at.                  *)
Release(i, n, t) ==
  /\ next' = [next EXCEPT ![head[i]] = n]
  /\ rel' = LinkOrder(i, t)
  /\ head' = [head EXCEPT ![i] = n]
  /\ UNCHANGED <<tail, seen>>

(* destroy_node_chain( tail_ ): what the destructor finds.                  *)
Chain(i) ==
  LET chain[k \in 1 .. Cardinality(Nodes)] ==
        IF k = 1 THEN {tail[i]}
        ELSE chain[k - 1] \cup ({next[n] : n \in chain[k - 1]} \ {NoNode})
  IN  chain[Cardinality(Nodes)]
=============================================================================
