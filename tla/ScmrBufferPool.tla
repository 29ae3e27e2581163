--------------------------- MODULE ScmrBufferPool ---------------------------
(***************************************************************************)
(* concpool::ScmrBufferPool (scmr_buffer_pool.h), for each of a set of     *)
(* pools: the line of a ScsrPool, but any thread releases.  Therefore      *)
(* head_ is atomic, a release is two steps, and the line has a gap in      *)
(* between.  The header of a node names its pool: release needs nothing    *)
(* but the pointer.                                                        *)
(***************************************************************************)
EXTENDS Integers, MemoryOrder

CONSTANTS
  Pools, Nodes, First, Last, NoNode,   \* as in ScsrPool
  Releasers                            \* the threads that call release

VARIABLES
  tail, head, next,   \* tail_, head_ and NodeHeader::next
  owner,              \* NodeHeader::pool
  old,                \* old_head of each releaser
  seen, rel           \* happens-before (MemoryOrder)

(* pop_node and the loop of init are the code of ScsrPool.                  *)
Line == INSTANCE ScsrPool

HeadOf(i) == <<"head", i>>
Atomics   == Line!Atomics \cup {HeadOf(i) : i \in Pools}

TypeOK ==
  /\ Line!TypeOK
  /\ owner \in [Nodes -> Pools]
  /\ old \in [Releasers -> Nodes \cup {NoNode}]

Init ==
  /\ \E node \in Line!Creations :
       /\ Line!InitWith(node)
       /\ owner = [n \in Nodes |->
                     CHOOSE i \in Pools : \E k \in First[i] .. Last[i] : node[k] = n]
  /\ old = [r \in Releasers |-> NoNode]

-----------------------------------------------------------------------------
Pop(i, t) == Line!Pop(i, t) /\ UNCHANGED <<owner, old>>

HomeAnywhere(n, r) == r            \* mutant: the releaser's own pool
Home(n, r) == owner[n]             \* hdr->pool

(* release( n ) by thread r: head_.exchange( n, acq_rel ) of the pool of n. *)
ReleaseExchange(n, r) ==
  LET i == Home(n, r)
  IN  /\ old' = [old EXCEPT ![r] = head[i]]
      /\ head' = [head EXCEPT ![i] = n]
      /\ seen' = Acquire(seen, r, rel[HeadOf(i)])
      /\ rel' = RmwRelease(rel, HeadOf(i), seen'[r])
      /\ UNCHANGED <<tail, next, owner>>

LinkRelaxed(n, r) == StoreRelaxed(rel, Line!LinkOf(old[r]), seen[r])   \* mutant
LinkOrder(n, r)   == StoreRelease(rel, Line!LinkOf(old[r]), seen[r])

(* old_head->next.store( n, release ) closes the gap. *)
ReleaseLink(n, r) ==
  /\ next' = [next EXCEPT ![old[r]] = n]
  /\ rel' = LinkOrder(n, r)
  /\ old' = [old EXCEPT ![r] = NoNode]
  /\ UNCHANGED <<tail, head, owner, seen>>

(* What the destructors find: free_node_chain is destroy_node_chain.        *)
Destroyed == UNION {Line!Chain(i) : i \in Pools}
=============================================================================
