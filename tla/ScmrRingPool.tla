---------------------------- MODULE ScmrRingPool ----------------------------
(***************************************************************************)
(* concpool::ScmrRingPool (scmr_ring_pool.h): a ring with a node for every *)
(* element.  A release takes the next ticket and stores the pointer in the *)
(* node of the ticket; pop exchanges the pointer of the node at cnum_ with *)
(* nullptr.  No release looks whether its node is empty.                   *)
(***************************************************************************)
EXTENDS Integers, Functions, MemoryOrder

CONSTANTS
  Nodes,       \* the addresses of elements
  count,       \* how many of them init creates
  NoNode,      \* nullptr
  Releasers,   \* the threads that call release
  CounterMod   \* 2^w, the number of values of size_type

VARIABLES
  ptr,         \* Node::ptr of each node of the ring
  cnum, rnum,  \* cnum_ and rnum_
  ticket,      \* what fetch_add returned to each releaser
  seen, rel    \* happens-before (MemoryOrder)

Slots     == 0 .. count - 1
PtrOf(s)  == <<"ptr", s>>
Atomics   == {PtrOf(s) : s \in Slots}

TypeOK ==
  /\ ptr \in [Slots -> Nodes \cup {NoNode}]
  /\ cnum \in 0 .. CounterMod - 1
  /\ rnum \in 0 .. CounterMod - 1
  /\ ticket \in [Releasers -> 0 .. CounterMod - 1]

(* The allocator may have given any addresses. *)
Init ==
  /\ ptr \in Injection(Slots, Nodes)
  /\ cnum = 0
  /\ rnum = 0
  /\ ticket = [r \in Releasers |-> 0]

At(i)  == i % count
Inc(i) == (i + 1) % CounterMod
Found  == ptr[At(cnum)]

-----------------------------------------------------------------------------
PopLoad == ptr                     \* mutant: load instead of exchange
PopTake == [ptr EXCEPT ![At(cnum)] = NoNode]

(* pop, by thread t, of an element; it changes nothing if it finds none.    *)
(* What it acquired nobody else will: the pointer is stored again before.   *)
Pop(t) ==
  /\ Found # NoNode
  /\ ptr' = PopTake
  /\ cnum' = Inc(cnum)
  /\ seen' = Acquire(seen, t, rel[PtrOf(At(cnum))])
  /\ rel' = StoreRelaxed(rel, PtrOf(At(cnum)), {})
  /\ UNCHANGED <<rnum, ticket>>

(* release by thread r: rnum_.fetch_add( 1, relaxed ) ... *)
ReleaseTicket(r) ==
  /\ ticket' = [ticket EXCEPT ![r] = rnum]
  /\ rnum' = Inc(rnum)
  /\ UNCHANGED <<ptr, cnum, seen, rel>>

(* ... and node.ptr.store( n, release ) *)
ReleaseStore(n, r) ==
  /\ ptr' = [ptr EXCEPT ![At(ticket[r])] = n]
  /\ rel' = StoreRelease(rel, PtrOf(At(ticket[r])), seen[r])
  /\ ticket' = [ticket EXCEPT ![r] = 0]
  /\ UNCHANGED <<cnum, rnum, seen>>

(* What the destructor finds: nullptr too, if an element is lent.           *)
Destroyed == {ptr[s] : s \in Slots}
=============================================================================
