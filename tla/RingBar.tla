------------------------------- MODULE RingBar -------------------------------
(***************************************************************************)
(* concur::RingBar (ring_bar.h), and ScmpRingCollection, which gives its   *)
(* operations other names: a ring whose elements are not copied in and out *)
(* but lent.  Visitors fetch an element, use it in place and release it;   *)
(* the master then fetches it, uses it and releases it back to the ring.   *)
(*                                                                         *)
(* Between fetch and release the element belongs to the thread, which may  *)
(* "do whatever it wants" with it: one access that writes, VisitorUse and  *)
(* MasterUse, stands for that.  master_fetch hands out the next element    *)
(* while earlier ones are still in use, and master_release ignores which   *)
(* element it is given.                                                    *)
(*                                                                         *)
(* head and tail count the increments of head_ and tail_ (see the module   *)
(* ScmpRingArray); At() reduces what the program's variable holds.         *)
(***************************************************************************)
EXTENDS Integers, Sequences, FiniteSets, SequencesExt, MemoryOrder

CONSTANTS
  Visitors,     \* the threads that call visitor_fetch and visitor_release
  Master,       \* the thread that calls the master_ operations
  Size,         \* the size given to init
  CounterMod,   \* 2^w, w the width of size_type
  MaxVisits,    \* bound: how many elements each visitor fetches
  MaxHeld,      \* bound: how many elements the master uses at a time
  AnyOrder,     \* may the master release an element fetched after one that
                \* it still uses
  SkipHolding   \* may it skip while it uses elements

ASSUME ConstantsAssumption ==
  /\ IsFiniteSet(Visitors)
  /\ Master \notin Visitors
  /\ Size \in Nat \ {0}
  /\ CounterMod \in Nat \ {0}
  /\ Size <= CounterMod
  /\ MaxVisits \in Nat
  /\ MaxHeld \in Nat \ {0}
  /\ AnyOrder \in BOOLEAN
  /\ SkipHolding \in BOOLEAN

Threads  == Visitors \cup {Master}
Slots    == 0 .. Size - 1
Elements == Visitors \X (1 .. MaxVisits)   \* what <<v, k>>: the k-th visit leaves
Blank    == <<Master, 0>>                  \* data( ), and what the master leaves

FreeCount  == <<"free_count", 0>>
StateOf(s) == <<"state", s>>
Atomics    == {FreeCount} \cup {StateOf(s) : s \in Slots}

VARIABLES
  free_count,  \* free_count_: free elements, less the failing fetches in flight
  head,        \* head_: elements fetched by visitors
  tail,        \* tail_: elements fetched or skipped by the master
  state,       \* Node::state of each slot
  data,        \* Node::data of each slot
  pc,          \* where each thread is
  index,       \* what the latest head_.fetch_add of a visitor returned
  visits,      \* how many elements each visitor released
  held,        \* the elements the master uses, oldest first: [slot, used]
  claims,      \* history: the visits in the order of visitor_fetch
  served,      \* history: what the master found in the elements, in its order
  seen, rel    \* happens-before between the accesses to data (MemoryOrder)

vars == <<free_count, head, tail, state, data, pc, index, visits, held,
          claims, served, seen, rel>>

At(i) == (i % CounterMod) % Size

Visit(v) == <<v, visits[v] + 1>>

TypeOK ==
  /\ free_count \in Int
  /\ head \in Nat
  /\ tail \in Nat
  /\ state \in [Slots -> {"FREE", "READY"}]
  /\ data \in [Slots -> Elements \cup {Blank}]
  /\ pc \in [Threads -> {"idle", "undo", "claim", "use", "release", "count", "skip"}]
  /\ \A v \in Visitors : pc[v] \notin {"count", "skip"}
  /\ pc[Master] \in {"idle", "count", "skip"}
  /\ index \in [Visitors -> Nat]
  /\ visits \in [Visitors -> 0 .. MaxVisits]
  /\ held \in Seq([slot : Slots, used : BOOLEAN])
  /\ Len(held) <= MaxHeld
  /\ claims \in Seq(Elements)
  /\ served \in Seq(Elements \cup {Blank})
  /\ seen \in [Threads -> SUBSET Slots]
  /\ rel \in [Atomics -> SUBSET Slots]

(* After init( Size ), and whatever the application stored through at( ). *)
Init ==
  /\ free_count = Size
  /\ head = 0
  /\ tail = 0
  /\ state = [s \in Slots |-> "FREE"]
  /\ data = [s \in Slots |-> Blank]
  /\ pc = [t \in Threads |-> "idle"]
  /\ index = [v \in Visitors |-> 0]
  /\ visits = [v \in Visitors |-> 0]
  /\ held = << >>
  /\ claims = << >>
  /\ served = << >>
  /\ seen = [t \in Threads |-> Slots]
  /\ rel = [a \in Atomics |-> {}]

Goto(t, label) == pc' = [pc EXCEPT ![t] = label]

-----------------------------------------------------------------------------
(* visitor_fetch *)

(* free_count_.fetch_sub( 1, acquire ), whatever it returned *)
TakeToken(v) ==
  /\ pc[v] = "idle"
  /\ visits[v] < MaxVisits
  /\ free_count' = free_count - 1
  /\ seen' = Acquire(seen, v, rel[FreeCount])
  /\ UNCHANGED <<head, tail, state, data, index, visits, held, claims, served, rel>>

NoTokenOffByOne == free_count < 0      \* mutant

NoToken == free_count <= 0

FetchReserve(v) ==
  /\ ~NoToken
  /\ TakeToken(v)
  /\ Goto(v, "claim")

FetchReject(v) ==
  /\ NoToken
  /\ TakeToken(v)
  /\ Goto(v, "undo")

FetchUndoForgotten(v) ==               \* mutant: the token is not put back
  /\ pc[v] = "undo"
  /\ Goto(v, "idle")
  /\ UNCHANGED <<free_count, head, tail, state, data, index, visits, held, claims,
                 served, seen, rel>>

(* free_count_.fetch_add( 1, relaxed ); return nullptr *)
FetchUndo(v) ==
  /\ pc[v] = "undo"
  /\ free_count' = free_count + 1
  /\ Goto(v, "idle")
  /\ UNCHANGED <<head, tail, state, data, index, visits, held, claims, served, seen, rel>>

TakeTicket(v) ==
  /\ pc[v] = "claim"
  /\ head' = head + 1
  /\ claims' = Append(claims, Visit(v))
  /\ Goto(v, "use")
  /\ UNCHANGED <<free_count, tail, state, data, visits, held, served, seen, rel>>

FetchClaimPrevious(v) ==               \* mutant: the ticket before its own
  TakeTicket(v) /\ index' = [index EXCEPT ![v] = head - 1]

(* head_.fetch_add( 1, relaxed ) returns the ticket; return the element *)
FetchClaim(v) == TakeTicket(v) /\ index' = [index EXCEPT ![v] = head]

(* The caller's use of the element. *)
VisitorUse(v) ==
  /\ pc[v] = "use"
  /\ data' = [data EXCEPT ![At(index[v])] = Visit(v)]
  /\ seen' = Touch(seen, v, At(index[v]))
  /\ rel' = Forget(rel, At(index[v]))
  /\ Goto(v, "release")
  /\ UNCHANGED <<free_count, head, tail, state, index, visits, held, claims, served>>

StateStoreRelaxed(v) ==                \* mutant: memory_order_relaxed
  /\ state' = [state EXCEPT ![At(index[v])] = "READY"]
  /\ rel' = StoreRelaxed(rel, StateOf(At(index[v])), seen[v])

(* state.store( READY, release ) *)
StateStore(v) ==
  /\ state' = [state EXCEPT ![At(index[v])] = "READY"]
  /\ rel' = StoreRelease(rel, StateOf(At(index[v])), seen[v])

(* visitor_release *)
VisitorRelease(v) ==
  /\ pc[v] = "release"
  /\ StateStore(v)
  /\ visits' = [visits EXCEPT ![v] = @ + 1]
  /\ Goto(v, "idle")
  /\ UNCHANGED <<free_count, head, tail, data, index, held, claims, served, seen>>

-----------------------------------------------------------------------------
(* master_fetch *)

FindReady ==
  /\ state[At(tail)] = "READY"
  /\ served' = Append(served, data[At(tail)])
  /\ UNCHANGED <<head, data, index, visits, claims>>

LoadReady == FindReady /\ state' = state   \* mutant: the state stays READY

(* What an exchange( FREE ) that finds READY does; one that does not stores *)
(* FREE over FREE.                                                          *)
ExchangeReady == FindReady /\ state' = [state EXCEPT ![At(tail)] = "FREE"]

MasterFetchUnchecked ==                \* mutant: the state is not looked at
  /\ pc[Master] = "idle"
  /\ Len(held) < MaxHeld
  /\ served' = Append(served, data[At(tail)])
  /\ tail' = tail + 1
  /\ held' = Append(held, [slot |-> At(tail), used |-> FALSE])
  /\ UNCHANGED <<free_count, head, state, data, pc, index, visits, claims, seen, rel>>

MasterFetch ==
  /\ pc[Master] = "idle"
  /\ Len(held) < MaxHeld
  /\ ExchangeReady
  /\ seen' = Acquire(seen, Master, rel[StateOf(At(tail))])
  /\ tail' = tail + 1
  /\ held' = Append(held, [slot |-> At(tail), used |-> FALSE])
  /\ UNCHANGED <<free_count, pc, rel>>

(* The caller's use of the i-th element it holds. *)
MasterUse(i) ==
  /\ pc[Master] = "idle"
  /\ ~held[i].used
  /\ held' = [held EXCEPT ![i].used = TRUE]
  /\ data' = [data EXCEPT ![held[i].slot] = Blank]
  /\ seen' = Touch(seen, Master, held[i].slot)
  /\ rel' = Forget(rel, held[i].slot)
  /\ UNCHANGED <<free_count, head, tail, state, pc, index, visits, claims, served>>

CountAddTwice ==                       \* mutant: the token is given back twice
  /\ free_count' = free_count + 2
  /\ rel' = RmwRelease(rel, FreeCount, seen[Master])

CountAddRelaxed ==                     \* mutant: memory_order_relaxed
  /\ free_count' = free_count + 1
  /\ rel' = RmwRelaxed(rel, FreeCount, seen[Master])

(* free_count_.fetch_add( 1, release ) *)
CountAdd ==
  /\ free_count' = free_count + 1
  /\ rel' = RmwRelease(rel, FreeCount, seen[Master])

(* master_release( the i-th element ).  Its argument is not used: no state   *)
(* of the node tells who owns it.                                            *)
MasterRelease(i) ==
  /\ pc[Master] = "idle"
  /\ held[i].used
  /\ AnyOrder \/ i = 1
  /\ CountAdd
  /\ held' = RemoveAt(held, i)
  /\ UNCHANGED <<head, tail, state, data, pc, index, visits, claims, served, seen>>

-----------------------------------------------------------------------------
(* master_skip_all: its loop, one iteration in two steps *)

(* state.exchange( FREE, relaxed ) == READY *)
SkipTake ==
  /\ pc[Master] \in {"idle", "skip"}
  /\ SkipHolding \/ held = << >>
  /\ ExchangeReady
  /\ Goto(Master, "count")
  /\ UNCHANGED <<free_count, tail, held, seen, rel>>

SkipCountStuck ==                      \* mutant: tail_ is not advanced
  /\ pc[Master] = "count"
  /\ free_count' = free_count + 1
  /\ Goto(Master, "skip")
  /\ UNCHANGED <<head, tail, state, data, index, visits, held, claims, served, seen, rel>>

(* free_count_.fetch_add( 1, relaxed ); ++tail_, which only the master uses *)
SkipCount ==
  /\ pc[Master] = "count"
  /\ free_count' = free_count + 1
  /\ tail' = tail + 1
  /\ Goto(Master, "skip")
  /\ UNCHANGED <<head, state, data, index, visits, held, claims, served, seen, rel>>

(* the exchange found FREE: the loop ends *)
SkipEnd ==
  /\ pc[Master] = "skip"
  /\ state[At(tail)] # "READY"
  /\ Goto(Master, "idle")
  /\ UNCHANGED <<free_count, head, tail, state, data, index, visits, held, claims,
                 served, seen, rel>>

-----------------------------------------------------------------------------
Attempt(v) == FetchReserve(v) \/ FetchReject(v)
Finish(v)  == FetchUndo(v) \/ FetchClaim(v) \/ VisitorUse(v) \/ VisitorRelease(v)

MasterReturn == \E i \in 1 .. Len(held) : MasterUse(i) \/ MasterRelease(i)
MasterSkip   == SkipTake \/ SkipCount \/ SkipEnd

Done ==
  /\ \A v \in Visitors : visits[v] = MaxVisits
  /\ pc[Master] = "idle"
  /\ held = << >>
  /\ tail = head

Terminating == Done /\ UNCHANGED vars

Next ==
  \/ \E v \in Visitors : Attempt(v) \/ Finish(v)
  \/ MasterFetch
  \/ MasterReturn
  \/ MasterSkip
  \/ Terminating

Spec == Init /\ [][Next]_vars

(* Every visitor releases what it fetched, as ring_bar.h asks; the master    *)
(* keeps fetching, or skips, and gives back what it holds.                   *)
Fairness ==
  /\ \A v \in Visitors : WF_vars(Finish(v))
  /\ WF_vars(MasterFetch \/ MasterReturn \/ MasterSkip)

FairSpec == Spec /\ Fairness

-----------------------------------------------------------------------------
(* Properties *)

AtLabel(label) == {v \in Visitors : pc[v] = label}
Owners         == {v \in Visitors : pc[v] \in {"use", "release"}}

(* free_count_, the tickets, and what the master holds account for every   *)
(* element of the ring.                                                    *)
TokensConserved ==
  LET free == free_count + Cardinality(AtLabel("undo"))
  IN  /\ free >= 0
      /\ free + Cardinality(AtLabel("claim")) + (head - tail) + Len(held) = Size

(* An element fetched and not released belongs to one thread.              *)
(* (ring_bar.h: each thread obtains an element from the ring, do whatever  *)
(* it wants and release it afterward.)                                     *)
ElementExclusive ==
  /\ \A u, v \in Owners : u # v => At(index[u]) # At(index[v])
  /\ \A v \in Owners, i \in 1 .. Len(held) : At(index[v]) # held[i].slot
  /\ \A i, j \in 1 .. Len(held) : i # j => held[i].slot # held[j].slot

(* Both together: every element is in one place, however the skipping, the  *)
(* fetching and the failed attempts interleave (ring_bar.h:66-106).         *)
ElementsAccounted == TokensConserved /\ ElementExclusive

(* What the visitor did with an element happened before the master gets    *)
(* it: the accesses of the two are ordered by the state's release store    *)
(* and acquire exchange.                                                   *)
MasterOrdered ==
  \A i \in 1 .. Len(held) : held[i].slot \in seen[Master]

(* A visitor that fetches now acquires, with its token, the master's last  *)
(* access to every free element that the master used and released.  (Not   *)
(* of the elements it skipped, which master_skip_all gives back relaxed.)  *)
FreeElementsReleased ==
  \A v \in Visitors, k \in head .. tail - Len(held) + Size - 1 :
    data[At(k)] = Blank => At(k) \in seen[v] \cup rel[FreeCount]

(* Both together: plain accesses to an element are ordered whichever way   *)
(* it is handed over (ring_bar.h:70, 80, 89, 97).                          *)
HandoversOrdered == MasterOrdered /\ FreeElementsReleased

(* The master gets the elements in the order they were fetched by visitors *)
(* and each holds what its visitor left in it.                             *)
Line == SubSeq(claims, Len(served) + 1, Len(claims))

Unreleased == {Visit(v) : v \in Owners}

TQ == INSTANCE TicketQueue WITH
        Elements <- Elements,
        Capacity <- Size,
        line     <- Line,
        ready    <- {Line[i] : i \in 1 .. Len(Line)} \ Unreleased,
        taken    <- served

ImplementsTicketQueue == TQ!Spec

(* No element is stuck in the ring: what a visitor fetched, the master is   *)
(* given (or skips), if every thread releases what it obtained.             *)
ElementsServed ==
  \A e \in Elements :
    (\E i \in 1 .. Len(claims) : claims[i] = e)
      ~> (\E i \in 1 .. Len(served) : served[i] = e)
=============================================================================
