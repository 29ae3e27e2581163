# TLA+ models of concur and concpool

The repository holds two header-only C++11 libraries: `concurrency_queue/`
(namespace `concur`: containers that hand elements from thread to thread) and
`concurrent_pool/` (namespace `concpool`: pools that lend preallocated
elements to one consumer and take them back from other threads). This
directory specifies them in TLA+: TLC checks the specifications on small
instances, and TLAPS proves the most important results for every instance.
Names are the code's: SC/MC and SP/MP say how many consumers and producers,
SR/MR how many releasers.

## 1. The system

### Components, their state and operations

| component | state | operations | interaction |
|---|---|---|---|
| `ScmpRingArray` | nodes `{flag, data}`, token counter `pcounter_`, tickets `head_`, `tail_` | `push` (many threads), `pop` (one) | atomics only, no lock, no waiting |
| `RingBar`, `ScmpRingCollection` | nodes `{state, data}`, `free_count_`, `head_`, `tail_` | `visitor_fetch/release` (many), `master_fetch/release/skip_all` (one) | elements are lent, not copied |
| `ScmpQueue` | linked nodes, `head_`, atomic `tail_` | `push` (many), `pop` (one), destructor | heap nodes, freed by the consumer |
| `ScspList`, `ScmpList`, `McspList`, `McmpList` | linked nodes, a root, `fRead`, `fTail` | `emplace` (also deletes consumed nodes), `consume` | relaxed atomics; the M sides take a mutex |
| `ScspSeq`, `ScmpSeq`, `McmpSeq` | array, 64-bit counters | `emplace`, `consume`, `fillCount` | relaxed atomics; the M sides take a mutex |
| `ScspRingArray`, `ScspPtrRingArray` | array of flags or pointers, two private counters | `push`, `pop` | one thread each |
| `CondvarQueue`, `CondvarRingArray` | queue or ring, mutex, condition variable | `push`, `pop`, timed `pop`, `clear` | lock, wait with timeout |
| `Queue`, `RingArray`, `ContainerGrab` | queue or ring, mutex | `push`, `pop`, `clear`, `grab` | lock held across calls by a grab |
| `ScmrPool`, `Holder` | line of nodes, `tail_`, atomic `head_` | `pop`, `create` (consumer), destruction or move of a holder (any thread) | a holder's destructor gives the node back |
| `ScmrBufferPool` | the same line, nodes with a pool pointer | `pop`, static `release` | as above, without the data move |
| `ScsrPool` | the same line, plain `head_` | `pop`, `release` | one thread each |
| `ScmrOctopusPool` | R `ScsrPool`s, a round-robin index | `pop`, `release(i)` | composition |
| `ScmrRingPool` | ring of atomic pointers, two counters | `pop`, `release` | one consumer, many releasers; the ring of `mem_utils.h` |

`PtrRingPool` (`mt_ptr_ring_pool.h`) does not compile when instantiated and
has no behaviour. The test programs are loops around the containers; they say
how callers behave (retry a push that failed, pop until everything arrived).

### What is hard

* Every operation of the lock-free containers is several atomic steps, and a
  thread may stop between any two of them while the others go on, wrap round
  the ring and come back to its node.
* A failing `push` decrements a counter that other threads look at.
* `ScmpQueue` deletes nodes that producers may still point to, and the
  allocator gives their addresses out again.
* Plain data is handed over with acquire and release operations; some of the
  operations are relaxed.
* Ring tickets are unsigned counters that wrap, reduced modulo the size.
* The consumer of a container must not be blocked, or must be blocked only
  where the documentation says it is (an unpublished element, a torn queue).
* Failure and restart do not occur: nothing is persisted and no call is
  remote. Timeouts occur in the condition-variable containers only.

### What makes each component correct

Containers: what comes out is what went in, once, in the order in which
producers took their places; a node is used by one thread at a time; plain
accesses are ordered; capacity is neither lost nor exceeded; nothing stays
inside for ever; `pop` fails only for the documented reasons. Pools: a node
is in the pool or with exactly one holder; no node is lost; a released node
can be popped again. The file `PROJECT.json` lists the hazards line by line.

## 2. The modules

    MemoryOrder            happens-before: seen[thread], rel[atomic]
    TicketQueue            the abstract line every MP/SC container implements
    ScmpRingArray          scmp_ring_array.h   EXTENDS MemoryOrder, refines TicketQueue
    RingBar                ring_bar.h          EXTENDS MemoryOrder, refines TicketQueue
    ScmpQueue              scmp_queue.h        EXTENDS MemoryOrder, refines TicketQueue
    BoundedQueue           the abstract bounded queue of the other containers
    CondvarRingArray       condvar_queue.h     refines BoundedQueue
    LockedContainers       mt_containers.h, container_grab.h and CondvarQueue,
                           refines BoundedQueue
    GcList                 the four lists      refines BoundedQueue
    ScspSeq                scsp_seq.h          the seq without a mutex
    CountedSeq             mcmp_seq.h          refines ScspSeq and BoundedQueue
    ElementPool            the abstract pool
    ScmrPool               scmr_pool.h, pool_holder.h   refines ElementPool
    ScsrPool               scsr_pool.h, an array of pools
    ScmrOctopusPool        scmr_octopus_pool.h          Arm == INSTANCE ScsrPool
    ScmrBufferPool         scmr_buffer_pool.h, an array of pools,
                                                        Line == INSTANCE ScsrPool
    ScmrRingPool           scmr_ring_pool.h
    ScspRingArray          scsp_ring_array.h, an array of rings
    ScspPtrRingArray       scsp_ptr_ring_array.h, an array of rings
    Recycling              the program of the pool tests, over the three pools
                           (Octopus, Buffers, RingPool) and the two rings
                           (Ring, PtrRing), all of them INSTANCEs
    <module>Proofs         theorems about ScmpRingArray, RingBar, ScmpQueue, GcList,
                           ScmrPool, CondvarRingArray, LockedContainers, CountedSeq
    MC<module>             model values for TLC

**TicketQueue** is the abstract specification: `Claim` takes a place in the
line, `Publish` makes the element ready, `Take` removes the element at the
head if it is ready. It is what `ring_bar.h:8-18` and `scmp_queue.h:10-23`
promise in words: elements leave in the order of their places, and a ready
element behind one that is not ready has to wait.

**ScmpRingArray** has one action per atomic operation and per access to plain
data: `PushReserve`/`PushReject` (line 77, the token), `PushUndo` (78),
`PushClaim` (82, the ticket), `PushWrite` (83), `PushPublish` (84); `PopTake`
(95), `PopMove` (96), `PopReturn` (97-98: `tail_` belongs to the consumer, so
its increment needs no step of its own). A `pop` that finds the flag clear
changes nothing and is a stuttering step. `head` and `tail` count without
limit in the model; the program's variable is the count modulo `CounterMod`
(2^w), and `At(i) == (i % CounterMod) % Size` is the node it leads to.
Elements are pairs `<<p, k>>`, the k-th element of producer p: enough to tell
every two pushes apart.

**RingBar** adds the lending: between fetch and release the element belongs
to the thread (`VisitorUse`, `MasterUse` are the callers' accesses), the
master may hold several elements, and `master_skip_all` is its loop in two
steps an iteration. `AnyOrder` says whether the master may release a younger
element first, `SkipHolding` whether it may skip while it holds some; the code
allows both, and ignores the pointer (`ring_bar.h:95`, `:100-105`). `ScmpRingCollection` only renames the
operations.

**ScmpQueue** models nodes as addresses: `PushNew` may return any address
that is not allocated, a deleted one included. `PushTear`, `PushBind`,
`PopRead` are the steps the header names; `PopDelete` frees the old head.
The destructor runs when no producer is inside `push`.

**BoundedQueue** is the abstract specification of the containers whose calls
take effect at one moment: `Put` appends, `Get` hands the head to a consumer,
`Clear` drops everything (`condvar_queue.h:148` only).

**CondvarRingArray**. What a call does between lock and unlock is one action.
`push` unlocks and then notifies (`condvar_queue.h:119-120`): `Push`, then
`NotifyOne`, with other threads in between. The untimed `pop` and the first
look of the timed one are `Pop`; a timed pop that finds nothing goes to sleep
(`Wait`), is woken by a notification or spuriously, and looks again
(`PopAgain`, `WaitAgain`), or its clock runs out (`TimeOut`), asleep or already
woken: `wait_for` returns `timeout` and line 136 returns false without a look
at the ring. In the last case the notification is spent and the element
remains, beside other sleepers; the history variable `lapsed` marks this
until the ring is empty again. `Clear` is the one for elements without a destructor.

**LockedContainers** has the three containers that keep their mutex locked for a
whole call: `container`, chosen by `Init`, says which one a behaviour is about,
so that the code they share (the order of a `std::queue` against that of the
ring, what a grab does with either) is one action. A call that locks and unlocks
is one step, taken when the mutex is free (`Push`, `Pop`, `Clear`); a
`ContainerGrab` keeps it locked over several calls (`Grab`, `GrabPush`,
`GrabPop`) until the object that owns the container is destroyed (`DropGrab`),
which after a move is the new one (`MoveGrab`): both objects of a thread are
modelled, and they are destroyed in either order. `CondvarQueue` differs from
`CondvarRingArray` in that it notifies before it unlocks (`condvar_queue.h:36-38`),
so here `Push` and the notification are one step.

**GcList** is `MCMPList`, and with one thread on a side the other three lists,
which are the same code without that side's mutex. `Allocate` may return any
address that is free, a deleted one included; `Link` takes the mutex and stores
the link from which on consumers see the element; `Unhook` chooses the nodes
between `fRoot` and `fRead` and unlocks; `Free` deletes them one by one with
no mutex held. A consumer is `LockConsume`, `FindNext` or `FindNothing`,
`MoveData`, `Advance`. The destructor (`DestroyBegin`, `DestroyNext`) runs when no
thread is inside a call.

**CountedSeq** is `MCMPSeq`, and with one consumer `SCMPSeq`, the same code
without that side's mutex. **ScspSeq** is `SCSPSeq`, one thread on a side and no
mutex at all; `CountedSeq` implements it, the holder of a mutex being the thread
of its side (`Single`).
The counters return to 0 after `MaxCount`, as the code does
(`mcmp_seq.h:40-44`, `:63-67`); `fillCount` is two loads (`LoadFirst`,
`LoadSecond`) by a thread that holds no mutex. In `emplace` and `consume` one of
the two counters cannot change, and the load of the other one decides: one step.

All the atomics of `GcList` and `CountedSeq` are relaxed, and the two sides hold
different mutexes: by the C++ standard the element itself is in a data race.
The modules take the loads and stores in program order, which is what an x86
machine does with them as long as the compiler does not reorder them. They
show that the algorithms are right, not that the memory orders are.

**ScmrPool** models `create`, `pop`, the line of nodes and the `Holder`s. Each
thread has one `Holder` variable: `Create` and `PopMove` assign to it, `Move`
swaps two of them (`pool_holder.h:30-40`; only where both hold a node has each
thread something to hand to the other), `Drop` destroys the content; each of
these pushes the node the variable held before: `PushExchange` and `PushLink`
(`scmr_pool.h:61-62`). `PopTake` takes the separator out and `PopMove` moves
the data of the next node into it (`:67-70`), so that elements change their
nodes on every pop. **ElementPool** knows only elements: in the line, tied to
it, or lent.

**The pools and rings of Recycling.** `ScsrPool`, `ScmrOctopusPool`,
`ScmrBufferPool`, `ScmrRingPool`, `ScspRingArray` and `ScspPtrRingArray` have the
operations of the classes and no specification of their own: their callers
decide what happens, and **Recycling** is such a caller. It is the program of
`test_scmr_buffer_loop.cpp` (`Producer` and `Releaser`, a template there over the
pools and here over `poolType` and `ringType`), which is also the loop of
`test_mt_scsr_pool.cpp:34-56` and `test_mt_scmr_octopus_pool.cpp:41-68`.
`Programs` names the combinations; `Init` picks one, and the variables of a pool
the program does not have are `Absent`.

* The consumer pops: from the octopus by `PopBegin`, then `PopHit` or `PopMiss` for
  each sub-pool in turn; from a buffer pool or a ring pool in one step
  (`PopBuffer`, `PopRing`). `UsePopped` writes to the element and chooses a releaser.
  It pushes into the ring of that releaser: `PutCheck`, `PutWrite`, `PutPublish`, or
  `PutPtr`, one step, where the pointer itself is the flag.
* The releaser takes (`TakeCheck`, `TakeMove`, `TakeClear`, or `TakePtr`), uses
  (`UseReceived`) and releases: `Release` to its own arm of the octopus, one step;
  `ReleaseExchange` and `ReleaseLink` to the buffer pool the header of the element
  names; `ReleaseTicket` and `ReleaseStore` to the ring pool, which do not look at
  what is in the node.

The tests send the elements to the releasers in turn; the model to any of them
at any time. A push or a pop that finds nothing to do changes nothing and has no
action. When everything popped was released the threads may end and the pool is
destroyed (`Destroy`, one step, for no thread is left), and the chain or ring the
destructor walks must have every element. `Init` has every order of the
addresses, because `malloc` may return them in any, and it makes the model
symmetric in them.

What a pool has is read off its variables by `Line`: the chain of links, bridged
at the node whose successor a releaser has not linked yet (`Successor`), or the nodes
of the ring from `cnum_` on, with the pointers that releasers hold tickets for
(`Entry`). `LinesAreQueues` then says that the moment that counts is the exchange,
or the ticket, although the second steps come in any order.

One remark on `scmr_buffer_pool.h:82`: the exchange of `head_` is `acq_rel`, but
the accesses to the elements would be ordered without: the consumer learns of a
node by the chain of links, each stored with release after the one before was
there (`LinkOrder`; weakening that one breaks `DataRaceFree`).

**MemoryOrder**. The models interleave atomic operations that read the latest
value. What the C++ memory orders add is kept in `seen` and `rel`: an acquire
adds what the atomic's release sequence carries to what the thread has seen,
an access makes every other thread's view of the place stale. A thread that
touches a place it has not seen is in a data race. Loads that return an older
value of an atomic are not modelled; they can only make a `pop` or a `push`
fail that would have succeeded.

What the happens-before model cannot promise for the ring: a producer takes
its token with acquire (`:77`) but its node with a relaxed increment (`:82`).
If producer A takes a token, the consumer then releases a node, and producer B
takes that token, A may still get the ticket of the node released later,
although only B acquired the release. On hardware the two accesses are
ordered by what A's increment depends on; in the C++ model they are not.
`FreeNodesReleased` (in `HandoversOrdered`) therefore states what does hold: a
token taken *now* carries the last access to every free node. The same goes for
`FreeElementsReleased` of `RingBar`.

## 3. The runs

| run | configuration | shows |
|---|---|---|
| `ScmpRingArray.cfg` | 3 producers x 2 elements, 2 nodes, counters modulo 4 | `TokensConserved`, `SlotExclusive`, `HandoversOrdered`; refinement of `TicketQueue`; `ClaimsDelivered` |
| `ScmpRingArray_Wrap.cfg` | 1 producer x 5 elements, 3 nodes, counters modulo 4 | **violation** of `AllDelivered`: the wrap of a counter whose range the size does not divide |
| `RingBar.cfg` | 2 visitors x 3 visits, 2 elements, master holds up to 2, in order | `ElementsAccounted`, `HandoversOrdered`; refinement of `TicketQueue`; `ElementsServed` |
| `RingBar_AnyOrder.cfg` | the same, but the master may release the younger of two elements first | **violation** of `ElementExclusive` |
| `ScmpQueue.cfg` | 2 producers x 2 elements, 4 addresses | `HeapSound` (accesses ordered too), `RejectedOnlyAtGap`; refinement of `TicketQueue`; `ClaimsDelivered` |
| `ScmrPool.cfg` | consumer and 2 releasers, 1 element to start with, 3 nodes at most | `NodesIntact` (conserved, in one line, accesses ordered); refinement of `ElementPool`; `ReleasedReturns` |
| `CondvarRingArray.cfg` | 2 producers, 3 consumers, 2 slots, indexes modulo 4 | `WakeupsCover`; refinement of `BoundedQueue`; `WaitersServed` |
| `GcList.cfg` | 2 producers, 2 consumers, 4 addresses | `HeapSound`; refinement of `BoundedQueue` |
| `CountedSeq.cfg` | 2 producers, 2 consumers, an observer, 2 slots, up to the largest count, 5 | `FillNeverShort`; refinement of `ScspSeq` and of `BoundedQueue` |
| `CountedSeq_Wrap.cfg` | the same, one write past the largest count, 4 | **violation** of `ImplementsBoundedSeq`, which is the refinement of `BoundedQueue` |
| `Recycling.cfg` | 2 releasers, 4 addresses, rings of 2; the octopus pool with `ScspRingArray`s, two buffer pools of 3 and 1 with `ScspPtrRingArray`s, a ring pool of 3 with either | `OneOwner`, `DataRaceFree`, `LinesAreQueues`, `EveryArmServed` |
| `LockedContainers.cfg` | 3 threads, capacity 2, indexes modulo 4; `Queue`, `RingArray`, `CondvarQueue` | `GrabUndisturbed`, `WakeupsCover`; refinement of `BoundedQueue` |

Each passing run checks `TypeOK` too.

**Bounds.** `MaxPush` and `MaxVisits` bound how much each thread does;
`MaxHeld` how much the master holds; `Nodes` and `NodeCount` the heap;
`WriteLimit` what is written to a seq. Three producers on two
nodes give a failing push next to two that race for the last tokens, the
counter below zero, two laps of the ring and one wrap of the tickets (modulo
4 after four of six pushes). Two visitors with three visits do the same with
a master that holds the whole ring. Four addresses of `ScmpQueue` are one node,
two in flight and one that is reused while the gap is open; those of `GcList`
are two nodes in the hands of producers that delete, one in use and one that
comes back. `ScmrPool` with three nodes has a separator, a node in the line and
one that wanders between holders. The condition-variable ring, the lists and
`Recycling` are not bounded in time: their state spaces are finite. Three
consumers are one that is woken, one that sleeps and one that takes the
element away. The three threads of `LockedContainers` are one with a grab, or
one that pushes, and two others that wait. In `Recycling`, four elements in two
sub-pools of the octopus are a separator for each and two that wander; one
sub-pool may have both, the other none. Three buffers of one pool are the
separator and two that are released at once, the two steps of the releases
interleaved, while the consumer stands before the gap; the second buffer pool has
a single buffer and lends none, and is there to show that nobody comes home to the
wrong pool. Three elements of a ring pool are one in the hands of each thread.
Its counters are taken modulo its size (`CounterMod <- RingCount` in `Recycling`),
which is what a size that divides 2^w amounts to; those of the octopus and the
rings run modulo 2.

**Symmetry** is used in `GcList.cfg` (addresses, and threads of a kind) and
`Recycling.cfg` (addresses), where nothing but safety is checked.

**Fairness.** Inside a call a thread is scheduled again (weak fairness of
`Finish`): a lock-free operation has no loop and no wait, so this is all it
takes. The consumer keeps calling `pop` (weak fairness of `Pop`), as every
test does. Nothing obliges a producer to start a push, except in `RetrySpec`,
where it repeats one that failed, as the tests do. No run asserts that a
repeated push succeeds: two producers on one free node can reject each other
for ever by looking while the other one borrows the token, under weak
fairness of all actions; the code promises nothing better. `RingBar` assumes
that each visitor releases what it fetched; `ring_bar.h:14-16` says what
happens otherwise. In `ScmrPool` a thread inside a destructor goes on and the
consumer keeps popping, as the consumers of the tests do. In
`CondvarRingArray` a notification that is due is given and a woken waiter gets
the mutex; nobody has to push or pop, and no clock has to run out. `GcList` and
`CountedSeq` promise nothing that needs fairness: a `consume` that fails just
returns. Nor do `LockedContainers`. In `Recycling` what must not be postponed for
ever is stated as a bound instead: `EveryArmServed` counts how often a sub-pool
that can lend is passed over. It is stated, and checked, where the number of
sub-pools divides the range of `cnum_` (`CounterMod % rcount = 0`); with 3
sub-pools and a counter of 2^w the round in which `cnum_` starts over looks at one
of them twice and may miss another, and then `pop` may fail although that one
could lend.

**Findings.**

1. *Wrap of the tickets* (`scmp_ring_array.h:106`, `mem_utils.h:65`).
   `size_type` is `uint_fast32_t`: 64 bits in a Linux/x86-64 build, 32 in the
   Windows builds the repository is configured for
   (`concur-test-exchange_logic.pro.user:61,250`). After 2^32 pushes the
   ticket goes back to 0 and its node to node 0, out of turn unless the size
   divides 2^32; the tests use 10000. The run shows the smallest case: 3
   nodes, counters modulo 4. `WrapSafe` (the size divides 2^w) is the
   hypothesis of the theorems below, and all they need.
2. *`master_release` ignores its argument* (`ring_bar.h:95`): releasing
   anything but the oldest element held gives the oldest to a visitor while
   the master still uses it. The run shows exactly this: the master fetches two
   elements, uses and releases the younger, and a visitor gets the older.
   Skipping while an element is held (`SkipHolding = TRUE`, `:100-105`) ends the
   same way, but is switched off in the runs and has none of its own: no document
   says that it may be done. In order, everything holds.
3. *The counters of the seqs start over* (`mcmp_seq.h:40-44`, and the same
   lines of `scmp_seq.h` and `scsp_seq.h`): after the largest `int64_t` the
   writer's count is 0 again while the reader's is still high, `fill` becomes
   negative, and what is in the seq disappears. It takes 2^63 calls.

Things the models show that contradict no document. A timed pop that is
notified and late swallows the wakeup (`lapsed`): a second waiter sleeps on
beside an element until the next push or its own timeout. And a pool of n
elements lends n minus one of them (`ScsrPool`), an octopus pool n minus the
number of releasers; a sub-pool that got one element lends nothing before
something is released to it.

## 4. The proofs

`ScmpRingArrayProofs` proves, for any finite set of producers, any size, any
counter width and any number of pushes (`ConstantsAssumption`):

| theorem | property | hypothesis |
|---|---|---|
| `TypeCorrect` | `TypeOK` | |
| `TokensAreConserved` | `TokensConserved` | |
| `SlotsAreExclusive` | `SlotExclusive` | `WrapSafe` |
| `HandoversAreOrdered` | `HandoversOrdered` | `WrapSafe` |
| `ElementsInOrder` | `FifoOrder` | `WrapSafe` |
| `PopFindsOldest` | `PopSeesOldest` | `WrapSafe` |
| `RingImplementsTicketQueue` | `ImplementsTicketQueue` | `WrapSafe` |

*Types.* `TypeOK` is not inductive: `pushed` stays in its range only because
a producer that is inside a push has not used up its quota (`Quota`).

*Tokens.* `TokensConserved` is inductive given the types. The work is in
counting: `CountStep` says how `Cardinality(AtLabel(l))` changes when one
producer changes its label.

*Slots and data.* The inductive invariant is
`IInv == TypeInv /\ TokensConserved /\ SlotInv /\ FifoInv`. `SlotInv` says
that the tickets from `Low` (the first one not taken by a `pop`) to `head`
are in use, that each belongs to one producer or has its flag set, and that
every flag that is set belongs to one of them. `FifoInv` says what the
histories and the data of those tickets hold. From `TokensConserved` there are
at most `Size` of them (`TicketsFit`), and then they have different nodes
(`SlotsOfTickets`, by `WrappedSlotsDiffer`; the only place where `WrapSafe` is
used). Exclusive use of the nodes is what keeps the data
of one ticket from being overwritten by another.

*Memory orders.* `OrderInv` follows an access from the thread that makes it:
the producer that is about to publish has seen its node, a flag that is set
carries the write to its node, the consumer that took a ticket has seen it, and
`pcounter_` carries the last access to every free node to whoever takes a token.
The relaxed `fetch_add` of a failing push (`:78`) disturbs none of it because it
continues the release sequence of `pcounter_`; the exclusive use of the slots is
needed again, for an access makes what others have seen of that slot stale.

*Refinement.* `UniqueInv` adds that no element has two places. Each step of
the ring then maps to a step of `TicketQueue` or to a stutter: `ClaimRefines`,
`PublishRefines`, `MoveRefines`, `NextRefines`.

`ElementsInOrder` and `PopFindsOldest` have no run of their own: what they
state is part of what the refinement shows, and proving it on the way is how the
refinement is proved.

`RingBarProofs` proves, for any finite set of visitors, any size, any counter
width, any number of visits and of elements the master holds
(`ConstantsAssumption`; `InOrder` is `AnyOrder = FALSE` and
`SkipHolding = FALSE`):

| theorem | property | hypotheses |
|---|---|---|
| `TypeCorrect` | `TypeOK` | |
| `TokensAreConserved` | `TokensConserved`, a conjunct of `ElementsAccounted` | |
| `ElementsAreAccounted` | `ElementsAccounted` | `WrapSafe`, `InOrder` |
| `HandoversAreOrdered` | `HandoversOrdered` | `WrapSafe`, `InOrder` |
| `RingImplementsTicketQueue` | `ImplementsTicketQueue` | `WrapSafe`, `InOrder` |

`InOrder` cannot be left out: `RingBar_AnyOrder.cfg` shows what happens without
its first half (finding 2). The argument is that of `ScmpRingArray` with a third kind of tickets,
those whose elements the master holds: from `Base` to `tail`, in the order of
the list `held` (`HeldInv`). This is what an out-of-order release breaks. All
tickets from `Base` to `head` fit into the ring (`TicketsFit`), so visitors, the master
and what is `READY` have different elements. `HandoversOrdered` holds although
`master_skip_all` gives back what it skips with a relaxed operation, because it says
nothing of those elements; `FifoInv` therefore keeps track of which ones they are.

`ScmpQueueProofs` proves, for any finite sets of producers and of addresses and
any number of pushes (`ConstantsAssumption`):

| theorem | property |
|---|---|
| `TypeCorrect` | `TypeOK` |
| `HeapIsSound` | `HeapSound` |
| `RejectionsAreJust` | `RejectedOnlyAtGap` |
| `QueueImplementsTicketQueue` | `ImplementsTicketQueue` |

*The list.* Between TEAR and BIND the links do not reach the younger nodes, and
several producers may have torn the list in several places. So nothing about the list
can be said by following links. The invariant says that there is a numbering `nd` of
nodes by claims, from the consumed one at `head` (number `b`) to `tail`, all of them
different (`Chain`), such that each links to the next one exactly if that one's
element is bound (`Links`). Every node that is alive has a number or belongs to a
producer before TEAR; this is why an address that `PushNew` reuses is none of them. The
consumer that is about to delete the old head (`PopDelete`) needs that the node it read
has the number `b + 1`, and the producer at BIND that its old tail is numbered just
before its own node: nobody can have deleted it, because the link that is not written
yet is null and stops the consumer.

*Memory orders.* `Order`: a bound link carries everything that was written to the
node it leads to, and the atomic `tail_` carries the link of the last node, so that
TEAR hands the right to write it from one producer to the next. `HeapSound` then
includes that no access races, with the memory orders the code uses.

*Refinement.* TEAR is `Claim`, BIND is `Publish`, the move of the data is `Take`.

`ScmrPoolProofs` proves, for any finite set of releasers, any `count` given to `init` and
any number of nodes (`ConstantsAssumption`):

| theorem | property |
|---|---|
| `TypeCorrect` | `TypeOK` |
| `NodesAreIntact` | `NodesIntact` |
| `PoolImplementsElementPool` | `ImplementsElementPool` |

*Places.* `NodesIntact` says how many nodes there are and that the line is whole but for
the gaps of releasers; it is not inductive. `PlaceInv` adds that a node has one place
only: one index in the line, one holder, or the hands of one thread. `LinkInv` adds
that each releaser before its store stands at a gap of its own, with the node that
follows it in the order of the exchanges; so the separator that the consumer takes out
and lends, whose link is written, is not one that a releaser is about to write to. During the destructor all nodes are
in the line (`NobodyOut`), and the null link that ends it is the end and no gap.

*Accesses.* `OrderInv`: whoever has a node has seen every access to its data and its
link; `head_`, or else what everybody has seen, carries the link of the last node
for the next exchange; and a link that is written carries the data of the node it
leads to, unless the consumer has seen that already.

*Refinement.* The elements are the data, and nodes swap them at each pop. `Carriers` are
the nodes with an element: those behind the separator, those lent, and the separator
itself between `PopTake` and `PopMove`. `DataInv` says that they carry different
elements, `AliveInv` that a new node brings one that nobody has. `create` is
`Create`, the exchange is `Release`, the store of the link is `Tie`, `PopTake` is `Lend`
and each step of the destructor's loop is `Destroy`; the move of the data is a stutter.

`CondvarRingArrayProofs` proves, for any finite sets of threads, any elements
and any size that divides the range of `std::size_t` (`ConstantsAssumption`;
for another size the wrap after 2^64 pushes misleads the indexes as above):

| theorem | property |
|---|---|
| `TypeCorrect` | `TypeOK` |
| `WakeupsAreCovered` | `WakeupsCover` |
| `RingImplementsBoundedQueue` | `ImplementsBoundedQueue` |

*Types.* `TypeOK` says that `head_` is `tail_ + count_` modulo the range; this
makes it inductive, by `ModAdd`.

*Wakeups.* `WakeupsCover` is inductive given the types: each step changes
the number of the elements, of the woken and of the notifying threads, and the
lemmas about these cardinalities leave an inequality for each action. A
timeout of a woken thread is the one step that takes a wakeup away and no
element; it sets `lapsed`.

*Queue.* The elements in the ring are `Waiting`, from `tail_` on. A push writes
to a slot that holds none of them, because tickets less than `Size` apart have
different slots (`WrappedSlotsDiffer`), so `Waiting` grows at its end; a pop
takes its head; each step is one of `BoundedQueue` or a stutter.

`LockedContainersProofs` proves, for any finite set of threads, any elements and any
capacity that divides the range of `std::size_t` (`ConstantsAssumption`):

| theorem | property |
|---|---|
| `TypeCorrect` | `TypeOK` |
| `GrabsAreUndisturbed` | `GrabUndisturbed` |
| `WakeupsAreCovered` | `WakeupsCover` |
| `ContainersImplementBoundedQueue` | `ImplementsBoundedQueue` |

*Grabs.* `GrabInv`: the thread that holds the mutex is the one of which exactly one
`ContainerGrab`, the first or the moved one, has the container. This makes the double
destruction after a move harmless, and every step of another thread impossible;
`GrabUndisturbed` is inductive with it.

*Data.* `DataInv` keeps `head_` at `tail_ + count_` through the wraps (the capacity
divides the range); the content
of `RingArray` is a `Window` of the array, and `WindowPut` and `WindowGet` say
that an insertion makes it longer at its end and a removal drops its head. Each call then is a
step of `BoundedQueue` or a stutter, whoever holds the mutex.

*Wakeups.* As in `CondvarRingArray`, with one difference: here `push` notifies before it
unlocks, so no notification is ever due and the inequality has one term less.

`CountedSeqProofs` proves, for any sets of threads, any elements, any size and any
largest count (`ConstantsAssumption`; `NoWrap` says that no element is written at
the largest count, which is `WriteLimit <= MaxCount`):

| theorem | property | hypothesis |
|---|---|---|
| `SeqImplementsScspSeq` | `ImplementsScspSeq` | |
| `TypeCorrect` | `TypeOK` | `NoWrap` |
| `FillIsNeverShort` | `FillNeverShort` | `NoWrap` |
| `SeqImplementsBoundedQueue` | `ImplementsBoundedSeq` | `NoWrap` |

*Refinement.* `Exclusive`: a thread is inside a call exactly as long as it has the
mutex of its side. So each step of a holder is the step of the only producer or
consumer of `ScspSeq`, and the steps of the observers are stutters; nothing is
said about the counters, hence it holds through their wrap too. What goes wrong
there (finding 3) is `SCSPSeq`'s own.

*Fill.* The two sides share no lock. `Filled` adds to `Exclusive` what each side
may rely on all the same: a producer inside has a free slot and a consumer
inside an element, because the other side can only add to either; and what an
observer loaded first is not above the reader's count. The last fact is why
`fillCount` must load `fReader` before `fWriter`.

*Queue.* What waits is the `Slice` of the array from the reader's count to the
writer's. `Queued` adds to `Filled` what is in the slot a producer is about to
publish and what a consumer has moved out. A producer constructs in a slot that
no waiting element has, by `SlotsDiffer`, because it saw less than `Size` of them;
the store of `fWriter` makes the slice longer at its end (`SliceAppend`), that of
`fReader` drops its first element (`SliceTail`).

`GcListProofs` proves, for any finite set of addresses and any threads and elements
(`ConstantsAssumption`), with any number of calls:

| theorem | property |
|---|---|
| `TypeCorrect` | `TypeOK` |
| `HeapIsSound` | `HeapSound` |
| `ListImplementsBoundedQueue` | `ImplementsBoundedQueue` |

*Why types are not easy here.* `TypeOK` includes that every pointer leads to a node or
to the root, and `Unhook`, `Free`, `FindNext` and the destructor follow links. That no
link of a deleted node is ever followed is the whole argument, so all three theorems
rest on one inductive invariant,
`IInv == TypeOK /\ MutexInv /\ FreshInv /\ SomeList`.

*The journal.* An address that a producer deletes may come back as the next node, so
addresses cannot say what is older. `SomeList` says that the links made so far can be
numbered: there is a journal `at`, where `at[i]` is the node that was linked i-th, and in
which an address may occur again; an entry `r`, the one consumed last; an entry `f`, the
first that is still hooked to the root; and for each producer that deletes, the stretch
from `lo[p]` to before `hi[p]` that is still its to delete. `Pointers` ties `fRoot`,
`fRead`, `fTail` and what waits to the journal, `Sections` the local variables of the
threads, `Chain` the links of the nodes that are kept, and `Owners` gives each of them one
owner: the list, one producer's stretch, or a producer that has not linked it yet. The
journal exists in the proof only: `Link` extends it at its end, `Unhook` moves `f` on and
gives what it passes to the producer, `Free` shortens that stretch from its start. The two
mutexes meet in `hi[p] <= r`: a producer deletes up to what it saw in `fRead` and not that
node itself, and consumers only move `fRead` on; so the node at `fRead`, which a consumer
follows without the producers' mutex, is never in a stretch (`f <= r`).

*Following the links.* `HeapSound` and the refinement use the recursive function
`Behind`, which collects what is reached from a node. The walk that it stands for
(`IsWalk`) exists, is the only one, and follows the entries of the journal one after the
other: by induction over its steps (`Induction`). The library's induction theorems cannot
be used here, for they take an operator; `Induction` speaks of a set of numbers instead,
and rests on the least counterexample (`LeastNatural`), which the well-founded order of
finite sets by strict inclusion provides. So what lies behind `fRoot` is the stretch from
`f` on, what lies behind `fRead` is that from `r + 1` on, which is `waiting`, and what
a producer erases is the difference of two such stretches.

*Refinement.* The list as a bounded queue of as many elements as there are addresses:
the store of the link is `Put`, that of `fRead` (`Advance`) is `Get`, and the rest are stutters. That the
bound is never exceeded follows from the kept entries having different nodes.

The lemmas about slots (`WrappedSlotsDiffer`: counters less than a lap apart have
different slots; `NextLap`) are proved in each module that uses them.

Only model-checked: the liveness properties (TLAPS does not reason about
fairness and ENABLED); everything about `Recycling`, whose three pools and two rings
would need an invariant each, and whose lines are read off the links by a recursive
function that bridges the gaps of releases; the three violations, which are single
behaviours of small instances. The pools of `Recycling` are relatives of `ScmrPool`, and
what makes their lines correct is proved there.

## 5. Not modelled

* `PtrRingPool` does not compile when it is instantiated.
* The test drivers beyond the program of `Recycling` (loops, timing, command
  line); the models take from them how callers behave.
* The destructors of the seqs and of the rings, which free one array. Those that
  walk through nodes are modelled (`ScmpQueue`, `ScmrPool`, the lists, the pools
  of `Recycling`), when no thread is in a call, as in every test.
  `ScmrRingPool`'s (`:38-45`) destroys what each node points to, also where a lent
  element has left a null pointer: undefined, and no document says whether a
  pool may be destroyed while elements are lent.
* `RingArray::clear` and `CondvarRingArray::clear` for elements that have a
  destructor: they end the lifetime of what is in the ring and leave the indexes
  as they are, so that a later `pop` moves from an object that does not exist.
  That is undefined behaviour at the first element, not a behaviour to model.
* Loads that return an old value of an atomic, and for the lists and the seqs what
  relaxed orders allow beyond interleaving (section 2).

## 6. Plan

The components that have behaviour are modelled, with the exceptions above, and each
safety property of every module but `Recycling` is a theorem. What is left is
`Recycling`: its types and `DataRaceFree` need an invariant of each ring (its flags are set
from `tail` to `head`) and of each pool; `OneOwner` and `LinesAreQueues` need in addition
what `Line` reads, by an argument like that for `Behind` in `GcListProofs`.
