------------------------------- MODULE Recycling -------------------------------
(***************************************************************************)
(* The program of test_scmr_buffer_loop.cpp, of test_mt_scsr_pool.cpp and  *)
(* of test_mt_scmr_octopus_pool.cpp, a template over the pool and the ring *)
(* it uses: the consumer of a pool uses what it pops and passes it to a    *)
(* releaser through a ring; the releaser uses it and releases it.  Every   *)
(* access to the data of an element depends on the orders of the two       *)
(* containers together.                                                    *)
(***************************************************************************)
EXTENDS Integers, Sequences, FiniteSets, Functions

CONSTANTS
  Consumer, NoNode,
  rcount,              \* the number of releasers
  Nodes,               \* the addresses of the elements
  RingSize,            \* the size of the rings
  CounterMod,          \* the number of values of every counter
  BufferShares,        \* how many elements each ScmrBufferPool creates
  RingCount,           \* how many elements a ScmrRingPool creates
  Programs             \* the instances of the template: <<pool, ring>>

PoolTypes == {"ScmrOctopusPool", "ScmrBufferPool", "ScmrRingPool"}
RingTypes == {"ScspRingArray", "ScspPtrRingArray"}

ASSUME ConstantsAssumption ==
  /\ rcount \in Nat \ {0}
  /\ IsFiniteSet(Nodes)
  /\ Cardinality(Nodes) >= rcount     \* or init does not end: ScsrPool
  /\ NoNode \notin Nodes
  /\ CounterMod \in Nat
  /\ CounterMod >= rcount
  /\ RingSize \in Nat \ {0}
  /\ CounterMod % RingSize = 0
  /\ Consumer \notin 0 .. rcount - 1
  /\ BufferShares \in [0 .. Cardinality(DOMAIN BufferShares) - 1 -> Nat \ {0}]
  /\ FoldFunction(LAMBDA a, b : a + b, 0, BufferShares) = Cardinality(Nodes)
  /\ RingCount \in 1 .. Cardinality(Nodes)
  /\ Programs \subseteq PoolTypes \X RingTypes

VARIABLES
  poolType, ringType,                             \* the program; no step changes it
  tail, head, next,                               \* ScsrPool, ScmrBufferPool
  popping, end, stocked, bypassed,                \* ScmrOctopusPool
  owner, old,                                     \* ScmrBufferPool
  ptr, rnum, ticket,                              \* ScmrRingPool
  cnum,                                           \* octopus and ring pool
  flag, slot, ringHead, ringTail, putting, taking, out,  \* the rings
  hand,        \* what the consumer popped and did not pass on
  dest,        \* the releaser it will pass it to
  due,         \* what each releaser has still to do with out
  destroyed,   \* what the destructor of the pool destroyed
  seen, rel    \* happens-before (MemoryOrder)

program      == <<poolType, ringType>>
run          == <<program, destroyed>>
lineVars     == <<tail, head, next>>
octopusVars  == <<popping, end, stocked, bypassed>>
bufferVars   == <<owner, old>>
ringPoolVars == <<ptr, rnum, ticket>>
poolVars     == <<lineVars, octopusVars, bufferVars, ringPoolVars, cnum>>
ringVars     == <<flag, slot, ringHead, ringTail, putting, taking, out>>
vars         == <<run, poolVars, ringVars, hand, dest, due, seen, rel>>

Releasers == 0 .. rcount - 1
Threads   == Releasers \cup {Consumer}
NoDest    == rcount

BufferPools == DOMAIN BufferShares
SharesTo(i) == FoldFunctionOnSet(LAMBDA a, b : a + b, 0, BufferShares, 0 .. i)

Octopus  == INSTANCE ScmrOctopusPool
Buffers  == INSTANCE ScmrBufferPool WITH
              Pools <- BufferPools,
              First <- [i \in BufferPools |-> SharesTo(i - 1) + 1],
              Last  <- [i \in BufferPools |-> SharesTo(i)]
RingPool == INSTANCE ScmrRingPool WITH count <- RingCount, CounterMod <- RingCount

Ring == INSTANCE ScspRingArray WITH
  Channels <- Releasers,
  Sender   <- [r \in Releasers |-> Consumer],
  Receiver <- [r \in Releasers |-> r],
  Elements <- Nodes,
  Nothing  <- NoNode,
  Size     <- RingSize,
  data     <- slot,
  head     <- ringHead,
  tail     <- ringTail

PtrRing == INSTANCE ScspPtrRingArray WITH
  Channels <- Releasers,
  Sender   <- [r \in Releasers |-> Consumer],
  Receiver <- [r \in Releasers |-> r],
  Elements <- Nodes,
  Nothing  <- NoNode,
  Size     <- RingSize,
  data     <- slot,
  head     <- ringHead,
  tail     <- ringTail

DataOf(n) == <<"data", n>>
Places  == Ring!Places \cup {DataOf(n) : n \in Nodes}
Atomics == Ring!Atomics \cup PtrRing!Atomics \cup Buffers!Atomics \cup RingPool!Atomics

TypeOK ==
  /\ program \in Programs
  /\ poolType = "ScmrOctopusPool" => Octopus!TypeOK
  /\ poolType = "ScmrBufferPool" => Buffers!TypeOK
  /\ poolType = "ScmrRingPool" => RingPool!TypeOK
  /\ Ring!TypeOK
  /\ hand \in Nodes \cup {NoNode}
  /\ dest \in Releasers \cup {NoDest}
  /\ destroyed \subseteq Nodes
  /\ due \in [Releasers -> {"nothing", "use", "release", "link", "store"}]
  /\ seen \in [Threads -> SUBSET Places]
  /\ rel \in [Atomics -> SUBSET Places]

(* The value of a variable of a pool that the program does not have.        *)
Absent == << >>

Init ==
  /\ \E p \in Programs : poolType = p[1] /\ ringType = p[2]
  /\ \/ /\ poolType = "ScmrOctopusPool"
        /\ Octopus!Init
        /\ owner = Absent /\ old = Absent
        /\ ptr = Absent /\ rnum = Absent /\ ticket = Absent
     \/ /\ poolType = "ScmrBufferPool"
        /\ Buffers!Init
        /\ cnum = Absent /\ popping = Absent /\ end = Absent
        /\ stocked = Absent /\ bypassed = Absent
        /\ ptr = Absent /\ rnum = Absent /\ ticket = Absent
     \/ /\ poolType = "ScmrRingPool"
        /\ RingPool!Init
        /\ tail = Absent /\ head = Absent /\ next = Absent
        /\ popping = Absent /\ end = Absent /\ stocked = Absent /\ bypassed = Absent
        /\ owner = Absent /\ old = Absent
  /\ Ring!Init
  /\ hand = NoNode
  /\ dest = NoDest
  /\ due = [r \in Releasers |-> "nothing"]
  /\ destroyed = {}
  /\ seen = [t \in Threads |-> Places]
  /\ rel = [a \in Atomics |-> {}]

Mem == INSTANCE MemoryOrder

-----------------------------------------------------------------------------
(* The consumer: while( !( it = pool.pop( ) ) );  Pop of the octopus looks  *)
(* at its pools one by one, that of the others is a single step.            *)

PopBegin ==
  /\ poolType = "ScmrOctopusPool"
  /\ hand = NoNode /\ destroyed = {}
  /\ Octopus!PopBegin
  /\ UNCHANGED <<run, bufferVars, ringPoolVars, ringVars, hand, dest, due>>

PopHit ==
  /\ poolType = "ScmrOctopusPool"
  /\ Octopus!PopHit
  /\ hand' = Octopus!Found
  /\ UNCHANGED <<run, bufferVars, ringPoolVars, ringVars, dest, due>>

PopMiss ==
  /\ poolType = "ScmrOctopusPool"
  /\ Octopus!PopMiss
  /\ UNCHANGED <<run, bufferVars, ringPoolVars, ringVars, hand, dest, due>>

PopBuffer(i) ==
  /\ poolType = "ScmrBufferPool"
  /\ hand = NoNode /\ destroyed = {}
  /\ Buffers!Pop(i, Consumer)
  /\ hand' = tail[i]
  /\ UNCHANGED <<run, octopusVars, ringPoolVars, cnum, ringVars, dest, due>>

PopRing ==
  /\ poolType = "ScmrRingPool"
  /\ hand = NoNode /\ destroyed = {}
  /\ RingPool!Pop(Consumer)
  /\ hand' = RingPool!Found
  /\ UNCHANGED <<run, lineVars, octopusVars, bufferVars, ringVars, dest, due>>

(* *it = rnum *)
UsePopped(r) ==
  /\ hand # NoNode /\ dest = NoDest
  /\ dest' = r
  /\ seen' = Mem!Touch(seen, Consumer, DataOf(hand))
  /\ rel' = Mem!Forget(rel, DataOf(hand))
  /\ UNCHANGED <<run, poolVars, ringVars, hand, due>>

(* while( !ring.push( it ) ); *)
PutCheck ==
  /\ ringType = "ScspRingArray"
  /\ dest # NoDest
  /\ Ring!PutCheck(dest)
  /\ UNCHANGED <<run, poolVars, hand, dest, due>>

PutWrite ==
  /\ dest # NoDest
  /\ Ring!PutWrite(dest, hand)
  /\ hand' = NoNode
  /\ UNCHANGED <<run, poolVars, dest, due>>

PutPublish ==
  /\ dest # NoDest
  /\ Ring!PutPublish(dest)
  /\ dest' = NoDest
  /\ UNCHANGED <<run, poolVars, hand, due>>

PutPtr ==
  /\ ringType = "ScspPtrRingArray"
  /\ dest # NoDest
  /\ PtrRing!Put(dest, hand)
  /\ hand' = NoNode
  /\ dest' = NoDest
  /\ UNCHANGED <<run, poolVars, flag, putting, taking, due>>

-----------------------------------------------------------------------------
(* The releasers *)

(* while( !ring.pop( it ) ); *)
TakeCheck(r) ==
  /\ ringType = "ScspRingArray"
  /\ due[r] = "nothing"
  /\ Ring!TakeCheck(r)
  /\ UNCHANGED <<run, poolVars, hand, dest, due>>

TakeMove(r) ==
  /\ Ring!TakeMove(r)
  /\ UNCHANGED <<run, poolVars, hand, dest, due>>

TakeClear(r) ==
  /\ Ring!TakeClear(r)
  /\ due' = [due EXCEPT ![r] = "use"]
  /\ UNCHANGED <<run, poolVars, hand, dest>>

TakePtr(r) ==
  /\ ringType = "ScspPtrRingArray"
  /\ due[r] = "nothing"
  /\ PtrRing!Take(r)
  /\ due' = [due EXCEPT ![r] = "use"]
  /\ UNCHANGED <<run, poolVars, flag, putting, taking, hand, dest>>

(* *it = 0 *)
UseReceived(r) ==
  /\ due[r] = "use"
  /\ due' = [due EXCEPT ![r] = "release"]
  /\ seen' = Mem!Touch(seen, r, DataOf(out[r]))
  /\ rel' = Mem!Forget(rel, DataOf(out[r]))
  /\ UNCHANGED <<run, poolVars, ringVars, hand, dest>>

(* The release of out[r] goes on with step, or ends: it is a new variable   *)
(* of the next round.                                                       *)
Releasing(r, from, step) ==
  /\ due[r] = from
  /\ due' = [due EXCEPT ![r] = step]
  /\ out' = IF step = "nothing" THEN [out EXCEPT ![r] = NoNode] ELSE out
  /\ UNCHANGED <<run, flag, slot, ringHead, ringTail, putting, taking, hand, dest>>

(* pool.release( r, it ) *)
Release(r) ==
  /\ poolType = "ScmrOctopusPool"
  /\ Releasing(r, "release", "nothing")
  /\ Octopus!Release(r, out[r])
  /\ UNCHANGED <<bufferVars, ringPoolVars>>

(* ScmrBufferPool::release( it ) *)
ReleaseExchange(r) ==
  /\ poolType = "ScmrBufferPool"
  /\ Releasing(r, "release", "link")
  /\ Buffers!ReleaseExchange(out[r], r)
  /\ UNCHANGED <<octopusVars, ringPoolVars, cnum>>

ReleaseLink(r) ==
  /\ Releasing(r, "link", "nothing")
  /\ Buffers!ReleaseLink(out[r], r)
  /\ UNCHANGED <<octopusVars, ringPoolVars, cnum>>

(* pool.release( it ) of a ScmrRingPool *)
ReleaseTicket(r) ==
  /\ poolType = "ScmrRingPool"
  /\ Releasing(r, "release", "store")
  /\ RingPool!ReleaseTicket(r)
  /\ UNCHANGED <<lineVars, octopusVars, bufferVars>>

ReleaseStore(r) ==
  /\ Releasing(r, "store", "nothing")
  /\ RingPool!ReleaseStore(out[r], r)
  /\ UNCHANGED <<lineVars, octopusVars, bufferVars>>

-----------------------------------------------------------------------------
(* What is on its way to releaser r is in these nodes of its ring.          *)
Full(r) == {s \in 0 .. RingSize - 1 :
              IF ringType = "ScspRingArray" THEN flag[r][s] ELSE slot[r][s] # NoNode}

(* The threads end when as many elements were released as popped; then the  *)
(* pool is destroyed.                                                       *)
Destroy ==
  /\ destroyed = {}
  /\ poolType = "ScmrOctopusPool" => ~popping
  /\ hand = NoNode /\ dest = NoDest
  /\ \A r \in Releasers : due[r] = "nothing" /\ Full(r) = {}
  /\ destroyed' = CASE poolType = "ScmrOctopusPool" -> Octopus!Destroyed
                     [] poolType = "ScmrBufferPool"  -> Buffers!Destroyed
                     [] poolType = "ScmrRingPool"    -> RingPool!Destroyed
  /\ UNCHANGED <<program, poolVars, ringVars, hand, dest, due, seen, rel>>

Terminating == destroyed # {} /\ UNCHANGED vars

-----------------------------------------------------------------------------
Consume ==
  \/ PopBegin \/ PopHit \/ PopMiss \/ PopRing
  \/ \E i \in BufferPools : PopBuffer(i)
  \/ \E r \in Releasers : UsePopped(r)
  \/ PutCheck \/ PutWrite \/ PutPublish \/ PutPtr

Recycle(r) ==
  \/ TakeCheck(r) \/ TakeMove(r) \/ TakeClear(r) \/ TakePtr(r)
  \/ UseReceived(r)
  \/ Release(r)
  \/ ReleaseExchange(r) \/ ReleaseLink(r)
  \/ ReleaseTicket(r) \/ ReleaseStore(r)

Next ==
  \/ Consume
  \/ \E r \in Releasers : Recycle(r)
  \/ Destroy
  \/ Terminating

Spec == Init /\ [][Next]_vars

-----------------------------------------------------------------------------
(* What is where *)

NodesOf(line) == {line[k] : k \in 1 .. Len(line)}

(* A release of a buffer that has exchanged head_ and not yet linked its    *)
(* node bridges the gap with it.                                            *)
Successor(n) ==
  LET bridging == {r \in Releasers : due[r] = "link" /\ old[r] = n}
  IN  IF next[n] # NoNode \/ bridging = {} THEN next[n]
      ELSE out[CHOOSE r \in bridging : TRUE]

LineFrom(n) ==
  LET path[k \in 1 .. Cardinality(Nodes)] ==
        IF k = 1 THEN <<n>>
        ELSE LET last == path[k - 1][Len(path[k - 1])]
             IN  IF Successor(last) = NoNode THEN path[k - 1]
                 ELSE Append(path[k - 1], Successor(last))
  IN  path[Cardinality(Nodes)]

(* The node of the ring pool, counted from cnum_, and what will be stored   *)
(* there, if a release has its ticket.                                      *)
Entry(k) ==
  LET s == RingPool!At(cnum + k - 1)
      storing == {r \in Releasers : due[r] = "store" /\ RingPool!At(ticket[r]) = s}
  IN  IF ptr[s] # NoNode \/ storing = {} THEN ptr[s]
      ELSE out[CHOOSE r \in storing : TRUE]

PoolLines ==
  CASE poolType = "ScmrOctopusPool" -> Releasers
    [] poolType = "ScmrBufferPool"  -> BufferPools
    [] poolType = "ScmrRingPool"    -> {0}

(* What each pool has to lend, the oldest first. *)
Line(i) ==
  IF poolType = "ScmrRingPool"
  THEN LET length == Cardinality({k \in DOMAIN ptr : Entry(k + 1) # NoNode})
       IN  [k \in 1 .. length |-> Entry(k)]
  ELSE LineFrom(tail[i])

(* What is on its way to releaser r, the oldest first.                      *)
InRing(r) ==
  LET taken == IF taking[r] = "clear" THEN 1 ELSE 0
  IN  [k \in 1 .. Cardinality(Full(r)) - taken |->
         slot[r][Ring!At(ringTail[r] + taken + k - 1)]]

Queues == ({"pool"} \X PoolLines) \cup ({"ring"} \X Releasers)
Content(q) == IF q[1] = "pool" THEN Line(q[2]) ELSE InRing(q[2])

(* What each thread has in its hands. *)
HeldBy(t) ==
  IF t = Consumer
  THEN ({hand} \cup {slot[r][Ring!At(ringHead[r])] : r \in {q \in Releasers : putting[q] = "publish"}})
         \ {NoNode}
  ELSE IF due[t] \in {"use", "release"} \/ taking[t] = "clear" THEN {out[t]} ELSE {}

(* How many elements there are. *)
Count == IF poolType = "ScmrRingPool" THEN RingCount ELSE Cardinality(Nodes)

Owners == Queues \cup ({"thread"} \X Threads)
Own(o) == IF o[1] = "thread" THEN HeldBy(o[2]) ELSE NodesOf(Content(o))

-----------------------------------------------------------------------------
(* Properties *)

(* Every element is in one place: in the line of one pool, in one ring, or  *)
(* with one thread.  None is lost, lent twice or released twice, and no     *)
(* release of a ring pool overwrites another (scsr_pool.h:86-99,            *)
(* scmr_ring_pool.h:60-72, scsp_ring_array.h:24-46).  The nodes of an       *)
(* octopus wander from pool to pool; a buffer is only ever in the line of   *)
(* the pool that created it (scmr_buffer_pool.h:80).  Each linked line      *)
(* ends at the head_ of its pool.  What the destructor finds is every       *)
(* element and nothing else (scsr_pool.h:72-80, scmr_ring_pool.h:38-45).    *)
OneOwner ==
  /\ Cardinality(UNION {Own(o) : o \in Owners}) = Count
  /\ UNION {Own(o) : o \in Owners} \subseteq Nodes
  /\ \A o, q \in Owners : o # q => Own(o) \cap Own(q) = {}
  /\ \A q \in Queues : IsInjective(Content(q))
  /\ poolType = "ScmrBufferPool" => \A i \in PoolLines : \A n \in NodesOf(Line(i)) : owner[n] = i
  /\ poolType # "ScmrRingPool" => \A i \in PoolLines : Line(i)[Len(Line(i))] = head[i]
  /\ destroyed \in {{}, UNION {Own(o) : o \in Owners}}

(* No plain access races: what a thread did with an element happened before *)
(* the next thread has it.  The consumer acquires the link to a node, which *)
(* was released after the node itself, when it pops the node before it      *)
(* (scsr_pool.h:91, scmr_buffer_pool.h:88), or it acquires the pointer      *)
(* (scmr_ring_pool.h:68).  The rings order the rest.                        *)
DataRaceFree ==
  /\ hand # NoNode /\ dest = NoDest => DataOf(hand) \in seen[Consumer]
  /\ \A r \in Releasers :
       /\ due[r] = "use" => DataOf(out[r]) \in seen[r]
       /\ putting[r] = "write" => Ring!SlotOf(r, Ring!At(ringHead[r])) \in seen[Consumer]
       /\ taking[r] = "move" => Ring!SlotOf(r, Ring!At(ringTail[r])) \in seen[r]

(* Each line of a pool and each ring is a queue (scsr_pool.h:67-83,         *)
(* scmr_buffer_pool.h:78-92, scmr_ring_pool.h:60-72, scsp_ring_array.h:66-83, *)
(* scsp_ptr_ring_array.h:52-68): a step adds an element that a thread had   *)
(* behind the others, or takes the oldest one, which a thread has then.     *)
(* With many releasers the order is that of the exchanges of head_, or of   *)
(* the tickets, in whatever order their second steps come.                  *)
LinesAreQueues ==
  [][\A q \in Queues :
       \/ UNCHANGED Content(q)
       \/ \E t \in Threads : \E n \in HeldBy(t) : Content(q)' = Append(Content(q), n)
       \/ /\ Content(q) # << >>
          /\ Content(q)' = Tail(Content(q))
          /\ \E t \in Threads : Head(Content(q)) \in HeldBy(t)']_vars

(* pop of the octopus (scmr_octopus_pool.h:41-49) looks at its pools one    *)
(* after the other while elements are released to them.  If it returns      *)
(* nullptr, none of them had anything to lend when it began; and the pools  *)
(* take turns: one that can lend is not passed over by rcount_ pops,        *)
(* whatever is released to the others.  This holds where rcount_ divides    *)
(* the range of cnum_: with another number of pools the round that cnum_    *)
(* wraps in looks at one of them twice and may miss another.                *)
EveryArmServed ==
  [][poolType = "ScmrOctopusPool" /\ CounterMod % rcount = 0 =>
       /\ PopMiss /\ ~popping' => ~stocked
       /\ \A i \in Releasers : bypassed'[i] < rcount]_vars
=============================================================================
