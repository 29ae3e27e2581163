---------------------------- MODULE ScmpRingArray ----------------------------
(***************************************************************************)
(* concur::ScmpRingArray (scmp_ring_array.h): a bounded ring of Size nodes *)
(* {flag, data}, many producers and one consumer.                          *)
(*                                                                         *)
(* push:  take a token from pcounter_ (or put it back and fail), take a    *)
(*        ticket from head_, write the node of that ticket, set its flag.  *)
(* pop:   if the flag of the node at tail_ is set, clear it, move the data *)
(*        out, give the token back, advance tail_.                         *)
(*                                                                         *)
(* One action per atomic operation and per access to the plain data; the   *)
(* producers and the consumer interleave between any two of them.  A pop   *)
(* that finds the flag clear changes nothing and is a stuttering step.     *)
(*                                                                         *)
(* head and tail count the increments of head_ and tail_; the variable of  *)
(* the program holds the count modulo CounterMod (2^w for a size_type of w *)
(* bits), and it is that value At() reduces modulo the array's size.       *)
(***************************************************************************)
EXTENDS Integers, Sequences, FiniteSets, MemoryOrder

CONSTANTS
  Producers,    \* the threads that push
  Consumer,     \* the thread that pops
  Size,         \* arr_size_
  CounterMod,   \* 2^w, w the width of size_type
  MaxPush       \* bound: how many elements each producer pushes

ASSUME ConstantsAssumption ==
  /\ IsFiniteSet(Producers)
  /\ Consumer \notin Producers
  /\ Size \in Nat \ {0}
  /\ CounterMod \in Nat \ {0}
  /\ Size <= CounterMod
  /\ MaxPush \in Nat

Threads  == Producers \cup {Consumer}
Slots    == 0 .. Size - 1
Elements == Producers \X (1 .. MaxPush)   \* <<p, k>>: the k-th element of p
NoData   == <<Consumer, 0>>               \* T( ), what Node( ) constructs

Pcounter == <<"pcounter", 0>>             \* the atomics with release operations
FlagOf(s) == <<"flag", s>>
Atomics  == {Pcounter} \cup {FlagOf(s) : s \in Slots}

VARIABLES
  pcounter,   \* pcounter_: free nodes, less the failing pushes in flight
  head,       \* head_: tickets handed out
  tail,       \* tail_: tickets consumed
  flag,       \* Node::flag of each slot
  data,       \* Node::data of each slot
  pc,         \* where each thread is inside push or pop
  index,      \* what the latest head_.fetch_add of a producer returned
  pushed,     \* how many pushes of each producer returned true
  claims,     \* history: the elements in the order of their tickets
  received,   \* history: what pop returned
  seen, rel   \* happens-before between the accesses to data (MemoryOrder)

vars == <<pcounter, head, tail, flag, data, pc, index, pushed,
          claims, received, seen, rel>>

At(i) == (i % CounterMod) % Size

NextElement(p) == <<p, pushed[p] + 1>>

TypeOK ==
  /\ pcounter \in Int
  /\ head \in Nat
  /\ tail \in Nat
  /\ flag \in [Slots -> BOOLEAN]
  /\ data \in [Slots -> Elements \cup {NoData}]
  /\ pc \in [Threads -> {"idle", "undo", "claim", "write", "publish", "move", "return"}]
  /\ \A p \in Producers : pc[p] \notin {"move", "return"}
  /\ pc[Consumer] \in {"idle", "move", "return"}
  /\ index \in [Producers -> Nat]
  /\ pushed \in [Producers -> 0 .. MaxPush]
  /\ claims \in Seq(Elements)
  /\ received \in Seq(Elements \cup {NoData})
  /\ seen \in [Threads -> SUBSET Slots]
  /\ rel \in [Atomics -> SUBSET Slots]

(* After init( Size ); the threads start later and see all of it. *)
Init ==
  /\ pcounter = Size
  /\ head = 0
  /\ tail = 0
  /\ flag = [s \in Slots |-> FALSE]
  /\ data = [s \in Slots |-> NoData]
  /\ pc = [t \in Threads |-> "idle"]
  /\ index = [p \in Producers |-> 0]
  /\ pushed = [p \in Producers |-> 0]
  /\ claims = << >>
  /\ received = << >>
  /\ seen = [t \in Threads |-> Slots]
  /\ rel = [a \in Atomics |-> {}]

-----------------------------------------------------------------------------
(* push, by producer p *)

Goto(t, label) == pc' = [pc EXCEPT ![t] = label]

(* pcounter_.fetch_sub( 1, acquire ), whatever it returned *)
TakeToken(p) ==
  /\ pc[p] = "idle"
  /\ pushed[p] < MaxPush
  /\ pcounter' = pcounter - 1
  /\ seen' = Acquire(seen, p, rel[Pcounter])
  /\ UNCHANGED <<head, tail, flag, data, index, pushed, claims, received, rel>>

NoTokenOffByOne == pcounter < 0      \* mutant

NoToken == pcounter <= 0

PushReserve(p) ==
  /\ ~NoToken
  /\ TakeToken(p)
  /\ Goto(p, "claim")

PushReject(p) ==
  /\ NoToken
  /\ TakeToken(p)
  /\ Goto(p, "undo")

PushUndoForgotten(p) ==                \* mutant: the token is not put back
  /\ pc[p] = "undo"
  /\ Goto(p, "idle")
  /\ UNCHANGED <<pcounter, head, tail, flag, data, index, pushed, claims, received,
                 seen, rel>>

(* pcounter_.fetch_add( 1, relaxed ); return false *)
PushUndo(p) ==
  /\ pc[p] = "undo"
  /\ pcounter' = pcounter + 1
  /\ Goto(p, "idle")
  /\ UNCHANGED <<head, tail, flag, data, index, pushed, claims, received, seen, rel>>

(* head_.fetch_add( 1, relaxed ) *)
PushClaim(p) ==
  /\ pc[p] = "claim"
  /\ index' = [index EXCEPT ![p] = head]
  /\ head' = head + 1
  /\ claims' = Append(claims, NextElement(p))
  /\ Goto(p, "write")
  /\ UNCHANGED <<pcounter, tail, flag, data, pushed, received, seen, rel>>

(* node.data = std::forward< Type >( src ) *)
PushWrite(p) ==
  /\ pc[p] = "write"
  /\ data' = [data EXCEPT ![At(index[p])] = NextElement(p)]
  /\ seen' = Touch(seen, p, At(index[p]))
  /\ rel' = Forget(rel, At(index[p]))
  /\ Goto(p, "publish")
  /\ UNCHANGED <<pcounter, head, tail, flag, index, pushed, claims, received>>

FlagStoreRelaxed(p) ==                 \* mutant: memory_order_relaxed
  /\ flag' = [flag EXCEPT ![At(index[p])] = TRUE]
  /\ rel' = StoreRelaxed(rel, FlagOf(At(index[p])), seen[p])

(* node.flag.store( true, release ) *)
FlagStore(p) ==
  /\ flag' = [flag EXCEPT ![At(index[p])] = TRUE]
  /\ rel' = StoreRelease(rel, FlagOf(At(index[p])), seen[p])

(* ... and return true *)
PushPublish(p) ==
  /\ pc[p] = "publish"
  /\ FlagStore(p)
  /\ pushed' = [pushed EXCEPT ![p] = @ + 1]
  /\ Goto(p, "idle")
  /\ UNCHANGED <<pcounter, head, tail, data, index, claims, received, seen>>

-----------------------------------------------------------------------------
(* pop, by the consumer *)

PopTakeUnchecked ==                    \* mutant: the flag is not looked at
  /\ pc[Consumer] = "idle"
  /\ Goto(Consumer, "move")
  /\ UNCHANGED <<pcounter, head, tail, flag, data, index, pushed, claims, received,
                 seen, rel>>

PopTakeLoad ==                         \* mutant: the flag is read, not exchanged
  /\ flag[At(tail)]
  /\ PopTakeUnchecked

(* node.flag.compare_exchange_strong( true, false, acquire, relaxed ) *)
PopTake ==
  /\ pc[Consumer] = "idle"
  /\ flag[At(tail)]
  /\ flag' = [flag EXCEPT ![At(tail)] = FALSE]
  /\ seen' = Acquire(seen, Consumer, rel[FlagOf(At(tail))])
  /\ Goto(Consumer, "move")
  /\ UNCHANGED <<pcounter, head, tail, data, index, pushed, claims, received, rel>>

(* dst = std::move( node.data ) *)
PopMove ==
  /\ pc[Consumer] = "move"
  /\ received' = Append(received, data[At(tail)])
  /\ seen' = Touch(seen, Consumer, At(tail))
  /\ rel' = Forget(rel, At(tail))
  /\ Goto(Consumer, "return")
  /\ UNCHANGED <<pcounter, head, tail, flag, data, index, pushed, claims>>

TokenAddRelaxed ==                     \* mutant: memory_order_relaxed
  /\ pcounter' = pcounter + 1
  /\ rel' = RmwRelaxed(rel, Pcounter, seen[Consumer])

(* pcounter_.fetch_add( 1, release ) *)
TokenAdd ==
  /\ pcounter' = pcounter + 1
  /\ rel' = RmwRelease(rel, Pcounter, seen[Consumer])

ReturnToken ==
  /\ pc[Consumer] = "return"
  /\ TokenAdd
  /\ Goto(Consumer, "idle")
  /\ UNCHANGED <<head, flag, data, index, pushed, claims, received, seen>>

PopReturnStuck     == ReturnToken /\ tail' = tail       \* mutant
PopReturnBackwards == ReturnToken /\ tail' = tail - 1   \* mutant

(* ... and ++tail_, which only the consumer uses *)
PopReturn == ReturnToken /\ tail' = tail + 1

-----------------------------------------------------------------------------
Attempt(p) == PushReserve(p) \/ PushReject(p)
Finish(p)  == PushUndo(p) \/ PushClaim(p) \/ PushWrite(p) \/ PushPublish(p)
Pop        == PopTake \/ PopMove \/ PopReturn

(* Every producer pushed its elements and the consumer received as many. *)
Done ==
  /\ \A p \in Producers : pushed[p] = MaxPush
  /\ pc[Consumer] = "idle"
  /\ tail = head

Terminating == Done /\ UNCHANGED vars

Next ==
  \/ \E p \in Producers : Attempt(p) \/ Finish(p)
  \/ Pop
  \/ Terminating

Spec == Init /\ [][Next]_vars

(* A thread that is inside a call is scheduled again, and the consumer keeps *)
(* calling pop; nobody has to call push.                                     *)
Fairness ==
  /\ \A p \in Producers : WF_vars(Finish(p))
  /\ WF_vars(Pop)

FairSpec == Spec /\ Fairness

(* ... and the producers repeat a push that failed, as the tests do. *)
RetrySpec == FairSpec /\ \A p \in Producers : WF_vars(Attempt(p))

-----------------------------------------------------------------------------
(* Properties *)

AtLabel(label) == {p \in Producers : pc[p] = label}
Undoing        == Cardinality(AtLabel("undo"))
Claiming       == Cardinality(AtLabel("claim"))
Working        == {p \in Producers : pc[p] \in {"write", "publish"}}

(* pcounter_ and the tickets account for every node: a token is free (a    *)
(* failing push borrows one for a moment and may take the counter below    *)
(* zero), in the hands of a producer that has no ticket yet, or stands for *)
(* a ticket the consumer has not finished.                                 *)
TokensConserved ==
  /\ pcounter + Undoing >= 0
  /\ pcounter + Undoing + Claiming + (head - tail) = Size

(* No two threads use one node at a time, and a producer never gets a node *)
(* that still holds an element the consumer has not taken.                 *)
SlotExclusive ==
  /\ \A p, q \in Working : p # q => At(index[p]) # At(index[q])
  /\ \A p \in Working :
       /\ ~flag[At(index[p])]
       /\ pc[Consumer] # "idle" => At(index[p]) # At(tail)

(* What pop returned is what was pushed, in the order of the tickets:      *)
(* nothing lost, duplicated, reordered, or read before it was written.     *)
FifoOrder ==
  /\ Len(received) <= Len(claims)
  /\ \A i \in 1 .. Len(received) : received[i] = claims[i]

(* What pop moves out of a node happened after the producer's write: the   *)
(* release store and the acquire exchange of its flag order the two plain  *)
(* accesses for any number of producers.                                   *)
ConsumerOrdered == pc[Consumer] = "move" => At(tail) \in seen[Consumer]

(* A producer that starts a push now acquires, with its token, the latest  *)
(* access to every free node: pop's release increment of pcounter_ carries *)
(* it.  The token does not name the node, though: a producer whose token   *)
(* is older than the release may claim the node first (see README.md).     *)
FreeNodesReleased ==
  \A p \in Producers, k \in head .. tail + Size - 1 :
    At(k) \in seen[p] \cup rel[Pcounter]

(* Both together: plain accesses to a node are ordered whichever way it is *)
(* handed over (scmp_ring_array.h:77, 84, 95, 97).                         *)
HandoversOrdered == ConsumerOrdered /\ FreeNodesReleased

(* pop fails only for the documented reason: while the consumer is idle,   *)
(* the flag it looks at is set exactly if the oldest ticket not consumed   *)
(* is published, whatever the younger ones are.                            *)
PopSeesOldest ==
  pc[Consumer] = "idle" =>
    (flag[At(tail)] <=> tail < head /\ \A p \in Working : index[p] # tail)

(* Every element that got a ticket is received in the end. *)
ClaimsDelivered ==
  \A e \in Elements :
    (\E i \in 1 .. Len(claims) : claims[i] = e)
      ~> (\E i \in 1 .. Len(received) : received[i] = e)

(* What the tests check: every value produced is received. *)
AllDelivered == <>(Len(received) = Cardinality(Producers) * MaxPush)

(* The container implements the abstract line of tickets. *)
Line == SubSeq(claims, Len(received) + 1, Len(claims))

Unpublished == {NextElement(p) : p \in Working}

TQ == INSTANCE TicketQueue WITH
        Elements <- Elements,
        Capacity <- Size,
        line     <- Line,
        ready    <- {Line[i] : i \in 1 .. Len(Line)} \ Unpublished,
        taken    <- received

ImplementsTicketQueue == TQ!Spec
=============================================================================
