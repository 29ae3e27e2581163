----------------------------- MODULE MemoryOrder -----------------------------
(***************************************************************************)
(* The part of the C++11 memory model that the containers rely on: which   *)
(* std::memory_order makes which plain (non-atomic) access happen before   *)
(* which other one.                                                        *)
(*                                                                         *)
(* The specifications interleave atomic operations, each of which reads    *)
(* the latest value; what a memory order adds is recorded in two maps:     *)
(*                                                                         *)
(*   seen[t]  the plain locations whose latest access happens before the   *)
(*            next step of thread t;                                       *)
(*   rel[a]   the locations that an acquire operation reading the atomic a *)
(*            adds to seen of its thread (the release sequence headed by   *)
(*            the release operations on a).                                *)
(*                                                                         *)
(* A thread that touches a location outside seen[t] is in a data race with *)
(* the latest access.                                                      *)
(***************************************************************************)

(* memory_order_acquire on an atomic whose release sequence carries view.  *)
Acquire(seen, t, view) == [seen EXCEPT ![t] = @ \cup view]

(* store(.., memory_order_relaxed) ends the release sequence ...           *)
StoreRelaxed(rel, a, view) == [rel EXCEPT ![a] = {}]

(* ... and store(.., memory_order_release) heads a new one.                *)
StoreRelease(rel, a, view) == [rel EXCEPT ![a] = view]

(* A relaxed read-modify-write continues the sequences it reads from ...   *)
RmwRelaxed(rel, a, view) == rel

(* ... and one with release semantics heads one of its own as well.        *)
RmwRelease(rel, a, view) == [rel EXCEPT ![a] = @ \cup view]

(* After thread t touches loc, nobody else has seen the latest access ...  *)
Touch(seen, t, loc) ==
  [u \in DOMAIN seen |-> IF u = t THEN seen[u] \cup {loc} ELSE seen[u] \ {loc}]

(* ... and no release operation that came before it carries it.            *)
Forget(rel, loc) == [a \in DOMAIN rel |-> rel[a] \ {loc}]
=============================================================================
