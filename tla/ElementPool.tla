----------------------------- MODULE ElementPool -----------------------------
(***************************************************************************)
(* What the pools promise.  An element is lent to one user, or waits in a  *)
(* line to be lent again.  A user releases its element in two moments: it  *)
(* takes a place in the line, and the place is tied to the line later; the *)
(* consumer obtains the elements in the order of the places, and cannot    *)
(* pass a place that is not tied yet.                                      *)
(***************************************************************************)
EXTENDS Naturals, Sequences

CONSTANTS
  Elements    \* whatever the pool lends

VARIABLES
  line,       \* the elements in the pool, the one to be lent first at the head
  ready,      \* those that can be lent as soon as they are at the head
  lent        \* the elements in use

vars == <<line, ready, lent>>

InLine == {line[i] : i \in 1 .. Len(line)}

Init ==
  /\ line \in Seq(Elements)
  /\ \A i, j \in 1 .. Len(line) : line[i] = line[j] => i = j
  /\ ready \subseteq InLine
  /\ lent = {}

Create(e) ==
  /\ e \notin InLine \cup lent
  /\ lent' = lent \cup {e}
  /\ UNCHANGED <<line, ready>>

Release(e) ==
  /\ e \in lent
  /\ lent' = lent \ {e}
  /\ line' = Append(line, e)
  /\ UNCHANGED ready

Tie(e) ==
  /\ e \in InLine \ ready
  /\ ready' = ready \cup {e}
  /\ UNCHANGED <<line, lent>>

Lend ==
  /\ line # << >>
  /\ Head(line) \in ready
  /\ line' = Tail(line)
  /\ ready' = ready \ {Head(line)}
  /\ lent' = lent \cup {Head(line)}

(* The pool is destroyed, with what is in it, when nothing is lent. *)
Destroy ==
  /\ lent = {}
  /\ line # << >>
  /\ line' = Tail(line)
  /\ ready' = ready \ {Head(line)}
  /\ UNCHANGED lent

Next == Lend \/ Destroy \/ \E e \in Elements : Create(e) \/ Release(e) \/ Tie(e)

Spec == Init /\ [][Next]_vars
=============================================================================
