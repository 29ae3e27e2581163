----------------------------- MODULE TicketQueue -----------------------------
(***************************************************************************)
(* What every multi-producer, single-consumer container of the library     *)
(* promises.  A producer first takes a place in the line (one atomic       *)
(* read-modify-write) and publishes its element later; the consumer takes  *)
(* elements in the order of the places, and cannot pass an element that is *)
(* not published yet.  ring_bar.h says it of RingBar: the master always    *)
(* gets elements in the order they were fetched by producers, it cannot    *)
(* get a READY element if there is a NOT-READY one before it.              *)
(***************************************************************************)
EXTENDS Naturals, Sequences

CONSTANTS
  Elements,   \* what is exchanged; an element is in the line at most once
  Capacity    \* the number of places in the line

VARIABLES
  line,       \* the elements that have a place and were not taken
  ready,      \* the elements of the line that are published
  taken       \* every element the consumer received, in that order

vars == <<line, ready, taken>>

InLine == {line[i] : i \in 1 .. Len(line)}

Init ==
  /\ line = << >>
  /\ ready = {}
  /\ taken = << >>

Claim(e) ==
  /\ e \notin InLine
  /\ Len(line) < Capacity
  /\ line' = Append(line, e)
  /\ UNCHANGED <<ready, taken>>

Publish(e) ==
  /\ e \in InLine \ ready
  /\ ready' = ready \cup {e}
  /\ UNCHANGED <<line, taken>>

Take ==
  /\ line # << >>
  /\ Head(line) \in ready
  /\ taken' = Append(taken, Head(line))
  /\ ready' = ready \ {Head(line)}
  /\ line' = Tail(line)

Next == Take \/ \E e \in Elements : Claim(e) \/ Publish(e)

Spec == Init /\ [][Next]_vars
=============================================================================
