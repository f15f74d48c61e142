---------------------------- MODULE BoundedFifo ----------------------------
(***************************************************************************)
(* A bounded queue of numbered items: what the A2DP demo task and the      *)
(* speaker task expect of the node ring they share.  Items are accepted in *)
(* order as long as the queue has room, an item offered to a full queue is *)
(* lost, and items leave in the order they came.                           *)
(***************************************************************************)
EXTENDS Integers, Sequences

CONSTANT Capacity

VARIABLES
  queue,     \* the items that wait, the oldest first
  accepted,  \* the number of items accepted so far: the last one's number
  lost       \* the number of items refused

vars == <<queue, accepted, lost>>

Init ==
  /\ queue = <<>>
  /\ accepted = 0
  /\ lost = 0

Accept ==
  /\ Len(queue) < Capacity
  /\ queue' = Append(queue, accepted + 1)
  /\ accepted' = accepted + 1
  /\ UNCHANGED lost

\* An item is refused only when the queue is full.
Refuse ==
  /\ Len(queue) = Capacity
  /\ lost' = lost + 1
  /\ UNCHANGED <<queue, accepted>>

Take ==
  /\ queue # <<>>
  /\ queue' = Tail(queue)
  /\ UNCHANGED <<accepted, lost>>

Next == Accept \/ Refuse \/ Take

Spec == Init /\ [][Next]_vars

=============================================================================
