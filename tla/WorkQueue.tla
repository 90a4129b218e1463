----------------------------- MODULE WorkQueue -----------------------------
(***************************************************************************)
(* What bstd::ds::ts::Queue promises: a first-in-first-out queue that many *)
(* threads use, each item delivered to at most one of them, and a waitPop  *)
(* that gives up only once the queue is closed and drained.                *)
(***************************************************************************)
EXTENDS Naturals, Sequences

CONSTANTS Threads, Items, NoItem

VARIABLES
  items,   \* oldest first
  closed,
  out      \* thread -> what its last taking call returned

Init == items = <<>> /\ closed = FALSE /\ out = [t \in Threads |-> NoItem]

\* Any number of items, added together behind the others.
Put ==
  /\ items' \in Seq(Items)
  /\ Len(items') >= Len(items)
  /\ SubSeq(items', 1, Len(items)) = items
  /\ UNCHANGED <<closed, out>>

Deliver(t) ==
  /\ items # <<>>
  /\ items' = Tail(items)
  /\ out' = [out EXCEPT ![t] = Head(items)]
  /\ UNCHANGED closed

\* tryPop on an empty queue, or waitPop on a closed and drained one.
Refuse(t) ==
  /\ items = <<>>
  /\ out' = [out EXCEPT ![t] = NoItem]
  /\ UNCHANGED <<items, closed>>

Discard == items # <<>> /\ items' = Tail(items) /\ UNCHANGED <<closed, out>>
Empty   == items' = <<>> /\ UNCHANGED <<closed, out>>
Close   == closed' = TRUE /\ UNCHANGED <<items, out>>

Next ==
  \/ Put
  \/ \E t \in Threads : Deliver(t) \/ Refuse(t)
  \/ Discard
  \/ Empty
  \/ Close

Spec == Init /\ [][Next]_<<items, closed, out>>
=============================================================================
