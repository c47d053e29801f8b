---------------------------- MODULE BoundedFifo ----------------------------
(***************************************************************************)
(* What spsc_queue promises: a lossless bounded FIFO.  A range is offered  *)
(* and then either appended as a whole, in order, or refused; elements     *)
(* leave one by one, oldest first, into the hands of the consumer, unless  *)
(* it is clearing the queue.  Nothing else adds, drops or reorders.        *)
(***************************************************************************)
EXTENDS Integers, Sequences

CONSTANTS N, Elements, Raw

VARIABLES
  items,      \* the elements enqueued
  offered,    \* the range the producer is trying to enqueue
  received,   \* the element the consumer got last
  clearing,   \* the consumer is discarding
  closed      \* the queue has been destroyed

vars == <<items, offered, received, clearing, closed>>

Init ==
  /\ items = <<>> /\ offered = <<>> /\ received = Raw
  /\ clearing = FALSE /\ closed = FALSE

Offer ==
  /\ offered = <<>>
  /\ offered' \in Seq(Elements)
  /\ UNCHANGED <<items, received, clearing, closed>>

Accept ==
  /\ Len(items) + Len(offered) <= N
  /\ items' = items \o offered
  /\ offered' = <<>>
  /\ UNCHANGED <<received, clearing, closed>>

Refuse == offered' = <<>> /\ UNCHANGED <<items, received, clearing, closed>>

Deliver ==
  /\ items # <<>> /\ ~clearing
  /\ received' = Head(items)
  /\ items' = Tail(items)
  /\ UNCHANGED <<offered, clearing, closed>>

Discard ==
  /\ items # <<>> /\ clearing
  /\ items' = Tail(items)
  /\ UNCHANGED <<offered, received, clearing, closed>>

Clear == clearing' = ~clearing /\ UNCHANGED <<items, offered, received, closed>>

(* The destructor drops what is left, between calls.                        *)
Close ==
  /\ offered = <<>> /\ ~clearing /\ ~closed
  /\ items' = <<>>
  /\ closed' = TRUE
  /\ UNCHANGED <<offered, received, clearing>>

Next == Offer \/ Accept \/ Refuse \/ Deliver \/ Discard \/ Clear \/ Close

Spec == Init /\ [][Next]_vars
=============================================================================
