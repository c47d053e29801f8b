------------------------ MODULE SpscQueueRefinement ------------------------
(***************************************************************************)
(* SpscQueue implements BoundedFifo.  An element is enqueued when the      *)
(* write cursor that covers it is published, and gone when the consumer    *)
(* has taken it out of its slot, before the read cursor is published.      *)
(***************************************************************************)
EXTENDS SpscQueue

itemsBar ==
  [k \in 1 .. IF alive THEN Minus(write_position_, LiveFrom) ELSE 0 |->
     storage[calculate_index(Plus(LiveFrom, k - 1))]]

offeredBar == IF producer.pc = "idle" THEN <<>> ELSE producer.batch

clearingBar == consumer.pc # "idle" /\ consumer.op = "clear"

Fifo == INSTANCE BoundedFifo WITH
          items <- itemsBar, offered <- offeredBar, received <- out,
          clearing <- clearingBar, closed <- ~alive

(* Every range that was accepted is delivered whole, in order, once; "No    *)
(* enqueued element is ever overwritten or dropped" (class comment).        *)
Lossless == Fifo!Spec
=============================================================================
