------------------------ MODULE OrderBookRefinement ------------------------
(***************************************************************************)
(* OrderBook implements PriceTimeBook.  The queue at a price is read off   *)
(* the intrusive list of its level.  delete_order and set_level take       *)
(* effect when they are entered: while their loop runs, the queue is       *)
(* already what will be left when it ends, so the remaining iterations     *)
(* must be invisible.                                                      *)
(***************************************************************************)
EXTENDS OrderBook, OrderQueues

(* The orders linked behind the head of a level.                            *)
Contents(b, lvl) ==
  LET fifo == Fifo(b, lvl)
  IN  [k \in DOMAIN fifo |-> b.pool.nodes[fifo[k]].value]

(* The orders resting at a price.                                           *)
OrdersAt(b, side, price) ==
  LET at == {i \in DOMAIN b.levels[side] : b.levels[side][i].price = price}
  IN  IF at = {} THEN <<>> ELSE Contents(b, b.levels[side][CHOOSE i \in at : TRUE])

(* The price whose level the running function empties or collapses.         *)
Reworks(side, price) ==
  /\ call.op \in {"delete_order", "clear_level", "collapse_level"}
  /\ call.side = side
  /\ CalledLevel.price = price

(* What the running function will have made of its level's orders.          *)
Outcome(orders) ==
  CASE call.op = "delete_order" -> Drained(orders, call.volume)
    [] call.op = "clear_level" -> <<>>
    [] call.op = "collapse_level" -> <<[orders[1] EXCEPT !.volume = call.volume]>>

QueueAt(side, price) ==
  LET orders == OrdersAt(book, side, price)
  IN  IF Reworks(side, price) THEN Outcome(orders) ELSE orders

queueBar == [side \in Sides |-> [price \in Prices |-> QueueAt(side, price)]]
requestBar == IF call.op \in {"match", "aborted"} THEN call ELSE Idle

PTB == INSTANCE PriceTimeBook WITH queue <- queueBar, request <- requestBar

(* Price-time priority: every step of the engine is a step of the queues    *)
(* it stands for, or changes nothing that can be observed.                  *)
Refines == PTB!Spec
=============================================================================
