--------------------------- MODULE PriceTimeBook ---------------------------
(***************************************************************************)
(* What OrderBook promises, without its data structures: each price of     *)
(* each side is a queue of orders, oldest first.  There is no pool, no     *)
(* links, no level vector, no cached aggregate and no index: the best      *)
(* price is found by looking, an order by its id.  An incoming order       *)
(* trades with the oldest order at the best price, one execution at a      *)
(* time; every other operation is a single step.                           *)
(***************************************************************************)
EXTENDS OrderQueues

CONSTANTS Prices, Volumes, OrderIds, kAnonymous, Orders, Ops, UniqueIds, Capacity

VARIABLES
  queue,     \* queue[side][price]: the orders resting there, oldest first
  request    \* the order being matched, or Idle, or Aborted

vars == <<queue, request>>

Sides == {"BID", "ASK"}
Opposite(side) == IF side = "BID" THEN "ASK" ELSE "BID"
Better(side, p, q) == IF side = "BID" THEN p > q ELSE p < q

Idle == [op |-> "idle"]
Aborted == [op |-> "aborted"]

(* The places where orders rest: <<side, price, position>>.                 *)
PlacesAt(side, price) ==
  LET q == queue IN {<<side, price, k>> : k \in DOMAIN q[side][price]}
Places == UNION {PlacesAt(s, p) : s \in Sides, p \in Prices}
RestingIds == LET q == queue IN {q[x[1]][x[2]][x[3]].id : x \in Places}

(* The prices at which an order may trade: not worse than its limit, and    *)
(* somebody rests there.                                                    *)
Tradable(o) ==
  {p \in Prices : /\ queue[Opposite(o.side)][p] # <<>>
                  /\ ~Better(Opposite(o.side), o.price, p)}
BestOf(side, S) == CHOOSE p \in S : \A q \in S : ~Better(side, q, p)

(* The orders at some of these prices suffice for the whole of o.           *)
Fillable(o) ==
  \E n \in 0 .. Cardinality(Tradable(o)) :
    \E at \in [1 .. n -> Tradable(o)] :
      /\ IsInjective(at)
      /\ PartialSums([k \in 1 .. n |-> Volume(queue[Opposite(o.side)][at[k]])])[n] >= o.volume

-----------------------------------------------------------------------------

Init ==
  /\ queue = [s \in Sides |-> [p \in Prices |-> <<>>]]
  /\ request = Idle

Rest(id, side, price, volume) ==
  \/ /\ request' = Aborted
     /\ Cardinality(Places) >= Capacity
     /\ UNCHANGED queue
  \/ /\ request' = Idle
     /\ Cardinality(Places) < Capacity
     /\ queue' = [queue EXCEPT ![side][price] =
                    Append(@, [id |-> id, volume |-> volume])]

Place(o) ==
  /\ request = Idle
  /\ request' = [op |-> "match", order |-> o, volume |-> o.volume, trades |-> <<>>]
  /\ UniqueIds => o.id \notin RestingIds \ {kAnonymous}
  /\ o.volume > 0
  /\ o.type = "FILL_OR_KILL" => Fillable(o)
  /\ UNCHANGED queue

Execute ==
  /\ request.op = "match"
  /\ request.volume > 0
  /\ Tradable(request.order) # {}
  /\ LET o      == request.order
         side   == Opposite(o.side)
         price  == BestOf(side, Tradable(o))
         oldest == Head(queue[side][price])
         fill   == IF request.volume <= oldest.volume THEN request.volume
                                                      ELSE oldest.volume
     IN  /\ request' = [request EXCEPT
              !.volume = @ - fill,
              !.trades = Append(@, [aggressor |-> o.id, resting |-> oldest.id,
                                    price |-> price, volume |-> fill])]
         /\ queue' = [queue EXCEPT ![side][price] = Drained(@, fill)]

Finish ==
  /\ request.op = "match"
  /\ request.volume = 0 \/ Tradable(request.order) = {}
  /\ LET o == request.order
     IN  IF request.volume > 0 /\ o.type = "GOOD_TILL_CANCELED"
           THEN Rest(o.id, o.side, o.price, request.volume)
           ELSE request' = Idle /\ UNCHANGED queue

Cancel(id) ==
  /\ request = Idle
  /\ UNCHANGED request
  /\ id # kAnonymous
  /\ LET q == queue
     IN  \E place \in Places :
           /\ q[place[1]][place[2]][place[3]].id = id
           /\ queue' = [q EXCEPT ![place[1]][place[2]] = RemoveAt(@, place[3])]

Add(side, price, volume) ==
  /\ request = Idle
  /\ volume > 0
  /\ Rest(kAnonymous, side, price, volume)

Delete(side, price, volume) ==
  /\ request = Idle
  /\ UNCHANGED request
  /\ queue' = [queue EXCEPT ![side][price] = Drained(@, volume)]

(* Only the aggregate survives: the level becomes one order.                *)
Set(side, price, volume) ==
  /\ request = Idle
  /\ IF volume > 0 /\ queue[side][price] = <<>>
       THEN Rest(kAnonymous, side, price, volume)
       ELSE /\ queue' = [queue EXCEPT ![side][price] =
                           IF volume > 0 THEN <<[Head(@) EXCEPT !.volume = volume]>>
                                         ELSE <<>>]
            /\ UNCHANGED request

Next ==
  \/ "place_order" \in Ops /\ \E o \in Orders : Place(o)
  \/ Execute
  \/ Finish
  \/ "cancel_order" \in Ops /\ \E id \in OrderIds : Cancel(id)
  \/ \E side \in Sides, price \in Prices, volume \in Volumes :
       \/ "add_order" \in Ops /\ Add(side, price, volume)
       \/ "delete_order" \in Ops /\ Delete(side, price, volume)
       \/ "set_level" \in Ops /\ Set(side, price, volume)

Spec == Init /\ [][Next]_vars
=============================================================================
