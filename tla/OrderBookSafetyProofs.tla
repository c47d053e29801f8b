----------------------- MODULE OrderBookSafetyProofs -----------------------
(***************************************************************************)
(* What makes the order book correct, for every capacity, every set of     *)
(* orders and every sequence of calls: its lists are linked and share no   *)
(* slot, its aggregates are exact, its index has exactly the resting       *)
(* orders, it stops only when the pool is full, executions are in price    *)
(* order, and a fill-or-kill that was accepted is filled.                  *)
(*                                                                         *)
(* The inductive invariant SafeInv is that the book has a layout           *)
(* (OrderBookProofs) the aggregates and the index agree with, in every     *)
(* state but those of a running set_level; there the book has one once     *)
(* what the loop has yet to do is undone (Repaired).  MatchInv adds what   *)
(* matching needs.                                                         *)
(*                                                                         *)
(* The second half shows that the book implements PriceTimeBook, the       *)
(* price-time priority of queues of orders (KeepsPriceTimePriority).       *)
(***************************************************************************)
EXTENDS OrderBookProofs, OrderBookRefinement, FiniteSetTheorems

USE DEF null_index, kNull

-----------------------------------------------------------------------------
(* The inductive invariant of the lists                                     *)

(* The lists have a layout.  While set_level collapses a level the book has *)
(* one once the node to free next is linked back to the head; the aggregate *)
(* of a level that set_level is emptying or collapsing is out of date.      *)
ListInv ==
  IF call.op = "clear_level" THEN GoodBut(book, call.side, call.it)
  ELSE IF call.op = "collapse_level"
    THEN GoodBut(Repaired(book, call.side, call.it, call.node), call.side, call.it)
  ELSE Good(book)

(* What the callers guarantee: set_level is not mixed with identified       *)
(* orders, and with UniqueIds a new order's id is not that of another.      *)
CallersInv ==
  /\ call.op = "match" => "place_order" \in Ops
  /\ call.op = "match" /\ UniqueIds => call.order.id \notin DOMAIN book.index
  /\ call.op \in {"clear_level", "collapse_level"} => "set_level" \in Ops
  /\ "set_level" \in Ops => DOMAIN book.index = {}
  /\ call.op = "collapse_level" => call.volume > 0
  /\ call.op = "aborted" => Exhausted(book.pool)

(* The inductive invariant: types and order of the levels, lists, callers. *)
SafeInv == Inv /\ ListInv /\ CallersInv

(* The members of the invariant between two operations.                     *)
LEMMA ReturnSafe ==
  ASSUME Good(book'), call' = Idle \/ (call' = Aborted /\ Exhausted(book'.pool)),
         "set_level" \in Ops => DOMAIN book'.index = {}
  PROVE  ListInv' /\ CallersInv'
<1>1. call'.op \in {"idle", "aborted"}
  BY Records
<1>2. /\ ~(call'.op = "clear_level") /\ ~(call'.op = "collapse_level")
      /\ ~(call'.op = "match") /\ ~(call'.op \in {"clear_level", "collapse_level"})
  BY <1>1
<1>3. ListInv'
  BY <1>2 DEF ListInv
<1>4. call'.op = "aborted" => Exhausted(book'.pool)
  BY Records
<1> QED BY <1>2, <1>3, <1>4 DEF CallersInv

(* The same in the middle of a match or of delete_order.                    *)
LEMMA IdleSafe ==
  ASSUME SafeInv, call = Idle
  PROVE  Good(book) /\ ("set_level" \in Ops => DOMAIN book.index = {})
<1>1. call.op = "idle"
  BY Records
<1> QED BY <1>1 DEF SafeInv, ListInv, CallersInv

(* The index only ever loses what it held, but for an order that rests.     *)
LEMMA IndexShrinks ==
  ASSUME NEW b, NEW side, NEW it, NEW amount, NEW id
  PROVE  /\ DOMAIN pop_front(b, side, it).index \subseteq DOMAIN b.index
         /\ DOMAIN take(b, side, it, amount).index \subseteq DOMAIN b.index
         /\ DOMAIN erase_if_empty(b, side, it).index = DOMAIN b.index
         /\ DOMAIN cancelled(b, it, id).index \subseteq DOMAIN b.index
<1>1. \A c, node : DOMAIN unindex(c, node) \subseteq DOMAIN c.index
  BY DEF unindex, Erase
<1>2. \A c, i : DOMAIN erase_if_empty(c, side, i).index = DOMAIN c.index
  BY DEF erase_if_empty
<1>3. \A c : DOMAIN pop_front(c, side, it).index \subseteq DOMAIN c.index
  <2> TAKE c
  <2>1. pop_front(c, side, it).index = unindex(c, c.levels[side][it].head)
    BY DEF pop_front
  <2> QED BY <1>1, <2>1
<1>4. DOMAIN take(b, side, it, amount).index \subseteq DOMAIN b.index
  <2> DEFINE lvl == b.levels[side][it]
             left == b.pool.nodes[lvl.head].value.volume - amount
             b1 == [pool |-> set_value(b.pool, lvl.head,
                               [id |-> b.pool.nodes[lvl.head].value.id, volume |-> left]),
                    levels |-> [b.levels EXCEPT ![side][it] =
                                 [price        |-> lvl.price,
                                  total_volume |-> lvl.total_volume - amount,
                                  head         |-> lvl.head,
                                  tail         |-> lvl.tail]],
                    index |-> b.index]
  <2>1. take(b, side, it, amount) = IF left = 0 THEN pop_front(b1, side, it) ELSE b1
    BY DEF take
  <2>2. b1.index = b.index
    OBVIOUS
  <2> HIDE DEF b1, left
  <2> QED BY <1>3, <2>1, <2>2
<1>5. DOMAIN cancelled(b, it, id).index \subseteq DOMAIN b.index
  <2> DEFINE loc == b.index[id]
             b1 == unlink(b, loc.side, it, loc.node)
             lvl == b1.levels[loc.side][it]
             b2 == [pool   |-> deallocate(b1.pool, loc.node),
                    levels |-> [b1.levels EXCEPT ![loc.side][it] =
                                 [price        |-> lvl.price,
                                  total_volume |-> lvl.total_volume
                                                   - b.pool.nodes[loc.node].value.volume,
                                  head         |-> lvl.head,
                                  tail         |-> lvl.tail]],
                    index  |-> Erase(b1.index, id)]
  <2>1. cancelled(b, it, id) = erase_if_empty(b2, loc.side, it)
    BY DEF cancelled
  <2>2. b2.index = Erase(b1.index, id) /\ b1.index = b.index
    BY DEF unlink
  <2>3. DOMAIN b2.index \subseteq DOMAIN b.index
    BY <2>2 DEF Erase
  <2> HIDE DEF b2
  <2>4. DOMAIN erase_if_empty(b2, loc.side, it).index = DOMAIN b2.index
    BY DEF erase_if_empty
  <2> QED BY <2>1, <2>3, <2>4
<1> QED BY <1>2, <1>3, <1>4, <1>5

-----------------------------------------------------------------------------
(* One lemma per action                                                     *)

(* An indexed order is a resting one.                                       *)
LEMMA IndexedRests ==
  ASSUME NEW b, BookOK(b), NEW ends, NEW place, Laid(b, ends, place), NEW id \in DOMAIN b.index
  PROVE  /\ b.index[id].node \in LiveNodes(b.pool)
         /\ b.pool.nodes[b.index[id].node].value.id = id
         /\ id # kAnonymous
<1> DEFINE N == Len(b.pool.nodes)
           node == b.index[id].node
<1>1. N \in Nat /\ PoolOK(b.pool) /\ IndexOK(b.index, N)
  BY BookFields
<1>2. /\ node \in 1 .. N /\ id # kAnonymous
      /\ b.index[id].side \in Sides /\ b.index[id].price \in Prices
  BY <1>1 DEF IndexOK, LocationType
<1>3. place[node].key \in Keys /\ b.pool.nodes[node].value.id = id
  <2>1. /\ place[node].key = <<b.index[id].side, b.index[id].price>>
        /\ b.pool.nodes[node].value.id = id
    BY DEF Laid, Sound
  <2>2. <<b.index[id].side, b.index[id].price>> \in Keys
    BY <1>2, KeyFacts
  <2> HIDE DEF node
  <2> QED BY <2>1, <2>2
<1>4. node \notin ToSet(b.pool.free_list)
  BY <1>2, <1>3 DEF Laid, FreeOK
<1>5. DOMAIN b.pool.nodes = 1 .. N
  BY <1>1 DEF PoolOK
<1> QED BY <1>2, <1>3, <1>4, <1>5 DEF LiveNodes

(* place_order up to the loop leaves the book alone; the id it is about to *)
(* match under is not indexed.                                             *)
LEMMA PlaceOrderSafe ==
  ASSUME SafeInv, "place_order" \in Ops, NEW o \in Orders, PlaceOrder(o)
  PROVE  ListInv' /\ CallersInv'
<1>1. Good(book) /\ ("set_level" \in Ops => DOMAIN book.index = {}) /\ call = Idle
  BY IdleSafe DEF PlaceOrder
<1>2. book' = book
  BY DEF PlaceOrder
<1>3. CASE call' = Idle
  BY <1>1, <1>2, <1>3, ReturnSafe
<1>4. CASE call' = [op |-> "match", order |-> o, volume |-> o.volume, trades |-> <<>>]
  <2>1. call'.op = "match" /\ call'.order = o
    BY <1>4
  <2>2. UniqueIds => o.id \notin DOMAIN book.index
    <3>1. BookOK(book)
      BY InvFacts DEF SafeInv
    <3>2. PICK ends, place : Laid(book, ends, place)
      BY <1>1 DEF Good, Holds
    <3>3. \A id \in DOMAIN book.index : id \in RestingIds \ {kAnonymous}
      <4> TAKE id \in DOMAIN book.index
      <4>1. /\ book.index[id].node \in LiveNodes(book.pool)
            /\ book.pool.nodes[book.index[id].node].value.id = id
            /\ id # kAnonymous
        BY <3>1, <3>2, IndexedRests
      <4> QED BY <4>1 DEF RestingIds
    <3>4. UniqueIds => o.id \notin RestingIds \ {kAnonymous}
      BY DEF PlaceOrder
    <3> QED BY <3>3, <3>4
  <2>3. ListInv'
    BY <1>1, <1>2, <2>1 DEF ListInv
  <2>4. call'.order.id = o.id
    BY <2>1
  <2> QED BY <1>1, <1>2, <2>1, <2>2, <2>3, <2>4 DEF CallersInv
<1> QED BY <1>3, <1>4 DEF PlaceOrder

(* Resting an order, or stopping for want of a slot.                        *)
LEMMA RestAndReturnSafe ==
  ASSUME Inv, Good(book), Occupied(book.levels),
         NEW id \in OrderIds, NEW side \in Sides, NEW price \in Prices,
         NEW volume \in Int, volume > 0, RestAndReturn(id, side, price, volume),
         UniqueIds => id \notin DOMAIN book.index,
         "set_level" \in Ops => id = kAnonymous /\ DOMAIN book.index = {}
  PROVE  ListInv' /\ CallersInv'
<1>1. BookOK(book) /\ Sorted(book.levels)
  BY InvFacts
<1>2. CASE Exhausted(book.pool) /\ call' = Aborted /\ UNCHANGED book
  BY <1>2, ReturnSafe
<1>3. CASE /\ ~Exhausted(book.pool)
           /\ \E it \in find_level(book.levels[side], side, price) :
                book' = rest(book, it, id, side, price, volume)
           /\ call' = Idle
  <2>1. PICK it \in find_level(book.levels[side], side, price) :
          book' = rest(book, it, id, side, price, volume)
    BY <1>3
  <2>2. Good(rest(book, it, id, side, price, volume))
    BY <1>1, <1>3, GoodRest
  <2>3. "set_level" \in Ops => DOMAIN book'.index = {}
    <3> SUFFICES ASSUME "set_level" \in Ops PROVE DOMAIN book'.index = {}
      OBVIOUS
    <3>1. rest(book, it, id, side, price, volume).index = book.index
      BY DEF rest
    <3> QED BY <2>1, <3>1
  <2> QED BY <1>3, <2>1, <2>2, <2>3, ReturnSafe
<1> QED BY <1>2, <1>3 DEF RestAndReturn

(* add_order rests an anonymous order, or does nothing.                    *)
LEMMA AddOrderSafe ==
  ASSUME SafeInv, NEW side \in Sides, NEW price \in Prices, NEW volume \in Volumes,
         AddOrder(side, price, volume)
  PROVE  ListInv' /\ CallersInv'
<1>1. Good(book) /\ ("set_level" \in Ops => DOMAIN book.index = {}) /\ call = Idle
  BY IdleSafe DEF AddOrder
<1>2. Inv /\ BookOK(book) /\ Occupied(book.levels)
  BY <1>1, InvFacts DEF SafeInv
<1>3. CASE UNCHANGED vars
  BY <1>1, <1>3, ReturnSafe DEF vars
<1>4. CASE volume > 0 /\ RestAndReturn(kAnonymous, side, price, volume)
  <2>1. kAnonymous \in OrderIds /\ volume \in Int
    BY BookAssumption
  <2>2. kAnonymous \notin DOMAIN book.index
    BY <1>2, BookFields DEF IndexOK
  <2> QED BY <1>1, <1>2, <1>4, <2>1, <2>2, RestAndReturnSafe
<1> QED BY <1>3, <1>4 DEF AddOrder

(* cancel_order finds the level of the order it cancels, so it never       *)
(* aborts.                                                                 *)
LEMMA CancelOrderSafe ==
  ASSUME SafeInv, NEW id \in OrderIds, CancelOrder(id)
  PROVE  ListInv' /\ CallersInv'
<1>1. Good(book) /\ ("set_level" \in Ops => DOMAIN book.index = {}) /\ call = Idle
  BY IdleSafe DEF CancelOrder
<1>2. BookOK(book) /\ Sorted(book.levels)
  BY InvFacts DEF SafeInv
<1>3. CASE UNCHANGED vars
  BY <1>1, <1>3, ReturnSafe DEF vars
<1>4. CASE id \in DOMAIN book.index
  <2> DEFINE loc == book.index[id]
  <2>1. PICK it \in find_level(book.levels[loc.side], loc.side, loc.price) :
          IF Exists(book.levels[loc.side], it, loc.price)
            THEN book' = cancelled(book, it, id) /\ UNCHANGED call
            ELSE call' = Aborted /\ UNCHANGED book
    BY <1>4 DEF CancelOrder
  <2>2. Exists(book.levels[loc.side], it, loc.price) /\ Good(cancelled(book, it, id))
    BY <1>1, <1>2, <1>4, GoodCancel
  <2>3. DOMAIN cancelled(book, it, id).index \subseteq DOMAIN book.index
    BY IndexShrinks
  <2>4. book' = cancelled(book, it, id) /\ call' = Idle
    BY <1>1, <2>1, <2>2
  <2> QED BY <1>1, <2>2, <2>3, <2>4, ReturnSafe
<1> QED BY <1>3, <1>4 DEF CancelOrder

(* Entering delete_order changes nothing.                                   *)
LEMMA DeleteOrderSafe ==
  ASSUME SafeInv, NEW side \in Sides, NEW price \in Prices, NEW volume \in Volumes,
         DeleteOrder(side, price, volume)
  PROVE  ListInv' /\ CallersInv'
<1>1. Good(book) /\ ("set_level" \in Ops => DOMAIN book.index = {}) /\ call = Idle
  BY IdleSafe DEF DeleteOrder
<1>2. book' = book
  BY DEF DeleteOrder
<1>3. CASE call' = Idle
  BY <1>1, <1>2, <1>3, ReturnSafe
<1>4. CASE call'.op = "delete_order"
  <2>1. ListInv'
    BY <1>1, <1>2, <1>4 DEF ListInv
  <2> QED BY <1>1, <1>2, <1>4, <2>1 DEF CallersInv
<1>5. call' = Idle \/ call'.op = "delete_order"
  BY DEF DeleteOrder
<1> QED BY <1>3, <1>4, <1>5

(* Entering set_level: the level is new, or one of its two loops starts.    *)
LEMMA SetLevelSafe ==
  ASSUME SafeInv, "set_level" \in Ops,
         NEW side \in Sides, NEW price \in Prices, NEW volume \in Volumes,
         SetLevel(side, price, volume)
  PROVE  ListInv' /\ CallersInv'
<1>1. Good(book) /\ DOMAIN book.index = {} /\ call = Idle
  BY IdleSafe DEF SetLevel
<1>2. Inv /\ BookOK(book) /\ Sorted(book.levels) /\ Occupied(book.levels)
  BY <1>1, InvFacts DEF SafeInv
<1>3. PICK it \in find_level(book.levels[side], side, price) :
        LET exists == Exists(book.levels[side], it, price)
        IN  \/ /\ volume <= 0
               /\ call' = IF exists THEN [op |-> "clear_level", side |-> side, it |-> it]
                                    ELSE Idle
               /\ UNCHANGED book
            \/ /\ volume > 0
               /\ ~exists
               /\ RestAndReturn(kAnonymous, side, price, volume)
            \/ /\ volume > 0
               /\ exists
               /\ LET head == book.levels[side][it].head
                  IN  call' = [op |-> "collapse_level", side |-> side, it |-> it,
                               volume |-> volume,
                               node |-> book.pool.nodes[head].next]
               /\ UNCHANGED book
  BY DEF SetLevel
<1>4. CASE UNCHANGED book /\ call' = Idle
  BY <1>1, <1>4, ReturnSafe
<1>5. CASE UNCHANGED book /\ call' = [op |-> "clear_level", side |-> side, it |-> it]
  <2>1. call'.op = "clear_level" /\ call'.side = side /\ call'.it = it /\ book' = book
    BY <1>5
  <2>2. GoodBut(book, side, it)
    BY <1>1, GoodIsMore
  <2>3. ListInv'
    BY <2>1, <2>2 DEF ListInv
  <2> QED BY <1>1, <2>1, <2>3 DEF CallersInv
<1>6. CASE volume > 0 /\ RestAndReturn(kAnonymous, side, price, volume)
  <2>1. kAnonymous \in OrderIds /\ volume \in Int
    BY BookAssumption
  <2> QED BY <1>1, <1>2, <1>6, <2>1, RestAndReturnSafe
<1>7. CASE /\ volume > 0 /\ Exists(book.levels[side], it, price) /\ UNCHANGED book
           /\ call' = [op |-> "collapse_level", side |-> side, it |-> it, volume |-> volume,
                       node |-> book.pool.nodes[book.levels[side][it].head].next]
  <2> DEFINE h == book.levels[side][it].head
             node == book.pool.nodes[h].next
  <2>1. /\ call'.op = "collapse_level" /\ call'.side = side /\ call'.it = it
        /\ call'.volume = volume /\ call'.node = node /\ book' = book
    BY <1>7
  <2>2. it \in 1 .. Len(book.levels[side])
    <3>1. Len(book.levels[side]) \in Nat
      BY <1>2, BookFields, LevelsFacts
    <3> QED BY <1>7, <3>1 DEF Exists, find_level
  <2>3. IsHead(book, side, it, h) /\ h # kNull /\ node = book.pool.nodes[h].next
    BY <1>2, <2>2 DEF IsHead, Occupied
  <2> HIDE DEF h, node
  <2>4. GoodBut(Repaired(book, side, it, node), side, it)
    BY <1>1, <1>2, <2>2, <2>3, CollapseStarts
  <2>5. ListInv'
    BY <2>1, <2>4 DEF ListInv
  <2> QED BY <1>1, <1>7, <2>1, <2>5 DEF CallersInv
<1> QED BY <1>3, <1>4, <1>5, <1>6, <1>7

(* A fill takes a positive volume that the resting order has.               *)
LEMMA MatchStepSafe ==
  ASSUME SafeInv, MatchStep
  PROVE  ListInv' /\ CallersInv'
<1>1. call.op = "match" /\ Crossing
  BY DEF MatchStep
<1>2. /\ BookOK(book) /\ Sorted(book.levels) /\ Good(book) /\ Occupied(book.levels)
      /\ call \in [op : {"match"}, order : Orders, volume : Int, trades : Seq(Trade)]
  BY <1>1, InvFacts DEF SafeInv, ListInv
<1> DEFINE side == opposed(call.order.side)
           h == book.levels[side][1].head
           vol == book.pool.nodes[h].value.volume
           fill == Lesser(call.volume, vol)
           b1 == take(book, side, 1, fill)
<1>3. side \in Sides /\ call.volume \in Int
  BY <1>2, BookAssumption DEF opposed, Sides
<1>4. /\ book' = erase_if_empty(b1, side, 1)
      /\ call'.op = "match" /\ call'.order = call.order
      /\ h # kNull
  BY <1>2 DEF MatchStep
<1>5. 1 \in 1 .. Len(book.levels[side])
  <2>1. book.levels[side] # <<>>
    BY <1>1 DEF Crossing
  <2>2. Len(book.levels[side]) \in Nat /\ book.levels[side] \in Seq(LevelType(Len(book.pool.nodes)))
    BY <1>2, <1>3, BookFields, LevelsFacts
  <2> HIDE DEF side
  <2> QED BY <2>1, <2>2
<1> HIDE DEF side
<1>6. IsHead(book, side, 1, h)
  BY DEF IsHead
<1>7. vol \in Int /\ vol > 0
  <2>1. PICK ends, place : Laid(book, ends, place)
    BY <1>2 DEF Good, Holds
  <2> HIDE DEF h
  <2> QED BY <1>2, <1>3, <1>4, <1>5, <1>6, <2>1, HeadPlace
<1>8. fill \in Int /\ 0 < fill /\ fill <= vol
  <2>1. call.volume > 0
    BY <1>1 DEF Crossing
  <2> HIDE DEF vol
  <2> QED BY <1>3, <1>7, <2>1 DEF Lesser
<1> HIDE DEF fill, h
<1>9. Good(b1)
  BY <1>2, <1>3, <1>4, <1>5, <1>6, <1>8, GoodTake
<1>10. PICK head : UpdateOK(book, side, 1, b1, head)
  BY <1>2, <1>3, <1>4, <1>5, <1>6, <1>8, TakeOK DEF IsHead
<1>11. DOMAIN b1.index \subseteq DOMAIN book.index
  BY IndexShrinks
<1> HIDE DEF b1
<1>12. BookOK(b1) /\ 1 \in 1 .. Len(b1.levels[side])
  BY <1>2, <1>3, <1>5, <1>10, UpdateKeeps
<1>13. Good(erase_if_empty(b1, side, 1))
  BY <1>3, <1>9, <1>12, GoodErase
<1>14. DOMAIN book'.index \subseteq DOMAIN book.index
  BY <1>4, <1>11, IndexShrinks
<1>15. ListInv'
  BY <1>4, <1>13 DEF ListInv
<1>16. CallersInv'
  BY <1>1, <1>4, <1>14 DEF SafeInv, CallersInv
<1> QED BY <1>15, <1>16

(* What is left of a match rests, or is dropped.                            *)
LEMMA MatchReturnSafe ==
  ASSUME SafeInv, MatchReturn
  PROVE  ListInv' /\ CallersInv'
<1>1. call.op = "match"
  BY DEF MatchReturn
<1>2. /\ Inv /\ Good(book) /\ Occupied(book.levels)
      /\ call \in [op : {"match"}, order : Orders, volume : Int, trades : Seq(Trade)]
      /\ "place_order" \in Ops /\ "set_level" \notin Ops
      /\ UniqueIds => call.order.id \notin DOMAIN book.index
  BY <1>1, InvFacts, BookAssumption DEF SafeInv, ListInv, CallersInv
<1>3. /\ call.order.id \in OrderIds /\ call.order.side \in Sides
      /\ call.order.price \in Prices /\ call.volume \in Int
  BY <1>2, BookAssumption
<1>4. CASE call' = Idle /\ UNCHANGED book
  BY <1>2, <1>4, ReturnSafe
<1>5. CASE /\ call.volume > 0
           /\ RestAndReturn(call.order.id, call.order.side, call.order.price, call.volume)
  BY <1>2, <1>3, <1>5, RestAndReturnSafe
<1> QED BY <1>4, <1>5 DEF MatchReturn

(* delete_order takes what it may from the oldest order.                    *)
LEMMA DeleteStepSafe ==
  ASSUME SafeInv, DeleteStep
  PROVE  ListInv' /\ CallersInv'
<1>1. call.op = "delete_order" /\ call.volume > 0
  BY DEF DeleteStep
<1>2. /\ BookOK(book) /\ Sorted(book.levels) /\ Good(book)
      /\ call \in [op : {"delete_order"}, side : Sides, it : Nat, volume : Int]
      /\ call.side \in Sides /\ call.it \in 1 .. Len(book.levels[call.side])
  BY <1>1, InvFacts DEF SafeInv, ListInv
<1> DEFINE side == call.side
           it == call.it
           h == book.levels[side][it].head
           vol == book.pool.nodes[h].value.volume
           amount == Lesser(call.volume, vol)
           b1 == take(book, side, it, amount)
<1>3. h # kNull /\ book' = b1 /\ call'.op = "delete_order"
  BY <1>2 DEF DeleteStep, CalledLevel
<1>4. IsHead(book, side, it, h) /\ call.volume \in Int
  BY <1>2 DEF IsHead
<1> HIDE DEF side, it
<1>5. side \in Sides /\ it \in 1 .. Len(book.levels[side])
  BY <1>2 DEF side, it
<1>6. vol \in Int /\ vol > 0
  <2>1. PICK ends, place : Laid(book, ends, place)
    BY <1>2 DEF Good, Holds
  <2> HIDE DEF h
  <2> QED BY <1>2, <1>3, <1>4, <1>5, <2>1, HeadPlace
<1>7. amount \in Int /\ 0 < amount /\ amount <= vol
  <2> HIDE DEF vol
  <2> QED BY <1>1, <1>4, <1>6 DEF Lesser
<1> HIDE DEF amount, h
<1>8. Good(b1)
  BY <1>2, <1>3, <1>4, <1>5, <1>7, GoodTake
<1>9. DOMAIN book'.index \subseteq DOMAIN book.index
  BY <1>3, IndexShrinks
<1>10. ListInv'
  BY <1>3, <1>8 DEF ListInv
<1>11. CallersInv'
  BY <1>3, <1>9 DEF SafeInv, CallersInv
<1> QED BY <1>10, <1>11

(* The ends of the draining loops.                                          *)
LEMMA DrainReturnSafe ==
  ASSUME SafeInv, DeleteReturn \/ ClearReturn
  PROVE  ListInv' /\ CallersInv'
<1>1. /\ call.op \in {"delete_order", "clear_level"}
      /\ book' = erase_if_empty(book, call.side, call.it) /\ call' = Idle
      /\ call.op = "clear_level" => CalledLevel.head = kNull
  BY DEF DeleteReturn, ClearReturn
<1>2. /\ BookOK(book) /\ call.side \in Sides /\ call.it \in 1 .. Len(book.levels[call.side])
  BY <1>1, InvFacts DEF SafeInv
<1>3. \/ Good(book)
      \/ GoodBut(book, call.side, call.it) /\ book.levels[call.side][call.it].head = 0
  BY <1>1 DEF SafeInv, ListInv, CalledLevel
<1>4. Good(erase_if_empty(book, call.side, call.it))
  BY <1>2, <1>3, GoodErase
<1>5. "set_level" \in Ops => DOMAIN book'.index = {}
  <2>1. DOMAIN book'.index = DOMAIN book.index
    BY <1>1, IndexShrinks
  <2> QED BY <2>1 DEF SafeInv, CallersInv
<1> QED BY <1>1, <1>4, <1>5, ReturnSafe

(* set_level pops the orders of a level it removes.                         *)
LEMMA ClearStepSafe ==
  ASSUME SafeInv, ClearStep
  PROVE  ListInv' /\ CallersInv'
<1>1. /\ call.op = "clear_level" /\ CalledLevel.head # kNull
      /\ book' = pop_front(book, call.side, call.it) /\ call' = call
  BY DEF ClearStep
<1>2. /\ BookOK(book) /\ Sorted(book.levels)
      /\ call.side \in Sides /\ call.it \in 1 .. Len(book.levels[call.side])
      /\ GoodBut(book, call.side, call.it)
  BY <1>1, InvFacts DEF SafeInv, ListInv
<1> DEFINE h == book.levels[call.side][call.it].head
<1>3. IsHead(book, call.side, call.it, h) /\ h # kNull
  BY <1>1 DEF IsHead, CalledLevel
<1> HIDE DEF h
<1>4. GoodBut(pop_front(book, call.side, call.it), call.side, call.it)
  BY <1>2, <1>3, GoodPop
<1>5. DOMAIN book'.index \subseteq DOMAIN book.index
  BY <1>1, IndexShrinks
<1>6. ListInv'
  BY <1>1, <1>4 DEF ListInv
<1>7. CallersInv'
  BY <1>1, <1>5 DEF SafeInv, CallersInv
<1> QED BY <1>6, <1>7

(* set_level frees the next node behind the head.                           *)
LEMMA CollapseStepSafe ==
  ASSUME SafeInv, CollapseStep
  PROVE  ListInv' /\ CallersInv'
<1> DEFINE side == call.side
           it == call.it
           node == call.node
           h == book.levels[side][it].head
           a == [pool |-> deallocate(book.pool, node), levels |-> book.levels,
                 index |-> book.index]
           next == book.pool.nodes[node].next
<1>1. call.op = "collapse_level" /\ node # kNull /\ book' = a
  BY DEF CollapseStep
<1>2. /\ BookOK(book) /\ Sorted(book.levels) /\ Occupied(book.levels)
      /\ side \in Sides /\ it \in 1 .. Len(book.levels[side])
      /\ call \in [op : {"collapse_level"}, side : Sides, it : Nat, volume : Int,
                   node : Index(book)]
      /\ GoodBut(Repaired(book, side, it, node), side, it)
      /\ DOMAIN book.index = {} /\ "set_level" \in Ops /\ call.volume > 0
  BY <1>1, InvFacts DEF SafeInv, ListInv, CallersInv
<1>3. node \in 1 .. Len(book.pool.nodes)
  BY <1>1, <1>2, BookFields DEF Index
<1>4. IsHead(book, side, it, h) /\ h # kNull
  BY <1>2 DEF IsHead, Occupied
<1>5. /\ call'.op = "collapse_level" /\ call'.side = side /\ call'.it = it
      /\ call'.volume = call.volume /\ call'.node = next
  BY <1>2 DEF CollapseStep
<1>6. book'.index = book.index
  BY <1>1
<1>7. GoodBut(Repaired(a, side, it, next), side, it)
  <2> HIDE DEF side, it, node, h
  <2> QED BY <1>1, <1>2, <1>3, <1>4, CollapseContinues
<1>8. ListInv'
  <2> HIDE DEF a, next, side, it, node
  <2> QED BY <1>1, <1>5, <1>7 DEF ListInv
<1>9. CallersInv'
  BY <1>2, <1>5, <1>6 DEF CallersInv
<1> QED BY <1>8, <1>9

(* set_level overwrites the head that is left.                              *)
LEMMA CollapseReturnSafe ==
  ASSUME SafeInv, CollapseReturn
  PROVE  ListInv' /\ CallersInv'
<1> DEFINE side == call.side
           it == call.it
           h == book.levels[side][it].head
<1>1. call.op = "collapse_level" /\ call.node = 0 /\ call' = Idle
  BY DEF CollapseReturn
<1>2. /\ BookOK(book) /\ Sorted(book.levels) /\ Occupied(book.levels)
      /\ side \in Sides /\ it \in 1 .. Len(book.levels[side])
      /\ call \in [op : {"collapse_level"}, side : Sides, it : Nat, volume : Int,
                   node : Index(book)]
      /\ GoodBut(Repaired(book, side, it, 0), side, it)
      /\ DOMAIN book.index = {} /\ "set_level" \in Ops /\ call.volume > 0
  BY <1>1, InvFacts DEF SafeInv, ListInv, CallersInv
<1>3. IsHead(book, side, it, h) /\ h # kNull /\ call.volume \in Int
  BY <1>2 DEF IsHead, Occupied
<1>4. book' = Collapsed(book, side, it, h, call.volume)
  BY DEF CollapseReturn, Collapsed, Updated, CalledLevel
<1>5. book'.index = book.index
  BY <1>4 DEF Collapsed, Updated
<1>6. Good(Collapsed(book, side, it, h, call.volume))
  <2> HIDE DEF side, it, h
  <2> QED BY <1>2, <1>3, CollapseEnds
<1> QED BY <1>1, <1>2, <1>4, <1>5, <1>6, ReturnSafe

-----------------------------------------------------------------------------
(* The invariant is inductive                                               *)

(* The empty book: no slot, no level, nothing to lay out.                   *)
LEMMA InitSafe == Init => SafeInv
<1> SUFFICES ASSUME Init PROVE SafeInv
  OBVIOUS
<1>1. /\ book.pool.nodes = <<>> /\ book.pool.free_list = <<>> /\ book.index = <<>>
      /\ book.levels = [s \in Sides |-> <<>>] /\ call = Idle
  BY DEF Init, EmptyPool
<1> DEFINE ends == [k \in Keys |-> [head |-> 0, tail |-> 0]]
           place == <<>>
<1>2. Len(book.pool.nodes) = 0 /\ 1 .. 0 = {} /\ DOMAIN book.index = {}
  BY <1>1
<1>3. \A s \in Sides : Len(book.levels[s]) = 0
  BY <1>1
<1>4. Layout(0, book.pool.nodes, ends, place)
  BY <1>2 DEF Layout, Distinct, Ends, Linked, Summed
<1>5. Bound(book.levels, ends)
  <2>1. \A k \in Keys : ends[k].head = 0 /\ ends[k].tail = 0
    OBVIOUS
  <2> HIDE DEF ends
  <2> QED BY <1>2, <1>3, <2>1, KeyFacts DEF Bound
<1>6. FreeOK(0, book.pool.free_list, place)
  BY <1>1, <1>2 DEF FreeOK, IsInjective
<1>7. Sound(book.pool.nodes, book.index, place)
  BY <1>2 DEF Sound
<1>8. Complete(0, book.pool.nodes, book.index, place)
  BY <1>2 DEF Complete
<1>9. Totals(book.levels, ends, place)
  BY <1>2, <1>3 DEF Totals
<1>10. Good(book)
  <2> HIDE DEF ends, place
  <2> QED BY <1>2, <1>4, <1>5, <1>6, <1>7, <1>8, <1>9 DEF Good, Holds, Laid
<1>11. call.op = "idle"
  BY <1>1, Records
<1>12. ListInv /\ CallersInv
  BY <1>2, <1>10, <1>11 DEF ListInv, CallersInv
<1> QED BY <1>12, InitOK DEF SafeInv

(* Every step preserves the invariant.                                      *)
LEMMA StepSafe ==
  ASSUME SafeInv, [Next]_vars
  PROVE  SafeInv'
<1>1. Inv'
  BY StepOK DEF SafeInv
<1>2. CASE UNCHANGED vars
  <2>1. book' = book /\ call' = call
    BY <1>2 DEF vars
  <2>2. ListInv' /\ CallersInv'
    BY <2>1 DEF SafeInv, ListInv, CallersInv
  <2> QED BY <1>1, <2>2 DEF SafeInv
<1>3. CASE Calling
  <2>1. ListInv' /\ CallersInv'
    BY <1>3, PlaceOrderSafe, CancelOrderSafe, AddOrderSafe, DeleteOrderSafe, SetLevelSafe
    DEF Calling
  <2> QED BY <1>1, <2>1 DEF SafeInv
<1>4. CASE Running
  <2>1. ListInv' /\ CallersInv'
    BY <1>4, MatchStepSafe, MatchReturnSafe, DeleteStepSafe, DrainReturnSafe, ClearStepSafe,
       CollapseStepSafe, CollapseReturnSafe DEF Running
  <2> QED BY <1>1, <2>1 DEF SafeInv
<1> QED BY <1>2, <1>3, <1>4 DEF Next, Halted

(* So it holds in every state of every behaviour.                           *)
LEMMA AlwaysSafe == Spec => []SafeInv
<1>1. SafeInv /\ [Next]_vars => SafeInv'
  BY StepSafe
<1> QED BY <1>1, InitSafe, PTL DEF Spec

-----------------------------------------------------------------------------
(* What a layout says of the FIFOs                                          *)

(* What a list of slots is, as a sequence.                                  *)
LEMMA SeqFacts ==
  ASSUME NEW S, NEW q \in Seq(S), NEW n, Len(q) = n
  PROVE  n \in Nat /\ DOMAIN q = 1 .. n /\ \A k \in 1 .. n : q[k] \in S
<1>1. Len(q) \in Nat /\ DOMAIN q = 1 .. Len(q) /\ \A k \in 1 .. Len(q) : q[k] \in S
  OBVIOUS
<1> QED BY <1>1

(* The FIFO of a level, linked: an empty one has null ends, and otherwise   *)
(* tail is its last node and every node is linked to its neighbours.        *)
FifoLinked(b, side, it) ==
  LET lvl  == b.levels[side][it]
      fifo == Fifo(b, lvl)
      node(k) == b.pool.nodes[fifo[k]]
  IN  IF fifo = <<>>
        THEN lvl.head = 0 /\ lvl.tail = 0
        ELSE /\ lvl.tail = Last(fifo)
             /\ \A k \in DOMAIN fifo :
                  /\ node(k).prev = IF k = 1 THEN 0 ELSE fifo[k - 1]
                  /\ node(k).next = IF k = Len(fifo) THEN 0 ELSE fifo[k + 1]

(* The FIFO of a level is linked both ways, from its head to its tail.      *)
LEMMA FifoIsLinked ==
  ASSUME NEW b, BookOK(b), NEW ends, NEW place, Laid(b, ends, place),
         NEW side \in Sides, NEW it \in 1 .. Len(b.levels[side])
  PROVE  FifoLinked(b, side, it)
<1> DEFINE N == Len(b.pool.nodes)
           nodes == b.pool.nodes
           head == b.levels[side][it].head
           tail == b.levels[side][it].tail
           key == Key(b, side, it)
           L == Length(ends, place, key)
           q == Fifo(b, b.levels[side][it])
<1>1. N \in Nat /\ key \in Keys /\ Layout(N, nodes, ends, place)
  BY BookFields, LevelKey DEF Laid
<1>2. ends[key].head = head /\ ends[key].tail = tail
  BY DEF Laid, Bound, Key
<1>3. Lists(N, q, place, key, L)
  BY FifoLists
<1>4. FifoLinked(b, side, it) <=>
        IF q = <<>> THEN head = 0 /\ tail = 0
        ELSE /\ tail = Last(q)
             /\ \A k \in DOMAIN q :
                  /\ nodes[q[k]].prev = IF k = 1 THEN 0 ELSE q[k - 1]
                  /\ nodes[q[k]].next = IF k = Len(q) THEN 0 ELSE q[k + 1]
  BY DEF FifoLinked
<1> HIDE DEF N, nodes, head, tail, key, L, q
<1>5. /\ q \in Seq(1 .. N) /\ Len(q) = L /\ L \in Nat
      /\ DOMAIN q = 1 .. L
      /\ \A k \in 1 .. L : q[k] \in 1 .. N /\ place[q[k]].key = key /\ place[q[k]].rank = k
      /\ \A n \in 1 .. N : place[n].key = key =>
           place[n].rank \in 1 .. L /\ q[place[n].rank] = n
  <2>1. q \in Seq(1 .. N) /\ Len(q) = L
    BY <1>3 DEF Lists
  <2>2. L \in Nat /\ DOMAIN q = 1 .. L /\ \A k \in 1 .. L : q[k] \in 1 .. N
    BY <2>1, SeqFacts
  <2> QED BY <1>3, <2>1, <2>2 DEF Lists
<1>6. CASE q = <<>>
  <2>1. L = 0
    BY <1>5, <1>6
  <2>2. \A n \in 1 .. N : place[n].key # key
    BY <1>5, <2>1
  <2>3. head = 0 /\ tail = 0
    BY <1>1, <1>2, <2>2 DEF Layout, Ends
  <2> QED BY <1>4, <1>6, <2>3
<1>7. CASE q # <<>>
  <2>1. L >= 1
    BY <1>5, <1>7
  <2>2. /\ head \in 1 .. N /\ place[head].key = key
        /\ tail \in 1 .. N /\ place[tail].key = key
    <3>1. q[1] \in 1 .. N /\ place[q[1]].key = key
      BY <1>5, <2>1
    <3> QED BY <1>1, <1>2, <3>1 DEF Layout, Ends
  <2>3. \A n \in 1 .. N : place[n].key = key =>
          /\ place[n].rank \in Int /\ place[n].rank <= place[tail].rank
          /\ IF n = head
               THEN nodes[n].prev = 0 /\ place[n].rank = 1
               ELSE /\ nodes[n].prev \in 1 .. N /\ place[nodes[n].prev].key = key
                    /\ place[nodes[n].prev].rank = place[n].rank - 1
          /\ IF n = tail
               THEN nodes[n].next = 0
               ELSE /\ nodes[n].next \in 1 .. N /\ place[nodes[n].next].key = key
                    /\ place[nodes[n].next].rank = place[n].rank + 1
    BY <1>1, <1>2 DEF Layout, Linked
  <2>4. place[tail].rank = L
    BY <1>5, <2>1, <2>2, <2>3
  <2>5. tail = Last(q)
    <3>1. q[L] = tail
      BY <1>5, <2>2, <2>4
    <3> QED BY <1>5, <3>1 DEF Last
  <2>6. ASSUME NEW k \in 1 .. L
        PROVE  /\ nodes[q[k]].prev = IF k = 1 THEN 0 ELSE q[k - 1]
               /\ nodes[q[k]].next = IF k = L THEN 0 ELSE q[k + 1]
    <3> DEFINE n == q[k]
    <3>1. n \in 1 .. N /\ place[n].key = key /\ place[n].rank = k
      BY <1>5
    <3> HIDE DEF n
    <3>3. nodes[n].prev = IF k = 1 THEN 0 ELSE q[k - 1]
      <4>1. CASE n = head
        BY <2>3, <3>1, <4>1
      <4>2. CASE n # head
        <5>1. /\ nodes[n].prev \in 1 .. N /\ place[nodes[n].prev].key = key
              /\ place[nodes[n].prev].rank = k - 1
          BY <2>3, <3>1, <4>2
        <5>2. k - 1 \in 1 .. L /\ q[k - 1] = nodes[n].prev
          BY <1>5, <5>1
        <5> QED BY <1>5, <5>2
      <4> QED BY <4>1, <4>2
    <3>4. nodes[n].next = IF k = L THEN 0 ELSE q[k + 1]
      <4>1. CASE n = tail
        BY <2>3, <2>4, <3>1, <4>1
      <4>2. CASE n # tail
        <5>1. /\ nodes[n].next \in 1 .. N /\ place[nodes[n].next].key = key
              /\ place[nodes[n].next].rank = k + 1
          BY <2>3, <3>1, <4>2
        <5>2. k + 1 \in 1 .. L /\ q[k + 1] = nodes[n].next
          BY <1>5, <5>1
        <5> QED BY <1>5, <5>2
      <4> QED BY <4>1, <4>2
    <3> QED BY <3>3, <3>4 DEF n
  <2> QED BY <1>4, <1>5, <1>7, <2>5, <2>6
<1> QED BY <1>6, <1>7

(* A FIFO holds the slots that stand at its price, each once.               *)
LEMMA FifoHolds ==
  ASSUME NEW b, BookOK(b), NEW ends, NEW place, Laid(b, ends, place),
         NEW side \in Sides, NEW it \in 1 .. Len(b.levels[side]),
         NEW q, q = Fifo(b, b.levels[side][it])
  PROVE  /\ IsInjective(q)
         /\ ToSet(q) \subseteq 1 .. Len(b.pool.nodes)
         /\ \A n \in 1 .. Len(b.pool.nodes) : n \in ToSet(q) <=> place[n].key = Key(b, side, it)
<1> DEFINE N == Len(b.pool.nodes)
           key == Key(b, side, it)
           L == Length(ends, place, key)
<1>1. Lists(N, q, place, key, L)
  BY FifoLists
<1> HIDE DEF N, key, L
<1>2. /\ q \in Seq(1 .. N) /\ Len(q) = L
      /\ \A k \in 1 .. L : place[q[k]].key = key /\ place[q[k]].rank = k
      /\ \A n \in 1 .. N : place[n].key = key =>
           place[n].rank \in 1 .. L /\ q[place[n].rank] = n
  BY <1>1 DEF Lists
<1>3. DOMAIN q = 1 .. L /\ \A k \in 1 .. L : q[k] \in 1 .. N
  BY <1>2, SeqFacts
<1>4. IsInjective(q)
  BY <1>2, <1>3 DEF IsInjective
<1>5. ToSet(q) = {q[k] : k \in 1 .. L}
  BY <1>3 DEF ToSet
<1>6. \A n \in 1 .. N : n \in ToSet(q) <=> place[n].key = key
  BY <1>2, <1>5
<1>7. ToSet(q) \subseteq 1 .. N
  BY <1>3, <1>5
<1> QED BY <1>4, <1>6, <1>7 DEF N, key

(* The running sums of the volumes of a FIFO are those of its layout.       *)
LEMMA FifoSums ==
  ASSUME NEW b, BookOK(b), NEW ends, NEW place, Laid(b, ends, place),
         NEW side \in Sides, NEW it \in 1 .. Len(b.levels[side]),
         NEW s, s = VolumesOf(b, Fifo(b, b.levels[side][it]))
  PROVE  /\ SumSeq(s) = TailSum(ends, place, Key(b, side, it))
         /\ \A k \in DOMAIN s : s[k] > 0
<1> DEFINE N == Len(b.pool.nodes)
           nodes == b.pool.nodes
           head == b.levels[side][it].head
           tail == b.levels[side][it].tail
           key == Key(b, side, it)
           L == Length(ends, place, key)
           q == Fifo(b, b.levels[side][it])
           S == Sums(s)
<1>1. N \in Nat /\ key \in Keys /\ Layout(N, nodes, ends, place)
  BY BookFields, LevelKey DEF Laid
<1>2. Lists(N, q, place, key, L)
  BY FifoLists
<1>3. s = [k \in DOMAIN q |-> nodes[q[k]].value.volume]
  BY DEF VolumesOf
<1>4. SumSeq(s) = S[Len(s)]
  BY DEF SumSeq
<1> HIDE DEF N, nodes, head, tail, key, L, q, S
<1>5. /\ q \in Seq(1 .. N) /\ Len(q) = L
      /\ \A k \in 1 .. L : place[q[k]].key = key /\ place[q[k]].rank = k
      /\ \A n \in 1 .. N : place[n].key = key =>
           place[n].rank \in 1 .. L /\ q[place[n].rank] = n
  BY <1>2 DEF Lists
<1>6. DOMAIN q = 1 .. L /\ L \in Nat /\ \A k \in 1 .. L : q[k] \in 1 .. N
  BY <1>5, SeqFacts
<1>7. Len(s) = L /\ DOMAIN s = 1 .. L /\ \A k \in 1 .. L : s[k] = nodes[q[k]].value.volume
  BY <1>3, <1>6
<1>8. Linked(N, nodes, ends, place) /\ Summed(N, nodes, ends, place)
  BY <1>1 DEF Layout
<1>9. \A k \in 1 .. L : place[q[k]].sum \in Int /\ s[k] \in Int /\ s[k] > 0
  BY <1>1, <1>5, <1>6, <1>7, <1>8 DEF Summed
<1>10. \A k \in 1 .. L : place[q[k]].sum = s[k] + IF k = 1 THEN 0 ELSE place[q[k - 1]].sum
  <2> TAKE k \in 1 .. L
  <2> DEFINE n == q[k]
  <2>1. n \in 1 .. N /\ place[n].key = key /\ place[n].rank = k /\ s[k] = nodes[n].value.volume
    BY <1>5, <1>6, <1>7
  <2> HIDE DEF n
  <2>2. /\ place[n].sum = s[k] + IF n = ends[key].head THEN 0 ELSE place[nodes[n].prev].sum
        /\ IF n = ends[key].head
             THEN place[n].rank = 1
             ELSE /\ nodes[n].prev \in 1 .. N /\ place[nodes[n].prev].key = key
                  /\ place[nodes[n].prev].rank = place[n].rank - 1
    BY <1>1, <1>8, <2>1 DEF Summed, Linked
  <2>3. CASE n = ends[key].head
    BY <2>1, <2>2, <2>3 DEF n
  <2>4. CASE n # ends[key].head
    <3>1. /\ nodes[n].prev \in 1 .. N /\ place[nodes[n].prev].key = key
          /\ place[nodes[n].prev].rank = k - 1
      BY <2>1, <2>2, <2>4
    <3>2. k - 1 \in 1 .. L /\ q[k - 1] = nodes[n].prev
      BY <1>5, <3>1
    <3>3. k # 1
      BY <1>6, <3>2
    <3> QED BY <2>2, <2>4, <3>2, <3>3 DEF n
  <2> QED BY <2>3, <2>4
<1>11. S = [k \in 0 .. Len(s) |-> IF k = 0 THEN 0 ELSE S[k - 1] + s[k]]
  BY <1>6, <1>7, SumsIs DEF S
<1>12. S[0] = 0 /\ \A k \in 1 .. L : S[k] = S[k - 1] + s[k]
  BY <1>6, <1>7, <1>11
<1> DEFINE T == {k \in 0 .. L : S[k] = IF k = 0 THEN 0 ELSE place[q[k]].sum}
<1>13. 0 .. L \subseteq T
  <2>1. 0 \in T
    BY <1>6, <1>12
  <2>2. ASSUME NEW k \in 0 .. L, k \in T, k + 1 <= L PROVE k + 1 \in T
    <3>1. /\ k + 1 \in 1 .. L /\ (k + 1) - 1 = k /\ (k + 1 = 1 <=> k = 0)
          /\ k # 0 => k \in 1 .. L
      BY <1>6, <2>2
    <3>2. S[k] = IF k = 0 THEN 0 ELSE place[q[k]].sum
      BY <2>2
    <3>3. S[k + 1] = S[k] + s[k + 1]
      BY <1>12, <3>1
    <3>4. place[q[k + 1]].sum = s[k + 1] + IF k = 0 THEN 0 ELSE place[q[k]].sum
      BY <1>10, <3>1
    <3>5. s[k + 1] \in Int /\ (k # 0 => place[q[k]].sum \in Int)
      BY <1>9, <3>1
    <3>6. S[k + 1] = place[q[k + 1]].sum
      BY <3>2, <3>3, <3>4, <3>5
    <3> QED BY <3>1, <3>6
  <2> HIDE DEF T
  <2> QED BY <1>6, <2>1, <2>2, IntervalInduction
<1>14. S[L] = IF L = 0 THEN 0 ELSE place[q[L]].sum
  BY <1>6, <1>13
<1>15. S[L] = TailSum(ends, place, key)
  <2>1. CASE ends[key].head = 0
    <3>1. L = 0
      BY <2>1 DEF L, Length
    <3> QED BY <1>14, <2>1, <3>1 DEF TailSum
  <2>2. CASE ends[key].head # 0
    <3>1. /\ ends[key].tail \in 1 .. N /\ place[ends[key].tail].key = key
          /\ L = place[ends[key].tail].rank
      BY <1>1, <2>2 DEF Layout, Ends, L, Length
    <3>2. L \in 1 .. L /\ q[L] = ends[key].tail
      BY <1>5, <3>1
    <3>3. L # 0
      BY <1>6, <3>2
    <3> QED BY <1>14, <2>2, <3>2, <3>3 DEF TailSum
  <2> QED BY <2>1, <2>2
<1> QED BY <1>4, <1>7, <1>9, <1>15 DEF key

-----------------------------------------------------------------------------
(* The theorems                                                             *)

(* A usable book has a layout, exact but for the level set_level empties.   *)
LEMMA UsableLaid ==
  ASSUME SafeInv, Usable
  PROVE  /\ BookOK(book) /\ Sorted(book.levels)
         /\ \E ends, place :
              /\ Holds(book, ends, place)
              /\ \A s \in Sides : \A i \in 1 .. Len(book.levels[s]) :
                   ~(call.op = "clear_level" /\ Draining(s, i)) =>
                     book.levels[s][i].total_volume = TailSum(ends, place, Key(book, s, i))
<1>1. BookOK(book) /\ Sorted(book.levels)
  BY InvFacts DEF SafeInv
<1>2. CASE call.op = "clear_level"
  <2>1. PICK ends, place : /\ Holds(book, ends, place)
                           /\ TotalsBut(book.levels, ends, place, call.side, call.it)
    BY <1>2 DEF SafeInv, ListInv, GoodBut
  <2>2. \A s \in Sides : \A i \in 1 .. Len(book.levels[s]) :
                   ~(call.op = "clear_level" /\ Draining(s, i)) =>
                     book.levels[s][i].total_volume = TailSum(ends, place, Key(book, s, i))
    BY <1>2, <2>1 DEF TotalsBut, Draining, Key
  <2> QED BY <1>1, <2>1, <2>2
<1>3. CASE call.op # "clear_level"
  <2>1. PICK ends, place : Holds(book, ends, place) /\ Totals(book.levels, ends, place)
    BY <1>3 DEF SafeInv, ListInv, Good, Usable
  <2>2. \A s \in Sides : \A i \in 1 .. Len(book.levels[s]) :
          book.levels[s][i].total_volume = TailSum(ends, place, Key(book, s, i))
    BY <2>1 DEF Totals, Key
  <2> QED BY <1>1, <2>1, <2>2
<1> QED BY <1>2, <1>3

(* Levels by number.                                                        *)
LEMMA LevelDomain ==
  ASSUME NEW b, BookOK(b), NEW side \in Sides
  PROVE  DOMAIN b.levels[side] = 1 .. Len(b.levels[side])
BY BookFields, LevelsFacts

(* The resting orders of a laid-out book are its live slots.                *)
LEMMA LiveIsResting ==
  ASSUME BookOK(book), NEW ends, NEW place, Laid(book, ends, place)
  PROVE  LiveNodes(book.pool) = Resting
<1> DEFINE N == Len(book.pool.nodes)
<1>0. PoolOK(book.pool) /\ N \in Nat /\ LevelsOK(book.levels, N)
  BY BookFields
<1>1. N \in Nat /\ DOMAIN book.pool.nodes = 1 .. N /\ LevelsOK(book.levels, N)
  BY <1>0 DEF PoolOK
<1>2. \A n \in 1 .. N : n \in LiveNodes(book.pool) <=> place[n].key \in Keys
  BY <1>1 DEF LiveNodes, Laid, FreeOK
<1>3. \A s \in Sides : \A i \in 1 .. Len(book.levels[s]) : \A n \in 1 .. N :
        n \in Queued(s, i) <=> place[n].key = Key(book, s, i)
  BY FifoHolds DEF Queued
<1>4. \A s \in Sides : DOMAIN book.levels[s] = 1 .. Len(book.levels[s])
  BY LevelDomain
<1>5. ASSUME NEW n \in 1 .. N, place[n].key \in Keys PROVE n \in Resting
  <2>1. PICK s \in Sides, p \in Prices : place[n].key = <<s, p>>
    BY <1>5, KeyFacts
  <2>2. ends[<<s, p>>].head # 0
    <3> DEFINE key == <<s, p>>
    <3>1. key \in Keys /\ place[n].key = key
      BY <2>1, KeyFacts
    <3>2. Layout(N, book.pool.nodes, ends, place)
      BY DEF Laid
    <3> HIDE DEF key, N
    <3>3. ends[key].head # 0
      BY <1>1, <1>5, <3>1, <3>2 DEF Layout, Ends
    <3> QED BY <3>3 DEF key
  <2>3. PICK i \in 1 .. Len(book.levels[s]) : book.levels[s][i].price = p
    BY <2>2 DEF Laid, Bound
  <2>4. n \in Queued(s, i)
    BY <1>3, <2>1, <2>3 DEF Key
  <2> QED BY <1>1, <1>4, <2>3, <2>4 DEF Resting
<1>6. ASSUME NEW n \in Resting PROVE n \in 1 .. N /\ place[n].key \in Keys
  <2>1. n \in 1 .. N
    BY <1>1 DEF Resting
  <2>2. PICK s \in Sides : \E i \in 1 .. Len(book.levels[s]) : n \in Queued(s, i)
    BY <1>4 DEF Resting
  <2>3. PICK i \in 1 .. Len(book.levels[s]) : n \in Queued(s, i)
    BY <2>2
  <2>4. Key(book, s, i) \in Keys
    BY LevelKey
  <2> QED BY <1>3, <2>1, <2>3, <2>4
<1>7. LiveNodes(book.pool) \subseteq 1 .. N
  BY <1>1 DEF LiveNodes
<1> HIDE DEF N
<1> QED BY <1>2, <1>5, <1>6, <1>7

(* Every level's FIFO is a doubly linked list from head to tail, whatever   *)
(* sequence of operations built it: rest, pop_front, unlink and the         *)
(* collapsing set_level maintain the links between them.                    *)
THEOREM ListsStayLinked == Spec => []ListsLinked
<1>1. SafeInv => ListsLinked
  <2> SUFFICES ASSUME SafeInv, Usable, NEW side \in Sides,
                      NEW i \in DOMAIN book.levels[side]
               PROVE  LET lvl  == book.levels[side][i]
                          fifo == Fifo(book, lvl)
                          node(k) == book.pool.nodes[fifo[k]]
                      IN  IF fifo = <<>>
                            THEN Draining(side, i) /\ lvl.tail = kNull
                            ELSE /\ lvl.tail = Last(fifo)
                                 /\ \A k \in DOMAIN fifo :
                                      /\ node(k).prev = IF k = 1 THEN kNull ELSE fifo[k - 1]
                                      /\ node(k).next = IF k = Len(fifo) THEN kNull
                                                        ELSE fifo[k + 1]
    BY DEF ListsLinked
  <2>1. BookOK(book) /\ i \in 1 .. Len(book.levels[side])
    BY UsableLaid, LevelDomain
  <2>2. PICK ends, place : Laid(book, ends, place)
    BY UsableLaid DEF Holds
  <2>3. FifoLinked(book, side, i)
    BY <2>1, <2>2, FifoIsLinked
  <2>4. book.levels[side][i].head = 0 => Draining(side, i)
    <3>1. CASE call.op \in {"delete_order", "clear_level"}
      <4>1. OccupiedBut(book.levels, call.side, call.it)
        BY <3>1 DEF SafeInv, Inv, NoLevelEmpty
      <4> QED BY <2>1, <3>1, <4>1 DEF OccupiedBut, Draining
    <3>2. CASE call.op \notin {"delete_order", "clear_level"}
      <4>1. Occupied(book.levels)
        BY <3>2 DEF SafeInv, Inv, NoLevelEmpty
      <4> QED BY <2>1, <4>1 DEF Occupied
    <3> QED BY <3>1, <3>2
  <2> QED BY <2>3, <2>4 DEF FifoLinked
<1> QED BY <1>1, AlwaysSafe, PTL

(* A slot of the pool is free or in one level's FIFO, once: none leaks,     *)
(* none is freed twice, no two lists share a node.                          *)
THEOREM SlotsStayPartitioned == Spec => []SlotsPartitioned
<1>1. SafeInv => SlotsPartitioned
  <2> SUFFICES ASSUME SafeInv, Usable PROVE SlotsPartitioned
    BY DEF SlotsPartitioned
  <2>1. BookOK(book) /\ Sorted(book.levels)
    BY UsableLaid
  <2>2. PICK ends, place : Laid(book, ends, place)
    BY UsableLaid DEF Holds
  <2>3. IsInjective(book.pool.free_list)
    BY <2>2 DEF Laid, FreeOK
  <2>4. LiveNodes(book.pool) = Resting
    BY <2>1, <2>2, LiveIsResting
  <2>5. DOMAIN book.pool.nodes = 1 .. Len(book.pool.nodes)
    BY <2>1, BookFields DEF PoolOK
  <2>6. ASSUME NEW side \in Sides, NEW i \in DOMAIN book.levels[side]
        PROVE  /\ IsInjective(Fifo(book, book.levels[side][i]))
               /\ Queued(side, i) \subseteq DOMAIN book.pool.nodes
               /\ \A other \in Sides : \A j \in DOMAIN book.levels[other] :
                    Queued(side, i) \cap Queued(other, j) # {} => other = side /\ j = i
    <3>1. i \in 1 .. Len(book.levels[side])
      BY <2>1, <2>6, LevelDomain
    <3>2. /\ IsInjective(Fifo(book, book.levels[side][i]))
          /\ Queued(side, i) \subseteq 1 .. Len(book.pool.nodes)
          /\ \A n \in 1 .. Len(book.pool.nodes) :
               n \in Queued(side, i) <=> place[n].key = Key(book, side, i)
      BY <2>1, <2>2, <3>1, FifoHolds DEF Queued
    <3>3. ASSUME NEW other \in Sides, NEW j \in DOMAIN book.levels[other],
                 NEW n, n \in Queued(side, i), n \in Queued(other, j)
          PROVE  other = side /\ j = i
      <4>1. j \in 1 .. Len(book.levels[other])
        BY <2>1, <3>3, LevelDomain
      <4>2. \A m \in 1 .. Len(book.pool.nodes) :
               m \in Queued(other, j) <=> place[m].key = Key(book, other, j)
        BY <2>1, <2>2, <4>1, FifoHolds DEF Queued
      <4>3. Key(book, side, i) = Key(book, other, j)
        BY <3>2, <3>3, <4>2
      <4>4. side = other /\ book.levels[side][i].price = book.levels[other][j].price
        BY <4>3, KeyFacts DEF Key
      <4>5. LevelsOK(book.levels, Len(book.pool.nodes))
        BY <2>1, BookFields
      <4>6. i = j
        BY <2>1, <3>1, <4>1, <4>4, <4>5, SortedPrices
      <4> QED BY <4>4, <4>6
    <3> QED BY <2>5, <3>2, <3>3
  <2> QED BY <2>3, <2>4, <2>6 DEF SlotsPartitioned
<1> QED BY <1>1, AlwaysSafe, PTL

(* total_volume, the cache that fill-or-kill decides on, is the sum of the  *)
(* level's resting orders, and each of those has volume left.               *)
THEOREM TotalsStayExact == Spec => []TotalsExact
<1>1. SafeInv => TotalsExact
  <2> SUFFICES ASSUME SafeInv, Usable, NEW side \in Sides, NEW i \in DOMAIN book.levels[side],
                      ~(call.op = "clear_level" /\ Draining(side, i))
               PROVE  LET lvl     == book.levels[side][i]
                          volumes == VolumesOf(book, Fifo(book, lvl))
                      IN  /\ lvl.total_volume = SumSeq(volumes)
                          /\ \A k \in DOMAIN volumes : volumes[k] > 0
    BY DEF TotalsExact
  <2> DEFINE s == VolumesOf(book, Fifo(book, book.levels[side][i]))
  <2>1. BookOK(book) /\ i \in 1 .. Len(book.levels[side])
    BY UsableLaid, LevelDomain
  <2>2. PICK ends, place :
          /\ Laid(book, ends, place)
          /\ book.levels[side][i].total_volume = TailSum(ends, place, Key(book, side, i))
    BY <2>1, UsableLaid DEF Holds
  <2>3. /\ SumSeq(s) = TailSum(ends, place, Key(book, side, i))
        /\ \A k \in DOMAIN s : s[k] > 0
    BY <2>1, <2>2, FifoSums
  <2> QED BY <2>2, <2>3
<1> QED BY <1>1, AlwaysSafe, PTL

(* cancel_order never reaches an order that is gone: what the index points  *)
(* at is a live slot that carries the id.                                   *)
THEOREM IndexStaysLive == Spec => []IndexLive
<1>1. SafeInv => IndexLive
  <2> SUFFICES ASSUME SafeInv, Usable, NEW id \in DOMAIN book.index
               PROVE  /\ book.index[id].node \in LiveNodes(book.pool)
                      /\ book.pool.nodes[book.index[id].node].value.id = id
    BY DEF IndexLive
  <2>1. BookOK(book)
    BY UsableLaid
  <2>2. PICK ends, place : Laid(book, ends, place)
    BY UsableLaid DEF Holds
  <2> QED BY <2>1, <2>2, IndexedRests
<1> QED BY <1>1, AlwaysSafe, PTL

(* With unique ids every resting identified order can be cancelled: the     *)
(* index has its side, its price and its slot.                              *)
THEOREM StaysCancellable ==
  ASSUME UniqueIds = TRUE
  PROVE  Spec => []Cancellable
<1>1. SafeInv => Cancellable
  <2> SUFFICES ASSUME SafeInv, Usable, NEW side \in Sides, NEW i \in DOMAIN book.levels[side],
                      NEW n \in ToSet(Fifo(book, book.levels[side][i])),
                      book.pool.nodes[n].value.id # kAnonymous
               PROVE  LET id == book.pool.nodes[n].value.id
                      IN  /\ id \in DOMAIN book.index
                          /\ book.index[id] = [side |-> side,
                                               price |-> book.levels[side][i].price, node |-> n]
    BY DEF Cancellable
  <2>1. BookOK(book) /\ i \in 1 .. Len(book.levels[side])
    BY UsableLaid, LevelDomain
  <2>2. PICK ends, place :
          /\ Laid(book, ends, place)
          /\ Complete(Len(book.pool.nodes), book.pool.nodes, book.index, place)
    BY UsableLaid DEF Holds
  <2>3. n \in 1 .. Len(book.pool.nodes) /\ place[n].key = Key(book, side, i)
    BY <2>1, <2>2, FifoHolds
  <2>4. book.levels[side][i].price \in Prices
    BY <2>1, LevelFields
  <2> QED BY <2>2, <2>3, <2>4 DEF Complete, Key
<1> QED BY <1>1, AlwaysSafe, PTL

(* The only abort is the pool's, with Capacity orders resting: cancel_order *)
(* always finds the level of an indexed order, and no slot was lost.        *)
THEOREM AbortsWhenFull == Spec => []AbortsOnlyWhenFull
<1>1. SafeInv => AbortsOnlyWhenFull
  <2> SUFFICES ASSUME SafeInv, call = Aborted PROVE Cardinality(Resting) = Capacity
    BY DEF AbortsOnlyWhenFull
  <2>1. call.op = "aborted"
    BY Records
  <2>2. Exhausted(book.pool) /\ Good(book) /\ BookOK(book)
    BY <2>1, InvFacts DEF SafeInv, ListInv, CallersInv
  <2>3. PICK ends, place : Laid(book, ends, place)
    BY <2>2 DEF Good, Holds
  <2>4. LiveNodes(book.pool) = Resting
    BY <2>2, <2>3, LiveIsResting
  <2>5. /\ book.pool.free_list = <<>> /\ Len(book.pool.nodes) >= Capacity
        /\ Len(book.pool.nodes) <= Capacity /\ Len(book.pool.nodes) \in Nat
        /\ DOMAIN book.pool.nodes = 1 .. Len(book.pool.nodes)
    <3>1. PoolOK(book.pool)
      BY <2>2, BookFields
    <3>2. Exhausted(book.pool)
      BY <2>2
    <3> QED BY <3>1, <3>2 DEF Exhausted, PoolOK
  <2>6. Len(book.pool.nodes) = Capacity
    BY <2>5, CapacityAssumption
  <2>7. ToSet(book.pool.free_list) = {}
    BY <2>5 DEF ToSet
  <2>8. LiveNodes(book.pool) = 1 .. Capacity
    BY <2>5, <2>6, <2>7 DEF LiveNodes
  <2>9. Cardinality(1 .. Capacity) = Capacity
    BY CapacityAssumption, FS_Interval
  <2> QED BY <2>4, <2>8, <2>9
<1> QED BY <1>1, AlwaysSafe, PTL
-----------------------------------------------------------------------------
(* Matching                                                                 *)

(* f and g are running sums of the terms x, and start d apart.              *)
InStep(n, f, g, x, d) ==
  /\ f[0] \in Int /\ g[0] = f[0] + d
  /\ \A k \in 1 .. n : x[k] \in Int /\ f[k] = f[k - 1] + x[k] /\ g[k] = g[k - 1] + x[k]

(* They are d apart all along.                                             *)
Apart(n, f, g, d) == \A k \in 0 .. n : f[k] \in Int /\ g[k] = f[k] + d

(* Two running sums of the same terms stay as far apart as they start.      *)
LEMMA SumsInStep ==
  ASSUME NEW n \in Nat, NEW f, NEW g, NEW x, NEW d \in Int, InStep(n, f, g, x, d)
  PROVE  Apart(n, f, g, d)
<1> USE DEF InStep, Apart
<1> DEFINE T == {k \in 0 .. n : f[k] \in Int /\ g[k] = f[k] + d}
<1>1. 0 \in T
  OBVIOUS
<1>2. ASSUME NEW k \in 0 .. n, k \in T, k + 1 <= n PROVE k + 1 \in T
  <2>1. k + 1 \in 1 .. n /\ (k + 1) - 1 = k /\ k + 1 \in 0 .. n
    BY <1>2
  <2>2. /\ x[k + 1] \in Int /\ f[k + 1] = f[k] + x[k + 1] /\ g[k + 1] = g[k] + x[k + 1]
        /\ f[k] \in Int /\ g[k] = f[k] + d
    BY <1>2, <2>1
  <2>3. f[k + 1] \in Int /\ g[k + 1] = f[k + 1] + d
    BY <2>2
  <2> QED BY <2>1, <2>3
<1>3. 0 .. n \subseteq T
  <2> HIDE DEF T
  <2> QED BY <1>1, <1>2, IntervalInduction
<1> QED BY <1>3

(* One more term adds itself to the sum.                                    *)
LEMMA SumOfOneMore ==
  ASSUME NEW n \in Nat, NEW s, NEW t, Len(s) = n, Len(t) = n + 1,
         \A k \in 1 .. n : s[k] \in Int /\ t[k] = s[k]
  PROVE  SumSeq(s) \in Int /\ SumSeq(t) = SumSeq(s) + t[n + 1]
<1> DEFINE f == Sums(s)
           g == Sums(t)
<1>1. f = [k \in 0 .. Len(s) |-> IF k = 0 THEN 0 ELSE f[k - 1] + s[k]]
  BY SumsIs
<1>2. g = [k \in 0 .. Len(t) |-> IF k = 0 THEN 0 ELSE g[k - 1] + t[k]]
  <2>1. n + 1 \in Nat /\ n + 1 = Len(t)
    OBVIOUS
  <2> QED BY <2>1, SumsIs
<1>3. SumSeq(s) = f[n] /\ SumSeq(t) = g[n + 1]
  BY DEF SumSeq
<1> HIDE DEF f, g
<1>4. f[0] = 0 /\ \A k \in 1 .. n : f[k] = f[k - 1] + s[k]
  BY <1>1
<1>5. g[0] = 0 /\ \A k \in 1 .. n + 1 : g[k] = g[k - 1] + t[k]
  BY <1>2
<1>6. \A k \in 1 .. n : g[k] = g[k - 1] + s[k]
  BY <1>5
<1>7. \A k \in 0 .. n : f[k] \in Int /\ g[k] = f[k] + 0
  <2>1. InStep(n, f, g, s, 0)
    BY <1>4, <1>5, <1>6 DEF InStep
  <2>2. Apart(n, f, g, 0)
    BY <2>1, SumsInStep
  <2> QED BY <2>2 DEF Apart
<1>8. f[n] \in Int /\ g[n] = f[n]
  BY <1>7
<1>9. g[n + 1] = g[n] + t[n + 1]
  <2>1. n + 1 \in 1 .. n + 1 /\ (n + 1) - 1 = n
    OBVIOUS
  <2> QED BY <1>5, <2>1
<1> QED BY <1>3, <1>8, <1>9

(* The running total of can_fully_fill satisfies its recursion.             *)
LEMMA AvailableIs ==
  ASSUME NEW o, NEW n \in Nat, n = Len(o)
  PROVE  Available(o) = [k \in 0 .. Len(o) |->
                           IF k = 0 THEN 0 ELSE Available(o)[k - 1] + o[k].total_volume]
<1> DEFINE s == [k \in 1 .. n |-> o[k].total_volume]
<1>1. PICK f : f = [k \in 0 .. n |-> IF k = 0 THEN 0 ELSE f[k - 1] + s[k]]
  <2> HIDE DEF s
  <2> QED BY SumExists
<1> DEFINE g == [k \in 0 .. n |-> IF k = 0 THEN 0 ELSE f[k - 1] + o[k].total_volume]
<1>2. \A k \in 0 .. n : k # 0 => s[k] = o[k].total_volume
  OBVIOUS
<1>3. f = g
  <2> HIDE DEF s
  <2> QED BY <1>1, <1>2
<1>4. \E a : a = [k \in 0 .. Len(o) |-> IF k = 0 THEN 0 ELSE a[k - 1] + o[k].total_volume]
  <2>1. f = [k \in 0 .. Len(o) |-> IF k = 0 THEN 0 ELSE f[k - 1] + o[k].total_volume]
    BY <1>3
  <2> QED BY <2>1
<1> QED BY <1>4, Zenon DEF Available

(* The opposite side after a fill: its best level has lost the volume, or   *)
(* had no more than that and is gone.                                       *)
Filled(o, p, fill) ==
  \/ /\ Len(p) = Len(o)
     /\ p[1].price = o[1].price /\ p[1].total_volume = o[1].total_volume - fill
     /\ \A j \in 2 .. Len(o) : p[j] = o[j]
  \/ /\ Len(p) = Len(o) - 1
     /\ o[1].total_volume = fill
     /\ \A j \in 1 .. Len(p) : p[j] = o[j + 1]

(* What was enough for the volume of an order is enough for what is left of *)
(* it after a fill: the part of it that the fill took is no longer needed.  *)
LEMMA StillFills ==
  ASSUME NEW o, NEW p, NEW n \in Nat, Len(o) = n + 1, NEW fill \in Int, Filled(o, p, fill),
         \A j \in 1 .. n + 1 : o[j].total_volume \in Int,
         NEW side, NEW price, NEW volume \in Int, volume - fill > 0,
         can_fully_fill(o, side, price, volume)
  PROVE  can_fully_fill(p, side, price, volume - fill)
<1> DEFINE A == Available(o)
           B == Available(p)
           f == [k \in 0 .. n |-> A[k + 1]]
           x == [k \in 1 .. n |-> o[k + 1].total_volume]
           d == 0 - fill
<1>1. A = [k \in 0 .. Len(o) |-> IF k = 0 THEN 0 ELSE A[k - 1] + o[k].total_volume]
  <2>1. n + 1 \in Nat /\ n + 1 = Len(o)
    OBVIOUS
  <2> QED BY <2>1, AvailableIs
<1>2. Len(p) \in Nat
  BY DEF Filled
<1>3. B = [k \in 0 .. Len(p) |-> IF k = 0 THEN 0 ELSE B[k - 1] + p[k].total_volume]
  BY <1>2, AvailableIs
<1>4. PICK k \in 1 .. n + 1 : /\ \A j \in 1 .. k : crosses(side, price, o[j].price)
                              /\ A[k] >= volume
  BY DEF can_fully_fill
<1> HIDE DEF A, B
<1>5. A[0] = 0 /\ \A j \in 1 .. n + 1 : A[j] = A[j - 1] + o[j].total_volume
  BY <1>1
<1>6. B[0] = 0 /\ \A j \in 1 .. Len(p) : B[j] = B[j - 1] + p[j].total_volume
  BY <1>2, <1>3
<1>7. A[1] = o[1].total_volume /\ o[1].total_volume \in Int
  <2>1. 1 \in 1 .. n + 1 /\ 1 - 1 = 0
    OBVIOUS
  <2>2. A[1] = A[0] + o[1].total_volume /\ o[1].total_volume \in Int
    BY <1>5, <2>1
  <2> QED BY <1>5, <2>2
<1>8. f[0] \in Int /\ f[0] = A[1] /\ \A j \in 1 .. n : f[j] = f[j - 1] + x[j] /\ x[j] \in Int
  <2>1. f[0] = A[1]
    OBVIOUS
  <2>2. ASSUME NEW j \in 1 .. n PROVE f[j] = f[j - 1] + x[j] /\ x[j] \in Int
    <3>1. /\ j + 1 \in 1 .. n + 1 /\ (j + 1) - 1 = j /\ j - 1 \in 0 .. n /\ (j - 1) + 1 = j
          /\ j \in 0 .. n
      OBVIOUS
    <3>2. f[j] = A[j + 1] /\ f[j - 1] = A[j] /\ x[j] = o[j + 1].total_volume
      BY <3>1
    <3>3. A[j + 1] = A[j] + o[j + 1].total_volume /\ o[j + 1].total_volume \in Int
      BY <1>5, <3>1
    <3> HIDE DEF f, x
    <3> QED BY <3>2, <3>3
  <2> QED BY <1>7, <2>1, <2>2
<1>9. d \in Int
  OBVIOUS
<1>10. ASSUME NEW j \in 1 .. n + 1 PROVE f[j - 1] = A[j] /\ A[j] \in Int
  <2>1. j - 1 \in 0 .. n /\ (j - 1) + 1 = j
    OBVIOUS
  <2>2. \A i \in 0 .. n : f[i] \in Int /\ f[i] = f[i] + 0
    <3>1. f[0] = f[0] + 0
      BY <1>8
    <3> HIDE DEF f, x
    <3>2. InStep(n, f, f, x, 0)
      BY <1>8, <3>1 DEF InStep
    <3>3. 0 \in Int
      OBVIOUS
    <3>4. Apart(n, f, f, 0)
      BY <3>2, <3>3, SumsInStep, Zenon
    <3> QED BY <3>4 DEF Apart
  <2> QED BY <2>1, <2>2
<1>11. CASE /\ Len(p) = Len(o)
            /\ p[1].price = o[1].price /\ p[1].total_volume = o[1].total_volume - fill
            /\ \A j \in 2 .. Len(o) : p[j] = o[j]
  <2> DEFINE g == [j \in 0 .. n |-> B[j + 1]]
  <2>1. B[1] = o[1].total_volume - fill
    <3>1. 1 \in 1 .. Len(p) /\ 1 - 1 = 0
      BY <1>11
    <3>2. B[1] = B[0] + p[1].total_volume
      BY <1>6, <3>1
    <3> QED BY <1>6, <1>7, <1>11, <3>2
  <2>2. g[0] = f[0] + d
    <3>1. g[0] = B[1]
      OBVIOUS
    <3> HIDE DEF g, f
    <3> QED BY <1>7, <1>8, <2>1, <3>1
  <2>3. ASSUME NEW j \in 1 .. n PROVE g[j] = g[j - 1] + x[j]
    <3>1. /\ j + 1 \in 1 .. n + 1 /\ (j + 1) - 1 = j /\ j - 1 \in 0 .. n /\ (j - 1) + 1 = j
          /\ j \in 0 .. n /\ j + 1 \in 2 .. n + 1
      OBVIOUS
    <3>2. g[j] = B[j + 1] /\ g[j - 1] = B[j] /\ x[j] = o[j + 1].total_volume
      BY <3>1
    <3>3. B[j + 1] = B[j] + p[j + 1].total_volume /\ p[j + 1] = o[j + 1]
      BY <1>6, <1>11, <3>1
    <3> HIDE DEF g, x
    <3> QED BY <3>2, <3>3
  <2>4. \A j \in 0 .. n : f[j] \in Int /\ g[j] = f[j] + d
    <3> HIDE DEF f, g, x, d
    <3>1. InStep(n, f, g, x, d)
      BY <1>8, <1>9, <2>2, <2>3 DEF InStep
    <3>2. Apart(n, f, g, d)
      BY <1>9, <3>1, SumsInStep
    <3> QED BY <3>2 DEF Apart
  <2>5. B[k] >= volume - fill
    <3>1. k - 1 \in 0 .. n /\ (k - 1) + 1 = k
      OBVIOUS
    <3>2. g[k - 1] = B[k]
      BY <3>1
    <3>3. g[k - 1] = f[k - 1] + d
      BY <2>4, <3>1
    <3> HIDE DEF g, f
    <3> QED BY <1>4, <1>10, <3>2, <3>3
  <2>6. \A j \in 1 .. k : crosses(side, price, p[j].price)
    <3> TAKE j \in 1 .. k
    <3>1. j = 1 \/ j \in 2 .. Len(o)
      OBVIOUS
    <3>2. p[j].price = o[j].price
      BY <1>11, <3>1
    <3> QED BY <1>4, <3>2
  <2>7. k \in 1 .. Len(p)
    BY <1>11
  <2> QED BY <2>5, <2>6, <2>7 DEF can_fully_fill, B
<1>12. CASE /\ Len(p) = Len(o) - 1
            /\ o[1].total_volume = fill
            /\ \A j \in 1 .. Len(p) : p[j] = o[j + 1]
  <2>1. Len(p) = n
    BY <1>12
  <2>2. B[0] = f[0] + d
    <3>1. f[0] = A[1]
      BY <1>8
    <3> HIDE DEF f
    <3> QED BY <1>6, <1>7, <1>12, <3>1
  <2>3. ASSUME NEW j \in 1 .. n PROVE B[j] = B[j - 1] + x[j]
    <3>1. B[j] = B[j - 1] + p[j].total_volume /\ p[j] = o[j + 1]
      BY <1>6, <1>12, <2>1
    <3>2. x[j] = o[j + 1].total_volume
      OBVIOUS
    <3> QED BY <3>1, <3>2
  <2>4. \A j \in 0 .. n : f[j] \in Int /\ B[j] = f[j] + d
    <3> HIDE DEF f, x, d
    <3>1. InStep(n, f, B, x, d)
      BY <1>8, <1>9, <2>2, <2>3 DEF InStep
    <3>2. Apart(n, f, B, d)
      BY <1>9, <3>1, SumsInStep
    <3> QED BY <3>2 DEF Apart
  <2>5. k # 1
    BY <1>4, <1>7, <1>12
  <2>6. k - 1 \in 1 .. n /\ k - 1 \in 0 .. n
    BY <2>5
  <2>7. B[k - 1] >= volume - fill
    <3>1. B[k - 1] = f[k - 1] + d
      BY <2>4, <2>6
    <3>2. f[k - 1] = A[k] /\ A[k] \in Int
      BY <1>10
    <3> HIDE DEF f
    <3> QED BY <1>4, <3>1, <3>2
  <2>8. \A j \in 1 .. k - 1 : crosses(side, price, p[j].price)
    <3> TAKE j \in 1 .. k - 1
    <3>1. j + 1 \in 1 .. k /\ j \in 1 .. Len(p)
      BY <2>1, <2>6
    <3> QED BY <1>4, <1>12, <3>1
  <2> QED BY <2>1, <2>6, <2>7, <2>8 DEF can_fully_fill, B
<1> QED BY <1>11, <1>12 DEF Filled

(* Prints within the limit of the order, none better than an earlier one.   *)
InOrder(trades, order) ==
  \A i \in 1 .. Len(trades) :
    /\ trades[i].volume > 0
    /\ ~Better(opposed(order.side), order.price, trades[i].price)
    /\ \A j \in 1 .. i : ~Better(opposed(order.side), trades[i].price, trades[j].price)

(* Nothing that is left on the opposite side is better than what was paid.  *)
PaidBest(trades, side, levels) ==
  \A i \in 1 .. Len(trades) : \A k \in 1 .. Len(levels) :
    ~Better(side, levels[k].price, trades[i].price)

(* The volumes of the executions.                                          *)
Amounts(trades) == [i \in DOMAIN trades |-> trades[i].volume]

(* Why matching is fair: the executions are in price order and so is what   *)
(* is left to execute against; and a fill-or-kill that was accepted could   *)
(* still be accepted with what is left of it.                               *)
MatchInv ==
  call.op = "match" =>
    /\ InOrder(call.trades, call.order)
    /\ PaidBest(call.trades, opposed(call.order.side),
                book.levels[opposed(call.order.side)])
    /\ call.volume + SumSeq(Amounts(call.trades)) = call.order.volume
    /\ call.order.type = "FILL_OR_KILL" /\ call.volume > 0 =>
         can_fully_fill(book.levels[opposed(call.order.side)],
                        call.order.side, call.order.price, call.volume)

(* One iteration of match: a crossing order of the best level gives fill.   *)
Fills(fill, trade) ==
  LET o == book.levels[opposed(call.order.side)]
      p == book'.levels[opposed(call.order.side)]
  IN  /\ fill \in Int /\ 0 < fill
      /\ o # <<>> /\ crosses(call.order.side, call.order.price, o[1].price)
      /\ Filled(o, p, fill)
      /\ trade \in Trade /\ trade.price = o[1].price /\ trade.volume = fill
      /\ call' = [call EXCEPT !.volume = @ - fill, !.trades = Append(@, trade)]

(* What take and erase_if_empty leave of the best level.                    *)
LEMMA TakeFills ==
  ASSUME NEW b, BookOK(b), Sorted(b.levels), Good(b),
         NEW side \in Sides, 1 \in 1 .. Len(b.levels[side]),
         NEW h, IsHead(b, side, 1, h), h # kNull,
         NEW fill \in Int, 0 < fill, fill <= b.pool.nodes[h].value.volume
  PROVE  Filled(b.levels[side],
                erase_if_empty(take(b, side, 1, fill), side, 1).levels[side], fill)
<1> DEFINE c == take(b, side, 1, fill)
           e == erase_if_empty(c, side, 1)
           o == b.levels[side]
<1>1. PICK head : UpdateOK(b, side, 1, c, head)
  BY TakeOK DEF IsHead
<1>2. Good(c)
  BY GoodTake
<1>3. PICK ends, place : Laid(b, ends, place)
  BY DEF Good, Holds
<1>4. b.pool.nodes[h].prev = 0
  BY <1>3, HeadPlace
<1>5. c.levels[side][1].total_volume = b.levels[side][1].total_volume - fill
  BY <1>4, TakeFacts
<1> HIDE DEF c
<1>6. BookOK(c) /\ 1 \in 1 .. Len(c.levels[side]) /\ SamePrices(b.levels, c.levels, side, 1)
  BY <1>1, UpdateKeeps DEF UpdateOK
<1>7. /\ Len(c.levels[side]) = Len(o) /\ Len(o) \in Nat
      /\ c.levels[side][1].price = o[1].price
      /\ \A j \in 2 .. Len(o) : c.levels[side][j] = o[j]
      /\ o[1].total_volume \in Int
  <2>1. Len(o) \in Nat
    BY BookFields, LevelsFacts
  <2>2. o[1].total_volume \in Int
    BY LevelFields
  <2> QED BY <1>6, <2>1, <2>2 DEF SamePrices
<1>8. CASE c.levels[side][1].head # 0
  <2>1. e = c
    BY <1>8 DEF erase_if_empty
  <2> HIDE DEF e
  <2>2. Filled(o, c.levels[side], fill)
    BY <1>5, <1>7 DEF Filled
  <2>3. Filled(o, e.levels[side], fill)
    BY <2>1, <2>2
  <2> QED BY <2>3 DEF e, c
<1>9. CASE c.levels[side][1].head = 0
  <2>1. PICK ends2, place2 : Laid(c, ends2, place2) /\ Totals(c.levels, ends2, place2)
    BY <1>2 DEF Good, Holds
  <2>2. c.levels[side][1].total_volume = 0
    <3>1. c.levels[side][1].total_volume =
            TailSum(ends2, place2, <<side, c.levels[side][1].price>>)
      BY <1>6, <2>1 DEF Totals
    <3>2. ends2[<<side, c.levels[side][1].price>>].head = 0
      BY <1>6, <1>9, <2>1 DEF Laid, Bound
    <3> QED BY <3>1, <3>2 DEF TailSum
  <2>3. o[1].total_volume = fill
    BY <1>5, <1>7, <2>2
  <2>4. e.levels = Without(c.levels, side, 1)
    BY <1>9 DEF erase_if_empty, Without
  <2> DEFINE w == Without(c.levels, side, 1)
  <2>5. /\ Len(w[side]) = Len(c.levels[side]) - 1
        /\ \A j \in 1 .. Len(c.levels[side]) - 1 :
             w[side][j] = IF j < 1 THEN c.levels[side][j] ELSE c.levels[side][j + 1]
    BY <1>6, BookFields, WithoutFacts
  <2> HIDE DEF e, w
  <2>6. Len(w[side]) = Len(o) - 1 /\ \A j \in 1 .. Len(o) - 1 : w[side][j] = o[j + 1]
    <3>1. Len(w[side]) = Len(o) - 1
      BY <1>7, <2>5
    <3>2. ASSUME NEW j \in 1 .. Len(o) - 1 PROVE w[side][j] = o[j + 1]
      <4>1. j + 1 \in 2 .. Len(o) /\ ~(j < 1)
        BY <1>7
      <4>2. w[side][j] = c.levels[side][j + 1]
        BY <1>7, <2>5, <4>1
      <4> QED BY <1>7, <4>1, <4>2
    <3> QED BY <3>1, <3>2
  <2>7. Filled(o, w[side], fill)
    BY <2>3, <2>6 DEF Filled
  <2> QED BY <2>4, <2>7 DEF e, c, w
<1> QED BY <1>8, <1>9

(* A step of match is a fill.                                               *)
LEMMA MatchStepFills ==
  ASSUME SafeInv, MatchStep
  PROVE  \E fill, trade : Fills(fill, trade)
<1>1. call.op = "match" /\ Crossing
  BY DEF MatchStep
<1>2. /\ BookOK(book) /\ Sorted(book.levels) /\ Good(book)
      /\ call \in [op : {"match"}, order : Orders, volume : Int, trades : Seq(Trade)]
  BY <1>1, InvFacts DEF SafeInv, ListInv
<1> DEFINE side == opposed(call.order.side)
           h == book.levels[side][1].head
           r == book.pool.nodes[h].value
           vol == r.volume
           fill == Lesser(call.volume, vol)
           trade == [aggressor |-> call.order.id, resting |-> r.id,
                     price |-> book.levels[side][1].price, volume |-> fill]
<1>3. side \in Sides /\ call.volume \in Int /\ call.order.id \in OrderIds
  BY <1>2, BookAssumption DEF opposed, Sides
<1>4. /\ book' = erase_if_empty(take(book, side, 1, fill), side, 1)
      /\ call' = [call EXCEPT !.volume = @ - fill, !.trades = Append(@, trade)]
      /\ h # kNull
  BY DEF MatchStep
<1>5. book.levels[side] # <<>> /\ 1 \in 1 .. Len(book.levels[side])
  <2>1. book.levels[side] # <<>>
    BY <1>1 DEF Crossing
  <2>2. Len(book.levels[side]) \in Nat /\ book.levels[side] \in Seq(LevelType(Len(book.pool.nodes)))
    BY <1>2, <1>3, BookFields, LevelsFacts
  <2> HIDE DEF side
  <2> QED BY <2>1, <2>2
<1>6. crosses(call.order.side, call.order.price, book.levels[side][1].price) /\ call.volume > 0
  BY <1>1 DEF Crossing
<1> HIDE DEF side
<1>7. IsHead(book, side, 1, h)
  BY DEF IsHead
<1>8. vol \in Int /\ vol > 0 /\ h \in 1 .. Len(book.pool.nodes)
  <2>1. PICK ends, place : Laid(book, ends, place)
    BY <1>2 DEF Good, Holds
  <2> HIDE DEF h
  <2> QED BY <1>2, <1>3, <1>4, <1>5, <1>7, <2>1, HeadPlace
<1>9. fill \in Int /\ 0 < fill /\ fill <= vol
  <2> HIDE DEF vol
  <2> QED BY <1>3, <1>6, <1>8 DEF Lesser
<1>10. r \in RestingOrder
  <2> HIDE DEF h
  <2> QED BY <1>2, <1>8, BookFields
<1>11. trade \in Trade /\ trade.price = book.levels[side][1].price /\ trade.volume = fill
  <2>1. r.id \in OrderIds
    BY <1>10 DEF RestingOrder
  <2>2. book.levels[side][1].price \in Prices
    BY <1>2, <1>3, <1>5, LevelFields
  <2> HIDE DEF fill, r
  <2> QED BY <1>3, <1>9, <2>1, <2>2 DEF Trade
<1> HIDE DEF fill, h, trade
<1>12. Filled(book.levels[side], book'.levels[side], fill)
  BY <1>2, <1>3, <1>4, <1>5, <1>7, <1>9, TakeFills
<1>13. Fills(fill, trade)
  BY <1>4, <1>5, <1>6, <1>9, <1>11, <1>12 DEF Fills, side
<1> QED BY <1>13

(* An order that crosses a price does not have a better limit than it.      *)
LEMMA CrossingIsWithin ==
  ASSUME NEW side \in Sides, NEW p \in Nat, NEW q \in Nat
  PROVE  crosses(side, p, q) <=> ~Better(opposed(side), p, q)
BY DEF crosses, Better, opposed, Sides

(* The levels a fill leaves are at prices the side had before.              *)
LEMMA FilledPrices ==
  ASSUME NEW o, NEW p, NEW n \in Nat, Len(o) = n, n # 0, NEW fill, Filled(o, p, fill)
  PROVE  \A k \in 1 .. Len(p) : \E j \in 1 .. n : p[k].price = o[j].price
<1> SUFFICES ASSUME NEW k \in 1 .. Len(p)
             PROVE  \E j \in 1 .. n : p[k].price = o[j].price
  OBVIOUS
<1>1. CASE Len(p) = n /\ p[1].price = o[1].price /\ \A j \in 2 .. n : p[j] = o[j]
  <2>1. k \in 1 .. n /\ (k = 1 \/ k \in 2 .. n)
    BY <1>1
  <2> QED BY <1>1, <2>1
<1>2. CASE Len(p) = n - 1 /\ \A j \in 1 .. Len(p) : p[j] = o[j + 1]
  <2>1. k + 1 \in 1 .. n
    BY <1>2
  <2> QED BY <1>2, <2>1
<1> QED BY <1>1, <1>2 DEF Filled

(* Matching keeps its executions in order and its promise to fill.          *)
LEMMA MatchStepFair ==
  ASSUME SafeInv, MatchInv, MatchStep
  PROVE  MatchInv'
<1>1. call.op = "match"
  BY DEF MatchStep
<1>2. /\ BookOK(book) /\ Sorted(book.levels)
      /\ call \in [op : {"match"}, order : Orders, volume : Int, trades : Seq(Trade)]
  BY <1>1, InvFacts DEF SafeInv
<1>3. PICK fill, trade : Fills(fill, trade)
  BY MatchStepFills
<1> DEFINE order == call.order
           side == opposed(order.side)
           o == book.levels[side]
           p == book'.levels[side]
           t == call.trades
           u == Append(t, trade)
           n == Len(t)
           m == Len(o)
<1>4. /\ order \in Orders /\ order.side \in Sides /\ side \in Sides
      /\ order.price \in Nat /\ order.volume \in Int /\ call.volume \in Int
      /\ t \in Seq(Trade)
  BY <1>2, BookAssumption DEF opposed, Sides
<1>5. /\ call' = [call EXCEPT !.volume = @ - fill, !.trades = Append(@, trade)]
      /\ fill \in Int /\ 0 < fill /\ o # <<>> /\ crosses(order.side, order.price, o[1].price)
      /\ Filled(o, p, fill)
      /\ trade \in Trade /\ trade.price = o[1].price /\ trade.volume = fill
  BY <1>3 DEF Fills
<1>6. /\ call'.op = "match" /\ call'.order = order
      /\ call'.volume = call.volume - fill /\ call'.trades = u
  BY <1>2, <1>5
<1>7. /\ InOrder(t, order) /\ PaidBest(t, side, o)
      /\ call.volume + SumSeq(Amounts(t)) = order.volume
      /\ order.type = "FILL_OR_KILL" /\ call.volume > 0 =>
           can_fully_fill(o, order.side, order.price, call.volume)
  BY <1>1 DEF MatchInv
<1>8. /\ m \in Nat /\ m # 0 /\ DOMAIN o = 1 .. m
      /\ \A k \in 1 .. m : o[k].price \in Nat /\ o[k].total_volume \in Int
  <2>1. LevelsOK(book.levels, Len(book.pool.nodes))
    BY <1>2, BookFields
  <2>2. m \in Nat /\ DOMAIN o = 1 .. m /\ o \in Seq(LevelType(Len(book.pool.nodes)))
        /\ \A k \in 1 .. m : o[k].price \in Nat
    BY <1>4, <2>1, LevelsFacts
  <2>3. \A k \in 1 .. m : o[k].total_volume \in Int
    BY <1>2, <1>4, LevelFields
  <2> HIDE DEF o
  <2> QED BY <1>5, <2>2, <2>3
<1>9. SortedSide(o, side)
  BY <1>2, <1>4 DEF Sorted
<1> HIDE DEF side, o, p, t, order
<1>10. /\ n \in Nat /\ DOMAIN t = 1 .. n /\ \A i \in 1 .. n : t[i] \in Trade
       /\ Len(u) = n + 1 /\ DOMAIN u = 1 .. n + 1
       /\ u[n + 1] = trade /\ \A i \in 1 .. n : u[i] = t[i]
  BY <1>4, <1>5
<1>11. \A i \in 1 .. n : t[i].price \in Nat /\ t[i].volume \in Int
  BY <1>10, BookAssumption DEF Trade
<1> HIDE DEF n, m, u
<1>12. \A k \in 1 .. m : ~Better(side, o[k].price, trade.price)
  <2> SUFFICES ASSUME NEW k \in 1 .. m PROVE ~Better(side, o[k].price, o[1].price)
    BY <1>5
  <2>1. 1 \in 1 .. m /\ o[1].price \in Nat /\ o[k].price \in Nat
    BY <1>8
  <2>2. k = 1 \/ Better(side, o[1].price, o[k].price)
    BY <1>8, <1>9, <2>1 DEF SortedSide
  <2> QED BY <2>1, <2>2 DEF Better
<1>13. \A i \in 1 .. n : ~Better(side, trade.price, t[i].price)
  <2>1. 1 \in 1 .. m
    BY <1>8
  <2> QED BY <1>5, <1>7, <2>1 DEF PaidBest, n, m
<1>14. InOrder(u, order)
  <2>1. ~Better(side, order.price, trade.price)
    <3>1. o[1].price \in Nat
      BY <1>8
    <3> QED BY <1>4, <1>5, <3>1, CrossingIsWithin DEF side
  <2>2. \A i \in 1 .. n + 1 : i \in 1 .. n \/ i = n + 1
    BY <1>10
  <2>3. ASSUME NEW i \in 1 .. n
        PROVE  /\ u[i].volume > 0 /\ ~Better(side, order.price, u[i].price)
               /\ \A j \in 1 .. i : ~Better(side, u[i].price, u[j].price)
    <3>1. \A j \in 1 .. i : j \in 1 .. n
      BY <1>10
    <3> QED BY <1>7, <1>10, <3>1 DEF InOrder, n, side
  <2>4. /\ u[n + 1].volume > 0 /\ ~Better(side, order.price, u[n + 1].price)
        /\ \A j \in 1 .. n + 1 : ~Better(side, u[n + 1].price, u[j].price)
    <3>1. ~Better(side, trade.price, trade.price)
      <4>1. 1 \in 1 .. m
        BY <1>8
      <4> QED BY <1>5, <1>12, <4>1
    <3> QED BY <1>5, <1>10, <1>13, <2>1, <2>2, <3>1
  <2> QED BY <1>10, <2>2, <2>3, <2>4 DEF InOrder, side
<1>15. PaidBest(u, side, p)
  <2> SUFFICES ASSUME NEW i \in 1 .. n + 1, NEW k \in 1 .. Len(p)
               PROVE  ~Better(side, p[k].price, u[i].price)
    BY <1>10 DEF PaidBest
  <2>1. PICK j \in 1 .. m : p[k].price = o[j].price
    BY <1>5, <1>8, FilledPrices DEF m
  <2>2. CASE i = n + 1
    BY <1>10, <1>12, <2>1, <2>2
  <2>3. CASE i \in 1 .. n
    BY <1>7, <1>10, <2>1, <2>3 DEF PaidBest, n, m
  <2> QED BY <1>10, <2>2, <2>3
<1>16. (call.volume - fill) + SumSeq(Amounts(u)) = order.volume
  <2>1. /\ Len(Amounts(t)) = n /\ Len(Amounts(u)) = n + 1
        /\ \A k \in 1 .. n : Amounts(t)[k] = t[k].volume
        /\ \A k \in 1 .. n + 1 : Amounts(u)[k] = u[k].volume
    BY <1>10 DEF Amounts
  <2>2. n + 1 \in 1 .. n + 1 /\ \A k \in 1 .. n : k \in 1 .. n + 1
    BY <1>10
  <2>3. Amounts(u)[n + 1] = fill
    BY <1>5, <1>10, <2>1, <2>2
  <2>4. \A k \in 1 .. n : Amounts(t)[k] \in Int /\ Amounts(u)[k] = Amounts(t)[k]
    BY <1>10, <1>11, <2>1, <2>2
  <2>5. SumSeq(Amounts(t)) \in Int /\ SumSeq(Amounts(u)) = SumSeq(Amounts(t)) + Amounts(u)[n + 1]
    BY <1>10, <2>1, <2>4, SumOfOneMore
  <2> QED BY <1>4, <1>5, <1>7, <2>3, <2>5
<1>17. ASSUME order.type = "FILL_OR_KILL", call.volume - fill > 0
       PROVE  can_fully_fill(p, order.side, order.price, call.volume - fill)
  <2>1. call.volume > 0
    BY <1>4, <1>5, <1>17
  <2>2. can_fully_fill(o, order.side, order.price, call.volume)
    BY <1>7, <1>17, <2>1
  <2> DEFINE l == m - 1
  <2>3. l \in Nat /\ Len(o) = l + 1 /\ \A j \in 1 .. l + 1 : o[j].total_volume \in Int
    BY <1>8 DEF m
  <2> HIDE DEF l
  <2> QED BY <1>4, <1>5, <1>17, <2>2, <2>3, StillFills
<1> QED BY <1>6, <1>14, <1>15, <1>16, <1>17 DEF MatchInv, side, p

(* An order that is about to match has no executions yet.                   *)
LEMMA PlaceOrderFair ==
  ASSUME NEW o \in Orders, PlaceOrder(o)
  PROVE  MatchInv'
<1>1. CASE call' = Idle
  <2>1. call'.op # "match"
    BY <1>1, Records
  <2> QED BY <2>1 DEF MatchInv
<1>2. CASE /\ call' = [op |-> "match", order |-> o, volume |-> o.volume, trades |-> <<>>]
           /\ o.type = "FILL_OR_KILL" =>
                can_fully_fill(book.levels[opposed(o.side)], o.side, o.price, o.volume)
  <2>1. call'.op = "match" /\ call'.order = o /\ call'.volume = o.volume /\ call'.trades = <<>>
    BY <1>2
  <2>2. book' = book
    BY DEF PlaceOrder
  <2>3. Len(<<>>) = 0 /\ 1 .. 0 = {}
    OBVIOUS
  <2>4. InOrder(<<>>, o) /\ PaidBest(<<>>, opposed(o.side), book.levels[opposed(o.side)])
    BY <2>3 DEF InOrder, PaidBest
  <2>5. o.volume + SumSeq(Amounts(<<>>)) = o.volume
    <3> DEFINE s == Amounts(<<>>)
    <3>1. Len(s) = 0
      BY DEF Amounts
    <3>2. SumSeq(s) = Sums(s)[0]
      BY <3>1 DEF SumSeq
    <3> HIDE DEF s
    <3>3. Sums(s) = [k \in 0 .. Len(s) |-> IF k = 0 THEN 0 ELSE Sums(s)[k - 1] + s[k]]
      BY <3>1, SumsIs
    <3>4. Sums(s)[0] = 0
      BY <3>1, <3>3
    <3>5. o.volume \in Int
      BY BookAssumption
    <3> QED BY <3>2, <3>4, <3>5 DEF s
  <2> QED BY <1>2, <2>1, <2>2, <2>4, <2>5 DEF MatchInv
<1> QED BY <1>1, <1>2 DEF PlaceOrder

(* Only place_order starts a match, and only match continues one.           *)
LEMMA OnlyMatching ==
  ASSUME Inv, [Next]_vars, call'.op = "match"
  PROVE  \/ \E o \in Orders : PlaceOrder(o)
         \/ MatchStep
         \/ UNCHANGED vars
<1>1. ~(call' = Idle) /\ ~(call' = Aborted)
  BY Records
<1>2. \A id, side, price, volume : ~RestAndReturn(id, side, price, volume)
  BY <1>1 DEF RestAndReturn
<1>3. \A id \in OrderIds : CancelOrder(id) => UNCHANGED vars
  BY <1>1 DEF CancelOrder
<1>4. \A side \in Sides, price \in Prices, volume \in Volumes :
        /\ AddOrder(side, price, volume) => UNCHANGED vars
        /\ ~DeleteOrder(side, price, volume)
        /\ ~SetLevel(side, price, volume)
  BY <1>1, <1>2 DEF AddOrder, DeleteOrder, SetLevel
<1>5. ~MatchReturn /\ ~DeleteReturn /\ ~ClearReturn /\ ~CollapseReturn /\ ~ClearStep
  BY <1>1, <1>2 DEF MatchReturn, DeleteReturn, ClearReturn, CollapseReturn, ClearStep
<1>6. ~DeleteStep /\ ~CollapseStep
  <2>1. ASSUME call.op \in {"delete_order", "collapse_level"},
               \/ \E v : call' = [call EXCEPT !.volume = v]
               \/ \E v : call' = [call EXCEPT !.node = v]
        PROVE  FALSE
    BY <2>1, InvFacts
  <2> QED BY <2>1 DEF DeleteStep, CollapseStep
<1> QED BY <1>2, <1>3, <1>4, <1>5, <1>6 DEF Next, Calling, Running, Halted, vars

(* Every reachable state has the invariant of matching.                     *)
LEMMA AlwaysFair == Spec => [](SafeInv /\ MatchInv)
<1>1. Init => MatchInv
  <2>1. Init => call.op # "match"
    BY Records DEF Init
  <2> QED BY <2>1 DEF MatchInv
<1>2. ASSUME SafeInv, MatchInv, [Next]_vars PROVE MatchInv'
  <2>1. CASE call'.op # "match"
    BY <2>1 DEF MatchInv
  <2>2. CASE call'.op = "match"
    <3>1. \/ \E o \in Orders : PlaceOrder(o)
          \/ MatchStep
          \/ UNCHANGED vars
      BY <1>2, <2>2, OnlyMatching DEF SafeInv
    <3>2. CASE UNCHANGED vars
      BY <1>2, <3>2 DEF vars, MatchInv
    <3> QED BY <1>2, <3>1, <3>2, PlaceOrderFair, MatchStepFair
  <2> QED BY <2>1, <2>2
<1> QED BY <1>1, <1>2, AlwaysSafe, PTL DEF Spec

(* match trades within the limit of the order and from the best price on,   *)
(* and what it traded and what is left make up the order.                   *)
THEOREM TradesStayBestFirst == Spec => []TradesBestFirst
<1>1. SafeInv /\ MatchInv => TradesBestFirst
  <2> SUFFICES ASSUME SafeInv, MatchInv, call.op = "match" PROVE TradesBestFirst
    BY DEF TradesBestFirst
  <2>1. call \in [op : {"match"}, order : Orders, volume : Int, trades : Seq(Trade)]
    BY InvFacts DEF SafeInv
  <2>2. DOMAIN call.trades = 1 .. Len(call.trades)
    BY <2>1
  <2>3. /\ InOrder(call.trades, call.order)
        /\ call.volume + SumSeq([i \in DOMAIN call.trades |-> call.trades[i].volume])
             = call.order.volume
    BY DEF MatchInv, Amounts
  <2> QED BY <2>2, <2>3 DEF TradesBestFirst, InOrder
<1> QED BY <1>1, AlwaysFair, PTL

(* A fill-or-kill order that passed can_fully_fill has something to trade   *)
(* with until it is filled: it never ends in a partial execution.           *)
THEOREM FillOrKillIsFilled == Spec => []FillOrKillFills
<1>1. SafeInv /\ MatchInv => FillOrKillFills
  <2> SUFFICES ASSUME SafeInv, MatchInv, call.op = "match",
                      call.order.type = "FILL_OR_KILL", call.volume > 0
               PROVE  Crossing
    BY DEF FillOrKillFills
  <2> DEFINE o == book.levels[opposed(call.order.side)]
  <2>1. can_fully_fill(o, call.order.side, call.order.price, call.volume)
    BY DEF MatchInv
  <2> HIDE DEF o
  <2>2. PICK k \in 1 .. Len(o) : \A j \in 1 .. k :
                                   crosses(call.order.side, call.order.price, o[j].price)
    BY <2>1 DEF can_fully_fill
  <2>3. 1 \in 1 .. k
    OBVIOUS
  <2>4. o # <<>>
    <3>1. Len(<<>>) = 0 /\ 1 .. 0 = {}
      OBVIOUS
    <3> QED BY <2>2, <3>1
  <2> QED BY <2>2, <2>3, <2>4 DEF Crossing, o
<1> QED BY <1>1, AlwaysFair, PTL

-----------------------------------------------------------------------------
(* Draining a queue                                                         *)

(* A queue of orders that have volume left.                                 *)
Queue(q) == q \in Seq(RestingOrder) /\ \A k \in 1 .. Len(q) : q[k].volume > 0

(* The partial sums satisfy their recursion.                                *)
LEMMA PartialSumsIs ==
  ASSUME NEW s, NEW n \in Nat, n = Len(s)
  PROVE  /\ PartialSums(s)[0] = 0
         /\ \A k \in 1 .. n : PartialSums(s)[k] = PartialSums(s)[k - 1] + s[k]
<1>1. PartialSums(s) = Sums(s)
  BY Zenon DEF PartialSums, Sums
<1>2. Sums(s) = [k \in 0 .. Len(s) |-> IF k = 0 THEN 0 ELSE Sums(s)[k - 1] + s[k]]
  BY SumsIs
<1> DEFINE f == Sums(s)
<1> HIDE DEF f
<1>3. f = [k \in 0 .. n |-> IF k = 0 THEN 0 ELSE f[k - 1] + s[k]]
  BY <1>2 DEF f
<1>4. f[0] = 0 /\ \A k \in 1 .. n : f[k] = f[k - 1] + s[k]
  BY <1>3
<1> QED BY <1>1, <1>4 DEF f

(* The sums of a queue grow from 0.                                         *)
LEMMA UptoFacts ==
  ASSUME NEW q, Queue(q), NEW n, n = Len(q)
  PROVE  /\ n \in Nat /\ DOMAIN q = 1 .. n
         /\ \A k \in 1 .. n : q[k] \in RestingOrder /\ q[k].volume \in Int /\ q[k].volume > 0
         /\ Upto(q)[0] = 0
         /\ \A k \in 1 .. n : Upto(q)[k] = Upto(q)[k - 1] + q[k].volume
         /\ \A k \in 0 .. n : Upto(q)[k] \in Int /\ \A j \in 0 .. k : Upto(q)[j] <= Upto(q)[k]
<1>1. q \in Seq(RestingOrder) /\ n \in Nat /\ DOMAIN q = 1 .. n
  BY DEF Queue
<1>2. \A k \in 1 .. n : q[k] \in RestingOrder /\ q[k].volume \in Int /\ q[k].volume > 0
  <2>1. \A k \in 1 .. n : q[k] \in RestingOrder
    BY <1>1
  <2>2. \A r \in RestingOrder : r.volume \in Int
    BY DEF RestingOrder
  <2> QED BY <2>1, <2>2 DEF Queue
<1> DEFINE v == [k \in DOMAIN q |-> q[k].volume]
           f == Upto(q)
<1>3. Len(v) = n /\ \A k \in 1 .. n : v[k] = q[k].volume
  BY <1>1
<1>4. f = PartialSums(v)
  BY DEF Upto
<1> HIDE DEF v, f
<1>5. f[0] = 0 /\ \A k \in 1 .. n : f[k] = f[k - 1] + v[k]
  BY <1>1, <1>3, <1>4, PartialSumsIs
<1> DEFINE T == {k \in 0 .. n : f[k] \in Int /\ \A j \in 0 .. k : f[j] \in Int /\ f[j] <= f[k]}
<1>6. 0 .. n \subseteq T
  <2>1. 0 \in T
    BY <1>1, <1>5
  <2>2. ASSUME NEW k \in 0 .. n, k \in T, k + 1 <= n PROVE k + 1 \in T
    <3>1. k + 1 \in 1 .. n /\ k + 1 \in 0 .. n /\ (k + 1) - 1 = k
      BY <1>1, <2>2
    <3>2. f[k] \in Int /\ \A j \in 0 .. k : f[j] \in Int /\ f[j] <= f[k]
      BY <2>2
    <3>3. f[k + 1] = f[k] + v[k + 1] /\ v[k + 1] \in Int /\ v[k + 1] > 0
      BY <1>2, <1>3, <1>5, <3>1
    <3>4. f[k + 1] \in Int /\ f[k] <= f[k + 1]
      BY <3>2, <3>3
    <3>5. ASSUME NEW j \in 0 .. k + 1 PROVE f[j] \in Int /\ f[j] <= f[k + 1]
      <4>1. j = k + 1 \/ j \in 0 .. k
        OBVIOUS
      <4> QED BY <3>2, <3>4, <4>1
    <3> QED BY <3>1, <3>4, <3>5
  <2> HIDE DEF T
  <2> QED BY <1>1, <2>1, <2>2, IntervalInduction
<1> QED BY <1>1, <1>2, <1>3, <1>5, <1>6 DEF f

(* g orders of q go when v units are drained.                               *)
Goes(q, v, g) == g \in 0 .. Len(q) /\ \A k \in 1 .. Len(q) : Upto(q)[k] <= v <=> k <= g

(* The orders that go are the first ones.                                   *)
LEMMA GoesExists ==
  ASSUME NEW q, Queue(q), NEW v \in Int
  PROVE  \E g : Goes(q, v, g)
<1> DEFINE n == Len(q)
           T == {k \in 1 .. n : Upto(q)[k] > v}
<1>1. /\ n \in Nat
      /\ \A k \in 0 .. n : Upto(q)[k] \in Int /\ \A j \in 0 .. k : Upto(q)[j] <= Upto(q)[k]
  BY UptoFacts
<1>2. CASE T = {}
  <2>1. Goes(q, v, n)
    BY <1>1, <1>2 DEF Goes
  <2> QED BY <2>1
<1>3. CASE T # {}
  <2>1. PICK x \in T : \A y \in T : x <= y
    <3>1. T \in SUBSET Nat
      OBVIOUS
    <3> HIDE DEF T
    <3> QED BY <1>3, <3>1, LeastNatural
  <2>2. x - 1 \in 0 .. n /\ x \in 1 .. n /\ Upto(q)[x] > v
    BY <1>1, <2>1
  <2>3. ASSUME NEW k \in 1 .. n PROVE Upto(q)[k] <= v <=> k <= x - 1
    <3>1. Upto(q)[k] \in Int /\ k \in 0 .. n /\ x \in 0 .. n
      BY <1>1, <2>2
    <3>2. CASE k < x
      <4>1. k \notin T
        BY <2>1, <2>2, <3>2
      <4> QED BY <2>2, <3>1, <3>2, <4>1
    <3>3. CASE x <= k
      <4>1. Upto(q)[x] <= Upto(q)[k] /\ Upto(q)[x] \in Int
        BY <1>1, <2>2, <3>1, <3>3
      <4> QED BY <2>2, <3>1, <3>3, <4>1
    <3> QED BY <2>2, <3>2, <3>3
  <2>4. Goes(q, v, x - 1)
    BY <2>2, <2>3 DEF Goes
  <2> QED BY <2>4
<1> QED BY <1>2, <1>3

(* What is left of an order that is k-th once g have gone.                  *)
Left(q, v, g, k) ==
  [id |-> q[g + k].id,
   volume |-> IF k = 1 /\ v > 0 THEN Upto(q)[g + 1] - v ELSE q[g + k].volume]

LEMMA DrainedIs ==
  ASSUME NEW q, Queue(q), NEW v \in Int, NEW g, Goes(q, v, g)
  PROVE  Drained(q, v) = [k \in 1 .. Len(q) - g |-> Left(q, v, g, k)]
<1> DEFINE n == Len(q)
           gone == {k \in DOMAIN q : Upto(q)[k] <= v}
<1>1. n \in Nat /\ DOMAIN q = 1 .. n /\ \A k \in 1 .. n : q[k] \in RestingOrder
  BY UptoFacts
<1>2. g \in 0 .. n /\ \A k \in 1 .. n : Upto(q)[k] <= v <=> k <= g
  BY DEF Goes
<1>3. gone = 1 .. g
  BY <1>1, <1>2
<1>4. Cardinality(gone) = g
  <2>1. Cardinality(1 .. g) = g
    BY <1>1, <1>2, FS_Interval
  <2> QED BY <1>3, <2>1
<1> HIDE DEF gone
<1> DEFINE D == [k \in 1 .. n - g |->
                   [q[g + k] EXCEPT !.volume = IF k = 1 /\ v > 0 THEN Upto(q)[g + 1] - v ELSE @]]
<1>5. Drained(q, v) = D
  BY <1>4 DEF Drained, gone
<1>6. ASSUME NEW k \in 1 .. n - g PROVE D[k] = Left(q, v, g, k)
  <2>1. g + k \in 1 .. n
    BY <1>1, <1>2
  <2>2. q[g + k] \in RestingOrder
    BY <1>1, <2>1
  <2> DEFINE r == q[g + k]
             u == Upto(q)[g + 1] - v
  <2>3. D[k] = [r EXCEPT !.volume = IF k = 1 /\ v > 0 THEN u ELSE r.volume]
    OBVIOUS
  <2> HIDE DEF r, u, D
  <2>4. r \in RestingOrder
    BY <2>2 DEF r
  <2>5. D[k] = [id |-> r.id, volume |-> IF k = 1 /\ v > 0 THEN u ELSE r.volume]
    BY <2>3, <2>4 DEF RestingOrder
  <2> QED BY <2>5 DEF r, u, Left
<1>7. D = [k \in 1 .. n - g |-> Left(q, v, g, k)]
  <2>1. D = [k \in 1 .. n - g |-> D[k]]
    OBVIOUS
  <2> HIDE DEF D
  <2> QED BY <1>6, <2>1
<1> QED BY <1>5, <1>7

(* Nothing goes when nothing is drained.                                    *)
LEMMA DrainedNone ==
  ASSUME NEW q, Queue(q), NEW v \in Int, v <= 0 \/ q = <<>>
  PROVE  Drained(q, v) = q
<1> DEFINE n == Len(q)
<1>1. /\ n \in Nat /\ DOMAIN q = 1 .. n /\ q \in Seq(RestingOrder)
      /\ \A k \in 1 .. n : q[k] \in RestingOrder /\ q[k].volume \in Int /\ q[k].volume > 0
      /\ Upto(q)[0] = 0
      /\ \A k \in 1 .. n : Upto(q)[k] = Upto(q)[k - 1] + q[k].volume
      /\ \A k \in 0 .. n : Upto(q)[k] \in Int /\ \A j \in 0 .. k : Upto(q)[j] <= Upto(q)[k]
  BY UptoFacts DEF Queue
<1>2. Goes(q, v, 0)
  <2>1. ASSUME NEW k \in 1 .. n PROVE ~(Upto(q)[k] <= v)
    <3>1. k - 1 \in 0 .. n /\ k \in 0 .. n /\ 0 \in 0 .. k - 1
      BY <1>1
    <3>2. Upto(q)[0] <= Upto(q)[k - 1] /\ Upto(q)[k - 1] \in Int /\ Upto(q)[0] = 0
      BY <1>1, <3>1
    <3>3. Upto(q)[k] = Upto(q)[k - 1] + q[k].volume /\ q[k].volume \in Int /\ q[k].volume > 0
      BY <1>1
    <3>4. Upto(q)[k] > 0 /\ Upto(q)[k] \in Int
      BY <3>2, <3>3
    <3>5. n # 0
      BY <1>1
    <3>6. v <= 0
      BY <3>5
    <3> QED BY <3>4, <3>6
  <2> QED BY <1>1, <2>1 DEF Goes
<1>3. Drained(q, v) = [k \in 1 .. n - 0 |-> Left(q, v, 0, k)]
  BY <1>2, DrainedIs
<1>4. ASSUME NEW k \in 1 .. n PROVE Left(q, v, 0, k) = q[k]
  <2>1. 0 + k = k /\ ~(k = 1 /\ v > 0)
    BY <1>1
  <2>2. Left(q, v, 0, k) = [id |-> q[k].id, volume |-> q[k].volume]
    BY <2>1 DEF Left
  <2>3. q[k] \in RestingOrder
    BY <1>1
  <2> QED BY <2>2, <2>3 DEF RestingOrder
<1>5. q = [k \in 1 .. n |-> q[k]]
  BY <1>1
<1>6. n - 0 = n
  BY <1>1
<1> HIDE DEF n
<1> QED BY <1>3, <1>4, <1>5, <1>6

(* q, whose oldest order has volume w.                                      *)
WithFirst(q, w) ==
  [k \in 1 .. Len(q) |-> IF k = 1 THEN [id |-> q[1].id, volume |-> w] ELSE q[k]]

(* The oldest order only gives up a part.                                   *)
LEMMA DrainedPart ==
  ASSUME NEW q, Queue(q), q # <<>>, NEW v \in Int, 0 < v, v < q[1].volume
  PROVE  Drained(q, v) = WithFirst(q, q[1].volume - v)
<1> DEFINE n == Len(q)
<1>1. /\ n \in Nat /\ DOMAIN q = 1 .. n /\ q \in Seq(RestingOrder)
      /\ \A k \in 1 .. n : q[k] \in RestingOrder /\ q[k].volume \in Int /\ q[k].volume > 0
      /\ Upto(q)[0] = 0
      /\ \A k \in 1 .. n : Upto(q)[k] = Upto(q)[k - 1] + q[k].volume
      /\ \A k \in 0 .. n : Upto(q)[k] \in Int /\ \A j \in 0 .. k : Upto(q)[j] <= Upto(q)[k]
  BY UptoFacts DEF Queue
<1>2. n >= 1 /\ 1 \in 1 .. n
  BY <1>1
<1>3. Upto(q)[1] = q[1].volume /\ q[1].volume \in Int
  <2>1. Upto(q)[1] = Upto(q)[1 - 1] + q[1].volume /\ 1 - 1 = 0
    BY <1>1, <1>2
  <2> QED BY <1>1, <1>2, <2>1
<1>4. Goes(q, v, 0)
  <2>1. ASSUME NEW k \in 1 .. n PROVE ~(Upto(q)[k] <= v)
    <3>1. k \in 0 .. n /\ 1 \in 0 .. k
      BY <1>1
    <3>2. Upto(q)[1] <= Upto(q)[k] /\ Upto(q)[k] \in Int
      BY <1>1, <3>1
    <3> QED BY <1>3, <3>2
  <2> QED BY <1>1, <2>1 DEF Goes
<1>5. Drained(q, v) = [k \in 1 .. n - 0 |-> Left(q, v, 0, k)]
  BY <1>4, DrainedIs
<1>6. ASSUME NEW k \in 1 .. n
      PROVE  Left(q, v, 0, k) = IF k = 1 THEN [id |-> q[1].id, volume |-> q[1].volume - v]
                                ELSE q[k]
  <2>1. 0 + k = k /\ 0 + 1 = 1
    OBVIOUS
  <2>2. q[k] \in RestingOrder
    BY <1>1
  <2>3. CASE k = 1
    BY <1>3, <2>1, <2>3 DEF Left
  <2>4. CASE k # 1
    <3>1. Left(q, v, 0, k) = [id |-> q[k].id, volume |-> q[k].volume]
      BY <2>1, <2>4 DEF Left
    <3> QED BY <2>2, <2>4, <3>1 DEF RestingOrder
  <2> QED BY <2>3, <2>4
<1>7. n - 0 = n
  BY <1>1
<1> HIDE DEF n
<1> QED BY <1>5, <1>6, <1>7 DEF WithFirst, n

(* The queue behind the oldest order.                                       *)
LEMMA TailQueue ==
  ASSUME NEW q, Queue(q), q # <<>>, NEW n, n = Len(q)
  PROVE  /\ Queue(Tail(q)) /\ Len(Tail(q)) = n - 1 /\ n \in Nat /\ n >= 1
         /\ \A k \in 1 .. n - 1 : Tail(q)[k] = q[k + 1]
<1>1. q \in Seq(RestingOrder) /\ n \in Nat /\ \A k \in 1 .. n : q[k].volume > 0
  BY DEF Queue
<1>2. n >= 1
  BY <1>1
<1>3. /\ Tail(q) \in Seq(RestingOrder) /\ Len(Tail(q)) = n - 1
      /\ \A k \in 1 .. n - 1 : Tail(q)[k] = q[k + 1]
  <2> HIDE DEF RestingOrder
  <2> QED BY <1>1, <1>2
<1>4. \A k \in 1 .. n - 1 : Tail(q)[k].volume > 0
  <2> TAKE k \in 1 .. n - 1
  <2>1. k + 1 \in 1 .. n
    BY <1>1
  <2> QED BY <1>1, <1>3, <2>1
<1> QED BY <1>1, <1>2, <1>3, <1>4 DEF Queue

(* The oldest order goes, and the rest is drained of what remains.          *)
LEMMA DrainedFirst ==
  ASSUME NEW q, Queue(q), q # <<>>, NEW v \in Int, q[1].volume <= v
  PROVE  Drained(q, v) = Drained(Tail(q), v - q[1].volume)
<1> DEFINE n == Len(q)
           t == Tail(q)
           a == q[1].volume
<1>1. /\ n \in Nat /\ DOMAIN q = 1 .. n
      /\ \A k \in 1 .. n : q[k] \in RestingOrder /\ q[k].volume \in Int /\ q[k].volume > 0
      /\ Upto(q)[0] = 0
      /\ \A k \in 1 .. n : Upto(q)[k] = Upto(q)[k - 1] + q[k].volume
      /\ \A k \in 0 .. n : Upto(q)[k] \in Int /\ \A j \in 0 .. k : Upto(q)[j] <= Upto(q)[k]
  BY UptoFacts
<1>2. Queue(t) /\ Len(t) = n - 1 /\ n >= 1 /\ \A k \in 1 .. n - 1 : t[k] = q[k + 1]
  BY TailQueue
<1> HIDE DEF t
<1>3. /\ Upto(t)[0] = 0
      /\ \A k \in 1 .. n - 1 : Upto(t)[k] = Upto(t)[k - 1] + t[k].volume
  BY <1>2, UptoFacts
<1>4. a \in Int /\ a > 0 /\ Upto(q)[1] = a
  <2>1. 1 \in 1 .. n /\ 1 - 1 = 0
    BY <1>1, <1>2
  <2>2. Upto(q)[1] = Upto(q)[1 - 1] + a /\ a \in Int /\ a > 0
    BY <1>1, <2>1
  <2> QED BY <1>1, <2>1, <2>2
<1> DEFINE T == {k \in 0 .. n - 1 : Upto(t)[k] = Upto(q)[k + 1] - a}
<1>5. 0 .. n - 1 \subseteq T
  <2>1. 0 \in T
    <3>1. Upto(q)[0 + 1] - a = 0
      BY <1>4
    <3> QED BY <1>1, <1>2, <1>3, <3>1
  <2>2. ASSUME NEW k \in 0 .. n - 1, k \in T, k + 1 <= n - 1 PROVE k + 1 \in T
    <3>1. /\ k + 1 \in 1 .. n - 1 /\ (k + 1) - 1 = k /\ k + 1 \in 0 .. n - 1
          /\ (k + 1) + 1 \in 1 .. n /\ ((k + 1) + 1) - 1 = k + 1 /\ k + 1 \in 0 .. n
      <4>1. n \in Nat /\ k \in 0 .. n - 1 /\ k + 1 <= n - 1
        BY <1>1, <2>2
      <4> HIDE DEF n
      <4> QED BY <4>1
    <3>2. Upto(t)[k] = Upto(q)[k + 1] - a
      BY <2>2
    <3>3. Upto(t)[k + 1] = Upto(t)[k] + t[k + 1].volume /\ t[k + 1] = q[(k + 1) + 1]
      BY <1>2, <1>3, <3>1
    <3>4. /\ Upto(q)[(k + 1) + 1] = Upto(q)[k + 1] + q[(k + 1) + 1].volume
          /\ Upto(q)[k + 1] \in Int /\ q[(k + 1) + 1].volume \in Int
      BY <1>1, <3>1
    <3>5. Upto(t)[k + 1] = Upto(q)[(k + 1) + 1] - a
      BY <1>4, <3>2, <3>3, <3>4
    <3> QED BY <3>1, <3>5
  <2>3. n - 1 \in Nat
    BY <1>1, <1>2
  <2> HIDE DEF T
  <2> QED BY <2>1, <2>2, <2>3, IntervalInduction
<1>6. PICK g : Goes(q, v, g)
  BY GoesExists
<1>7. g \in 0 .. n /\ \A k \in 1 .. n : Upto(q)[k] <= v <=> k <= g
  BY <1>6 DEF Goes
<1>8. g \in 1 .. n
  <2>1. 1 <= g
    BY <1>2, <1>4, <1>7
  <2> QED BY <1>1, <1>7, <2>1
<1>9. Goes(t, v - a, g - 1)
  <2>1. ASSUME NEW k \in 1 .. n - 1 PROVE Upto(t)[k] <= v - a <=> k <= g - 1
    <3>1. k + 1 \in 1 .. n /\ k \in 0 .. n - 1 /\ k + 1 \in 0 .. n
      BY <1>1
    <3>2. Upto(t)[k] = Upto(q)[k + 1] - a /\ Upto(q)[k + 1] \in Int
      BY <1>1, <1>5, <3>1
    <3>3. Upto(q)[k + 1] <= v <=> k + 1 <= g
      BY <1>7, <3>1
    <3> QED BY <1>4, <1>8, <3>2, <3>3
  <2> QED BY <1>1, <1>2, <1>8, <2>1 DEF Goes
<1>10. Drained(q, v) = [k \in 1 .. n - g |-> Left(q, v, g, k)]
  BY <1>6, DrainedIs
<1>11. Drained(t, v - a) = [k \in 1 .. (n - 1) - (g - 1) |-> Left(t, v - a, g - 1, k)]
  <2>1. v - a \in Int
    BY <1>4
  <2>2. Drained(t, v - a) = [k \in 1 .. Len(t) - (g - 1) |-> Left(t, v - a, g - 1, k)]
    <3> HIDE DEF a
    <3> QED BY <1>2, <1>9, <2>1, DrainedIs
  <2> QED BY <1>2, <2>2
<1>12. (n - 1) - (g - 1) = n - g
  BY <1>1, <1>8
<1>13. ASSUME NEW k \in 1 .. n - g PROVE Left(q, v, g, k) = Left(t, v - a, g - 1, k)
  <2>1. /\ g - 1 + k \in 1 .. n - 1 /\ (g - 1 + k) + 1 = g + k /\ (g - 1) + 1 = g
        /\ g \in 0 .. n - 1 /\ g + 1 \in 1 .. n /\ (g + 1) - 1 = g /\ g + 1 \in 0 .. n
    <3>1. n \in Nat /\ k \in 1 .. n - g /\ g \in 1 .. n
      BY <1>1, <1>8
    <3> HIDE DEF n
    <3> QED BY <3>1
  <2>2. t[g - 1 + k] = q[g + k]
    BY <1>2, <2>1
  <2>3. Upto(t)[g] = Upto(q)[g + 1] - a /\ Upto(q)[g + 1] \in Int
    BY <1>1, <1>5, <2>1
  <2>4. ASSUME k = 1, v > 0 PROVE Upto(q)[g + 1] - v = IF v - a > 0 THEN Upto(t)[g] - (v - a)
                                                      ELSE t[g - 1 + k].volume
    <3>1. CASE v - a > 0
      BY <1>4, <2>3, <3>1
    <3>2. CASE ~(v - a > 0)
      <4>1. v = a
        BY <1>4, <3>2
      <4>2. g = 1
        <5>1. ~(g > 1)
          <6> SUFFICES ASSUME g > 1 PROVE FALSE
            OBVIOUS
          <6>1. 2 \in 1 .. n /\ 2 - 1 = 1
            BY <1>1, <1>8
          <6>2. Upto(q)[2] = Upto(q)[1] + q[2].volume /\ q[2].volume \in Int /\ q[2].volume > 0
            BY <1>1, <6>1
          <6>3. Upto(q)[2] <= v
            BY <1>7, <1>8, <6>1
          <6> QED BY <1>4, <4>1, <6>2, <6>3
        <5> QED BY <1>8, <5>1
      <4>3. Upto(q)[g + 1] = a + q[g + k].volume /\ q[g + k].volume \in Int
        BY <1>1, <1>4, <2>1, <2>4, <4>2
      <4> QED BY <1>4, <2>2, <3>2, <4>1, <4>3
    <3> QED BY <3>1, <3>2
  <2>5. k = 1 /\ v - a > 0 => v > 0
    BY <1>4
  <2> QED BY <2>1, <2>2, <2>4, <2>5 DEF Left
<1> HIDE DEF n, a
<1> QED BY <1>10, <1>11, <1>12, <1>13 DEF t, a

-----------------------------------------------------------------------------
(* The queue of a price, read off the layout                                *)

(* The orders of q stand at key, each at its rank.                          *)
Reads(N, nodes, place, q, key) ==
  /\ q \in Seq(RestingOrder)
  /\ \A n \in 1 .. N : place[n].key = key =>
       place[n].rank \in 1 .. Len(q) /\ q[place[n].rank] = nodes[n].value
  /\ \A r \in 1 .. Len(q) : \E n \in 1 .. N : place[n].key = key /\ place[n].rank = r

(* A layout leaves no choice for the queue.                                 *)
LEMMA ReadsOnce ==
  ASSUME NEW N, NEW nodes, NEW place, NEW key, NEW q, NEW r,
         Reads(N, nodes, place, q, key), Reads(N, nodes, place, r, key)
  PROVE  q = r
<1>1. /\ q \in Seq(RestingOrder) /\ r \in Seq(RestingOrder)
      /\ Len(q) \in Nat /\ Len(r) \in Nat
  BY DEF Reads
<1>2. \A k \in 1 .. Len(q) : k \in 1 .. Len(r) /\ q[k] = r[k]
  <2> TAKE k \in 1 .. Len(q)
  <2>1. PICK n \in 1 .. N : place[n].key = key /\ place[n].rank = k
    BY DEF Reads
  <2> QED BY <2>1 DEF Reads
<1>3. \A k \in 1 .. Len(r) : k \in 1 .. Len(q)
  <2> TAKE k \in 1 .. Len(r)
  <2>1. PICK n \in 1 .. N : place[n].key = key /\ place[n].rank = k
    BY DEF Reads
  <2> QED BY <2>1 DEF Reads
<1>4. Len(q) = Len(r)
  <2>1. Len(q) <= Len(r)
    <3>1. CASE Len(q) = 0
      BY <1>1, <3>1
    <3>2. CASE Len(q) # 0
      <4>1. Len(q) \in 1 .. Len(q)
        BY <1>1, <3>2
      <4> QED BY <1>1, <1>2, <4>1
    <3> QED BY <3>1, <3>2
  <2>2. Len(r) <= Len(q)
    <3>1. CASE Len(r) = 0
      BY <1>1, <3>1
    <3>2. CASE Len(r) # 0
      <4>1. Len(r) \in 1 .. Len(r)
        BY <1>1, <3>2
      <4> QED BY <1>1, <1>3, <4>1
    <3> QED BY <3>1, <3>2
  <2> QED BY <1>1, <2>1, <2>2
<1>5. q = [k \in 1 .. Len(q) |-> q[k]] /\ r = [k \in 1 .. Len(r) |-> r[k]]
  BY <1>1
<1> QED BY <1>2, <1>4, <1>5

(* The orders behind the head of a level are those that stand at its key.   *)
LEMMA ContentsRead ==
  ASSUME NEW b, BookOK(b), NEW ends, NEW place, Laid(b, ends, place),
         NEW side \in Sides, NEW it \in 1 .. Len(b.levels[side])
  PROVE  Reads(Len(b.pool.nodes), b.pool.nodes, place,
               Contents(b, b.levels[side][it]), Key(b, side, it))
<1> DEFINE N == Len(b.pool.nodes)
           fifo == Fifo(b, b.levels[side][it])
           key == Key(b, side, it)
           len == Length(ends, place, key)
           q == Contents(b, b.levels[side][it])
<1>1. Lists(N, fifo, place, key, len)
  BY FifoLists
<1>2. \A n \in 1 .. N : b.pool.nodes[n].value \in RestingOrder
  BY BookFields
<1>3. q = [k \in DOMAIN fifo |-> b.pool.nodes[fifo[k]].value]
  BY DEF Contents
<1> HIDE DEF N, fifo, key, len, q
<1>4. /\ fifo \in Seq(1 .. N) /\ Len(fifo) = len
      /\ \A k \in 1 .. len : place[fifo[k]].key = key /\ place[fifo[k]].rank = k
      /\ \A n \in 1 .. N : place[n].key = key =>
           place[n].rank \in 1 .. len /\ fifo[place[n].rank] = n
  BY <1>1 DEF Lists
<1>5. len \in Nat /\ DOMAIN fifo = 1 .. len /\ \A k \in 1 .. len : fifo[k] \in 1 .. N
  BY <1>4, SeqFacts
<1>6. q = [k \in 1 .. len |-> b.pool.nodes[fifo[k]].value]
  BY <1>3, <1>5
<1>7. q \in Seq(RestingOrder) /\ Len(q) = len
  <2>1. \A k \in 1 .. len : b.pool.nodes[fifo[k]].value \in RestingOrder
    BY <1>2, <1>5 DEF N
  <2> HIDE DEF RestingOrder
  <2>2. q \in [1 .. len -> RestingOrder]
    BY <1>6, <2>1
  <2> QED BY <1>5, <2>2
<1>8. \A n \in 1 .. N : place[n].key = key =>
        place[n].rank \in 1 .. Len(q) /\ q[place[n].rank] = b.pool.nodes[n].value
  BY <1>4, <1>6, <1>7
<1>9. \A r \in 1 .. Len(q) : \E n \in 1 .. N : place[n].key = key /\ place[n].rank = r
  BY <1>4, <1>5, <1>7
<1> QED BY <1>7, <1>8, <1>9 DEF Reads, N, q, key

(* The queue at a price reads the orders that stand there, if any.          *)
LEMMA OrdersRead ==
  ASSUME NEW b, BookOK(b), NEW ends, NEW place, Laid(b, ends, place),
         NEW side \in Sides, NEW price \in Prices
  PROVE  Reads(Len(b.pool.nodes), b.pool.nodes, place,
               OrdersAt(b, side, price), <<side, price>>)
<1> DEFINE at == {i \in DOMAIN b.levels[side] : b.levels[side][i].price = price}
           q == OrdersAt(b, side, price)
           key == <<side, price>>
<1>1. DOMAIN b.levels[side] = 1 .. Len(b.levels[side])
  BY LevelDomain
<1>2. CASE at = {}
  <2>1. q = <<>>
    BY <1>2 DEF OrdersAt
  <2>2. ends[key].head = 0 /\ ends[key].tail = 0
    <3>1. \A i \in 1 .. Len(b.levels[side]) : b.levels[side][i].price # price
      BY <1>1, <1>2
    <3> QED BY <3>1 DEF Laid, Bound
  <2>3. key \in Keys
    BY KeyFacts
  <2>4. \A n \in 1 .. Len(b.pool.nodes) : place[n].key # key
    <3>1. Ends(Len(b.pool.nodes), ends, place)
      BY DEF Laid, Layout
    <3> HIDE DEF key
    <3>2. \/ \A n \in 1 .. Len(b.pool.nodes) : place[n].key # key
          \/ ends[key].head \in 1 .. Len(b.pool.nodes)
      BY <2>3, <3>1 DEF Ends
    <3> QED BY <2>2, <3>2
  <2>5. Len(q) = 0 /\ q \in Seq(RestingOrder)
    BY <2>1
  <2> HIDE DEF q, key
  <2> QED BY <2>4, <2>5 DEF Reads, q, key
<1>3. CASE at # {}
  <2>1. PICK i : i = CHOOSE j \in at : TRUE
    OBVIOUS
  <2>2. i \in at
    BY <1>3, <2>1, Zenon
  <2>3. q = Contents(b, b.levels[side][i])
    BY <1>3, <2>1 DEF OrdersAt
  <2>4. i \in 1 .. Len(b.levels[side]) /\ b.levels[side][i].price = price
    BY <1>1, <2>2
  <2>5. Key(b, side, i) = key
    BY <2>4 DEF Key
  <2> QED BY <2>3, <2>4, <2>5, ContentsRead
<1> QED BY <1>2, <1>3

(* Each of them has volume left.                                            *)
LEMMA OrdersQueue ==
  ASSUME NEW b, BookOK(b), NEW ends, NEW place, Laid(b, ends, place),
         NEW side \in Sides, NEW price \in Prices
  PROVE  Queue(OrdersAt(b, side, price))
<1> DEFINE N == Len(b.pool.nodes)
           q == OrdersAt(b, side, price)
           key == <<side, price>>
<1>1. Reads(N, b.pool.nodes, place, q, key)
  BY OrdersRead
<1>2. Summed(N, b.pool.nodes, ends, place) /\ key \in Keys
  BY KeyFacts DEF Laid, Layout
<1> HIDE DEF N, q, key
<1>3. \A r \in 1 .. Len(q) : q[r].volume > 0
  <2> TAKE r \in 1 .. Len(q)
  <2>1. PICK n \in 1 .. N : place[n].key = key /\ place[n].rank = r
    BY <1>1 DEF Reads
  <2>2. q[r] = b.pool.nodes[n].value
    BY <1>1, <2>1 DEF Reads
  <2>3. b.pool.nodes[n].value.volume > 0
    BY <1>2, <2>1 DEF Summed
  <2> QED BY <2>2, <2>3
<1> QED BY <1>1, <1>3 DEF Queue, Reads, q

-----------------------------------------------------------------------------
(* How the queues change when the links do                                  *)

(* The same orders stand at key in both layouts, where they stood.          *)
SameAt(N, nodes, place, M, nodes2, place2, key) ==
  \A n \in 1 .. N \cup 1 .. M :
    /\ n \in 1 .. M /\ place2[n].key = key <=> n \in 1 .. N /\ place[n].key = key
    /\ n \in 1 .. N /\ place[n].key = key =>
         place2[n].rank = place[n].rank /\ nodes2[n].value = nodes[n].value

LEMMA ReadsSame ==
  ASSUME NEW N, NEW nodes, NEW place, NEW key, NEW q, Reads(N, nodes, place, q, key),
         NEW M, NEW nodes2, NEW place2, SameAt(N, nodes, place, M, nodes2, place2, key)
  PROVE  Reads(M, nodes2, place2, q, key)
<1>1. q \in Seq(RestingOrder)
  BY DEF Reads
<1>2. ASSUME NEW n \in 1 .. M, place2[n].key = key
      PROVE  place2[n].rank \in 1 .. Len(q) /\ q[place2[n].rank] = nodes2[n].value
  <2>1. n \in 1 .. N /\ place[n].key = key
    BY <1>2 DEF SameAt
  <2>2. place2[n].rank = place[n].rank /\ nodes2[n].value = nodes[n].value
    BY <2>1 DEF SameAt
  <2> QED BY <2>1, <2>2 DEF Reads
<1>3. ASSUME NEW r \in 1 .. Len(q)
      PROVE  \E n \in 1 .. M : place2[n].key = key /\ place2[n].rank = r
  <2>1. PICK n \in 1 .. N : place[n].key = key /\ place[n].rank = r
    BY DEF Reads
  <2>2. n \in 1 .. M /\ place2[n].key = key /\ place2[n].rank = place[n].rank
    BY <2>1 DEF SameAt
  <2> QED BY <2>1, <2>2
<1> QED BY <1>1, <1>2, <1>3 DEF Reads

(* Splicing a node out takes its order out of its queue, and no other.      *)
LEMMA ReadsSpliced ==
  ASSUME NEW N \in Nat, NEW nodes, NEW place, NEW nodes2, NEW ends,
         Layout(N, nodes, ends, place),
         NEW d \in 1 .. N, SplicedNodes(N, nodes, nodes2, d), place[d].key \in Keys,
         NEW key \in Keys, NEW q, Reads(N, nodes, place, q, key)
  PROVE  Reads(N, nodes2, Vacated(N, nodes, place, d),
               IF place[d].key = key THEN RemoveAt(q, place[d].rank) ELSE q, key)
<1> DEFINE v == Vacated(N, nodes, place, d)
           r == place[d].rank
           len == Len(q)
<1>1. v[d].key = NoKey
  BY DEF Vacated
<1>2. ASSUME NEW m \in 1 .. N, m # d
      PROVE  /\ v[m].key = place[m].key
             /\ v[m].rank = IF place[m].key = place[d].key /\ place[m].rank > r
                            THEN place[m].rank - 1 ELSE place[m].rank
             /\ nodes2[m].value = nodes[m].value
  BY <1>2, VacatedFields DEF SplicedNodes
<1>3. NoKey # key
  BY NoKeyIsNone
<1> HIDE DEF v
<1>4. CASE place[d].key # key
  <2>1. SameAt(N, nodes, place, N, nodes2, v, key)
    <3>1. ASSUME NEW n \in 1 .. N
          PROVE  /\ v[n].key = key <=> place[n].key = key
                 /\ place[n].key = key =>
                      v[n].rank = place[n].rank /\ nodes2[n].value = nodes[n].value
      <4>1. CASE n = d
        BY <1>1, <1>3, <1>4, <4>1
      <4>2. CASE n # d
        BY <1>2, <1>4, <4>2
      <4> QED BY <4>1, <4>2
    <3> QED BY <3>1 DEF SameAt
  <2> QED BY <1>4, <2>1, ReadsSame DEF v
<1>5. CASE place[d].key = key
  <2>1. q \in Seq(RestingOrder) /\ len \in Nat /\ r \in 1 .. len
    BY <1>5 DEF Reads
  <2> DEFINE p == RemoveAt(q, r)
  <2>2. /\ p \in Seq(RestingOrder) /\ Len(p) = len - 1
        /\ \A j \in 1 .. len - 1 : p[j] = IF j < r THEN q[j] ELSE q[j + 1]
    BY <2>1, RemoveAtProperties
  <2> HIDE DEF p, r, len
  <2>3. ASSUME NEW n \in 1 .. N, v[n].key = key
        PROVE  v[n].rank \in 1 .. Len(p) /\ p[v[n].rank] = nodes2[n].value
    <3>1. n # d
      BY <1>1, <1>3, <2>3
    <3>2. place[n].key = key /\ nodes2[n].value = nodes[n].value
      BY <1>2, <2>3, <3>1
    <3>3. place[n].rank \in 1 .. len /\ q[place[n].rank] = nodes[n].value
      BY <3>2 DEF Reads, len
    <3>4. place[n].rank # r
      <4>1. Distinct(N, place)
        BY DEF Layout
      <4> QED BY <1>5, <3>1, <3>2, <4>1 DEF Distinct, r
    <3>5. CASE place[n].rank > r
      <4>1. v[n].rank = place[n].rank - 1
        BY <1>2, <1>5, <3>1, <3>2, <3>5 DEF r
      <4>2. v[n].rank \in 1 .. len - 1 /\ ~(v[n].rank < r) /\ v[n].rank + 1 = place[n].rank
        BY <2>1, <3>3, <3>5, <4>1
      <4> QED BY <2>2, <3>2, <3>3, <4>2
    <3>6. CASE place[n].rank < r
      <4>1. v[n].rank = place[n].rank
        <5>1. ~(place[n].rank > r)
          BY <2>1, <3>3, <3>6
        <5> QED BY <1>2, <3>1, <5>1 DEF r
      <4>2. v[n].rank \in 1 .. len - 1 /\ v[n].rank < r
        BY <2>1, <3>3, <3>6, <4>1
      <4> QED BY <2>2, <3>2, <3>3, <4>1, <4>2
    <3> QED BY <2>1, <3>3, <3>4, <3>5, <3>6
  <2>4. ASSUME NEW k \in 1 .. Len(p)
        PROVE  \E n \in 1 .. N : v[n].key = key /\ v[n].rank = k
    <3>1. k \in 1 .. len - 1 /\ k \in 1 .. len /\ k + 1 \in 1 .. len
      BY <2>1, <2>2
    <3>2. CASE k < r
      <4>1. PICK n \in 1 .. N : place[n].key = key /\ place[n].rank = k
        BY <3>1 DEF Reads, len
      <4>2. n # d /\ ~(place[n].rank > r)
        BY <2>1, <3>1, <3>2, <4>1 DEF r
      <4>3. v[n].key = key /\ v[n].rank = k
        BY <1>2, <4>1, <4>2 DEF r
      <4> QED BY <4>3
    <3>3. CASE ~(k < r)
      <4>1. PICK n \in 1 .. N : place[n].key = key /\ place[n].rank = k + 1
        BY <3>1 DEF Reads, len
      <4>2. n # d /\ place[n].rank > r /\ place[n].rank - 1 = k
        BY <2>1, <3>1, <3>3, <4>1 DEF r
      <4>3. v[n].key = key /\ v[n].rank = k
        BY <1>2, <1>5, <4>1, <4>2 DEF r
      <4> QED BY <4>3
    <3> QED BY <3>2, <3>3
  <2>5. Reads(N, nodes2, v, p, key)
    BY <2>2, <2>3, <2>4 DEF Reads
  <2> QED BY <1>5, <2>5 DEF p, r, v
<1> QED BY <1>4, <1>5

(* A new volume for the oldest order changes that order in its queue.       *)
LEMMA ReadsRevalued ==
  ASSUME NEW N \in Nat, NEW nodes, NEW place, NEW nodes2, NEW ends,
         Layout(N, nodes, ends, place),
         NEW h \in 1 .. N, place[h].key \in Keys, place[h].rank = 1,
         NEW w \in Int, NEW delta, Revalued(N, nodes, nodes2, h, w),
         nodes2[h].value \in RestingOrder, nodes2[h].value.id = nodes[h].value.id,
         NEW key \in Keys, NEW q, Reads(N, nodes, place, q, key)
  PROVE  Reads(N, nodes2, Shifted(N, place, h, delta),
               IF place[h].key = key THEN WithFirst(q, w) ELSE q, key)
<1> DEFINE v == Shifted(N, place, h, delta)
           len == Len(q)
<1>1. \A m \in 1 .. N : v[m].key = place[m].key /\ v[m].rank = place[m].rank
  BY DEF Shifted
<1>2. \A m \in 1 .. N : m # h => nodes2[m].value = nodes[m].value
  BY DEF Revalued
<1> HIDE DEF v
<1>3. CASE place[h].key # key
  <2>1. SameAt(N, nodes, place, N, nodes2, v, key)
    BY <1>1, <1>2, <1>3 DEF SameAt
  <2> QED BY <1>3, <2>1, ReadsSame DEF v
<1>4. CASE place[h].key = key
  <2>1. q \in Seq(RestingOrder) /\ len \in Nat /\ 1 \in 1 .. len /\ q[1] = nodes[h].value
    BY <1>4 DEF Reads
  <2> DEFINE p == WithFirst(q, w)
             e == [id |-> q[1].id, volume |-> w]
  <2>2. nodes2[h].value = e /\ e \in RestingOrder
    <3>1. nodes2[h].value = [id |-> nodes2[h].value.id, volume |-> nodes2[h].value.volume]
      BY DEF RestingOrder
    <3>2. nodes2[h].value.volume = w
      BY DEF Revalued
    <3> QED BY <2>1, <3>1, <3>2
  <2> HIDE DEF e
  <2>3. p = [k \in 1 .. len |-> IF k = 1 THEN e ELSE q[k]]
    BY DEF WithFirst, e
  <2>4. \A k \in 1 .. len : q[k] \in RestingOrder
    BY <2>1
  <2> HIDE DEF p, len
  <2>5. p \in [1 .. len -> RestingOrder]
    BY <2>2, <2>3, <2>4
  <2>6. p \in Seq(RestingOrder) /\ Len(p) = len
    <3> HIDE DEF RestingOrder
    <3> QED BY <2>1, <2>5
  <2>7. ASSUME NEW n \in 1 .. N, v[n].key = key
        PROVE  v[n].rank \in 1 .. Len(p) /\ p[v[n].rank] = nodes2[n].value
    <3>1. place[n].key = key /\ v[n].rank = place[n].rank
      BY <1>1, <2>7
    <3>2. place[n].rank \in 1 .. len /\ q[place[n].rank] = nodes[n].value
      BY <3>1 DEF Reads, len
    <3>3. CASE n = h
      <4>1. v[n].rank = 1
        BY <3>1, <3>3
      <4> QED BY <2>1, <2>2, <2>3, <2>6, <3>3, <4>1
    <3>4. CASE n # h
      <4>1. place[n].rank # 1
        <5>1. Distinct(N, place)
          BY DEF Layout
        <5> QED BY <1>4, <3>1, <3>4, <5>1 DEF Distinct
      <4> QED BY <1>2, <2>3, <2>6, <3>1, <3>2, <3>4, <4>1
    <3> QED BY <3>3, <3>4
  <2>8. ASSUME NEW k \in 1 .. Len(p)
        PROVE  \E n \in 1 .. N : v[n].key = key /\ v[n].rank = k
    <3>1. PICK n \in 1 .. N : place[n].key = key /\ place[n].rank = k
      BY <2>6 DEF Reads, len
    <3> QED BY <1>1, <3>1
  <2>9. Reads(N, nodes2, v, p, key)
    BY <2>6, <2>7, <2>8 DEF Reads
  <2> QED BY <1>4, <2>9 DEF p, v
<1> QED BY <1>3, <1>4

(* A queue is as long as its list.                                          *)
LEMMA ReadsLength ==
  ASSUME NEW N \in Nat, NEW nodes, NEW place, NEW ends, Layout(N, nodes, ends, place),
         NEW key \in Keys, NEW q, Reads(N, nodes, place, q, key)
  PROVE  /\ Len(q) = Length(ends, place, key)
         /\ ends[key].head = 0 <=> ends[key].tail = 0
<1>1. /\ Length(ends, place, key) \in 0 .. N
      /\ \A n \in 1 .. N : place[n].key = key =>
           place[n].rank \in 1 .. Length(ends, place, key)
  BY LengthBounded
<1>2. \/ ends[key].head = 0 /\ ends[key].tail = 0 /\ \A n \in 1 .. N : place[n].key # key
      \/ /\ ends[key].head \in 1 .. N /\ place[ends[key].head].key = key
         /\ ends[key].tail \in 1 .. N /\ place[ends[key].tail].key = key
  BY DEF Layout, Ends
<1>3. ends[key].head = 0 <=> ends[key].tail = 0
  BY <1>2
<1>4. Len(q) \in Nat
  BY DEF Reads
<1>5. Len(q) <= Length(ends, place, key)
  <2>1. CASE Len(q) = 0
    BY <1>1, <2>1
  <2>2. CASE Len(q) # 0
    <3>1. Len(q) \in 1 .. Len(q)
      BY <1>4, <2>2
    <3>2. PICK n \in 1 .. N : place[n].key = key /\ place[n].rank = Len(q)
      BY <3>1 DEF Reads
    <3> QED BY <1>1, <1>4, <3>2
  <2> QED BY <2>1, <2>2
<1>6. Length(ends, place, key) <= Len(q)
  <2>1. CASE ends[key].head = 0
    BY <1>4, <2>1 DEF Length
  <2>2. CASE ends[key].head # 0
    <3>1. place[ends[key].tail].rank \in 1 .. Len(q)
      BY <1>2, <2>2 DEF Reads
    <3> QED BY <1>4, <2>2, <3>1 DEF Length
  <2> QED BY <2>1, <2>2
<1> QED BY <1>1, <1>3, <1>4, <1>5, <1>6

(* An order that joins a list joins the end of its queue.                   *)
LEMMA ReadsAppended ==
  ASSUME NEW N \in Nat, NEW nodes, NEW place, NEW ends, Layout(N, nodes, ends, place),
         NEW M \in Nat, NEW nodes2, NEW v, NEW at \in Keys, NEW node, NEW w \in RestingOrder,
         JoinedBy(N, nodes, place, ends, M, nodes2, v, at, node, w),
         NEW key \in Keys, NEW q, Reads(N, nodes, place, q, key)
  PROVE  Reads(M, nodes2, v, IF key = at THEN Append(q, w) ELSE q, key)
<1>1. /\ N <= M /\ node \in 1 .. M
      /\ \A m \in 1 .. M : m # node => m \in 1 .. N /\ nodes2[m].value = nodes[m].value
      /\ node \in 1 .. N => place[node].key \notin Keys
      /\ nodes2[node].value = w
  BY DEF JoinedBy
<1>2. /\ v[node].key = at
      /\ v[node].rank = IF ends[at].tail = 0 THEN 1 ELSE place[ends[at].tail].rank + 1
      /\ \A m \in 1 .. M : m # node => v[m] = place[m]
  BY <1>1 DEF JoinedBy, Joined
<1>3. q \in Seq(RestingOrder) /\ Len(q) \in Nat
  BY DEF Reads
<1>4. ASSUME NEW n \in 1 .. N, place[n].key = key PROVE n # node /\ n \in 1 .. M
  BY <1>1, <1>4
<1>5. CASE key # at
  <2>1. SameAt(N, nodes, place, M, nodes2, v, key)
    <3> SUFFICES ASSUME NEW n \in 1 .. N \cup 1 .. M
                 PROVE  /\ n \in 1 .. M /\ v[n].key = key <=> n \in 1 .. N /\ place[n].key = key
                        /\ n \in 1 .. N /\ place[n].key = key =>
                             v[n].rank = place[n].rank /\ nodes2[n].value = nodes[n].value
      BY DEF SameAt
    <3>1. CASE n = node
      BY <1>2, <1>4, <1>5, <3>1
    <3>2. CASE n # node
      BY <1>1, <1>2, <1>4, <3>2
    <3> QED BY <3>1, <3>2
  <2> QED BY <1>5, <2>1, ReadsSame
<1>6. CASE key = at
  <2> DEFINE p == Append(q, w)
             len == Len(q)
  <2>1. p \in Seq(RestingOrder) /\ Len(p) = len + 1 /\ p[len + 1] = w
        /\ \A k \in 1 .. len : p[k] = q[k]
    <3> HIDE DEF RestingOrder
    <3> QED BY <1>3
  <2>2. v[node].rank = len + 1
    <3>1. len = Length(ends, place, key) /\ (ends[key].head = 0 <=> ends[key].tail = 0)
      BY ReadsLength
    <3>2. CASE ends[key].tail = 0
      BY <1>2, <1>6, <3>1, <3>2 DEF Length
    <3>3. CASE ends[key].tail # 0
      BY <1>2, <1>6, <3>1, <3>3 DEF Length
    <3> QED BY <3>2, <3>3
  <2> HIDE DEF p
  <2>3. ASSUME NEW n \in 1 .. M, v[n].key = key
        PROVE  v[n].rank \in 1 .. Len(p) /\ p[v[n].rank] = nodes2[n].value
    <3>1. CASE n = node
      BY <1>1, <1>3, <2>1, <2>2, <3>1
    <3>2. CASE n # node
      <4>1. n \in 1 .. N /\ v[n] = place[n] /\ nodes2[n].value = nodes[n].value
        BY <1>1, <1>2, <3>2
      <4>2. place[n].rank \in 1 .. len /\ q[place[n].rank] = nodes[n].value
        BY <2>3, <4>1 DEF Reads
      <4>3. place[n].rank \in 1 .. len + 1
        BY <1>3, <4>2
      <4> QED BY <2>1, <4>1, <4>2, <4>3
    <3> QED BY <3>1, <3>2
  <2>4. ASSUME NEW k \in 1 .. Len(p) PROVE \E n \in 1 .. M : v[n].key = key /\ v[n].rank = k
    <3>1. CASE k = len + 1
      BY <1>1, <1>2, <1>6, <2>2, <3>1
    <3>2. CASE k # len + 1
      <4>1. k \in 1 .. len
        BY <1>3, <2>1, <3>2
      <4>2. PICK n \in 1 .. N : place[n].key = key /\ place[n].rank = k
        BY <4>1 DEF Reads
      <4>3. n \in 1 .. M /\ v[n] = place[n]
        BY <1>2, <1>4, <4>2
      <4> QED BY <4>2, <4>3
    <3> QED BY <3>1, <3>2
  <2>5. Reads(M, nodes2, v, p, key)
    BY <2>1, <2>3, <2>4 DEF Reads
  <2> QED BY <1>6, <2>5 DEF p
<1> QED BY <1>5, <1>6

-----------------------------------------------------------------------------
(* How the queues of a book change                                          *)

(* The queues of c are those of b, but that at price of side is q.          *)
Requeued(b, c, side, price, q) ==
  \A s \in Sides, p \in Prices :
    OrdersAt(c, s, p) = IF s = side /\ p = price THEN q ELSE OrdersAt(b, s, p)

(* All queues of c are those of b.                                          *)
SameQueues(b, c) == \A s \in Sides, p \in Prices : OrdersAt(c, s, p) = OrdersAt(b, s, p)

(* What stands in the layout of c are its queues.                           *)
LEMMA RequeuedBy ==
  ASSUME NEW b, NEW c, BookOK(c), NEW e, NEW v, Laid(c, e, v), NEW side, NEW price, NEW q,
         \A s \in Sides, p \in Prices :
           Reads(Len(c.pool.nodes), c.pool.nodes, v,
                 IF s = side /\ p = price THEN q ELSE OrdersAt(b, s, p), <<s, p>>)
  PROVE  Requeued(b, c, side, price, q)
<1> SUFFICES ASSUME NEW s \in Sides, NEW p \in Prices
             PROVE  OrdersAt(c, s, p) = IF s = side /\ p = price THEN q ELSE OrdersAt(b, s, p)
  BY DEF Requeued
<1>1. Reads(Len(c.pool.nodes), c.pool.nodes, v, OrdersAt(c, s, p), <<s, p>>)
  BY OrdersRead
<1> QED BY <1>1, ReadsOnce

(* A queue that is drained of nothing, or replaced by itself, is the same.  *)
LEMMA RequeuedSame ==
  ASSUME NEW b, NEW c, NEW side \in Sides, NEW price \in Prices,
         Requeued(b, c, side, price, OrdersAt(b, side, price))
  PROVE  SameQueues(b, c)
BY DEF Requeued, SameQueues

(* What happens to the queues of b and then to those of c.                  *)
LEMMA RequeuedThenSame ==
  ASSUME NEW b, NEW c, NEW d, NEW side, NEW price, NEW q,
         Requeued(b, c, side, price, q), SameQueues(c, d)
  PROVE  Requeued(b, d, side, price, q)
BY DEF Requeued, SameQueues

(* An order that is removed leaves its queue.                               *)
LEMMA RemovedOrders ==
  ASSUME NEW b, BookOK(b), Sorted(b.levels), NEW ends, NEW place, Laid(b, ends, place),
         NEW side \in Sides, NEW it \in 1 .. Len(b.levels[side]),
         NEW d \in 1 .. Len(b.pool.nodes), place[d].key = Key(b, side, it),
         NEW c, BookOK(c), RemovedFrom(b, c, side, it, d), Forgotten(b, c, d),
         NEW price, price = b.levels[side][it].price
  PROVE  Requeued(b, c, side, price, RemoveAt(OrdersAt(b, side, price), place[d].rank))
<1> DEFINE N == Len(b.pool.nodes)
           v == Vacated(N, b.pool.nodes, place, d)
           e == EndsWith(ends, Key(b, side, it),
                         c.levels[side][it].head, c.levels[side][it].tail)
<1>1. Laid(c, e, v)
  BY RemoveLaid
<1>2. /\ N \in Nat /\ Layout(N, b.pool.nodes, ends, place)
      /\ SplicedNodes(N, b.pool.nodes, c.pool.nodes, d)
      /\ Len(c.pool.nodes) = N
  BY BookFields DEF Laid, RemovedFrom
<1>3. place[d].key = <<side, price>> /\ place[d].key \in Keys
  BY LevelKey DEF Key
<1> HIDE DEF N, e
<1>4. \A s \in Sides, p \in Prices :
        Reads(N, c.pool.nodes, v,
              IF s = side /\ p = price THEN RemoveAt(OrdersAt(b, side, price), place[d].rank)
                                       ELSE OrdersAt(b, s, p), <<s, p>>)
  <2> TAKE s \in Sides, p \in Prices
  <2>1. <<s, p>> \in Keys /\ (place[d].key = <<s, p>> <=> s = side /\ p = price)
    BY <1>3, KeyFacts
  <2>2. Reads(N, b.pool.nodes, place, OrdersAt(b, s, p), <<s, p>>)
    BY OrdersRead DEF N
  <2> DEFINE q == OrdersAt(b, s, p)
             k == <<s, p>>
  <2> HIDE DEF q, k, v
  <2>3. Reads(N, c.pool.nodes, v, IF place[d].key = k THEN RemoveAt(q, place[d].rank) ELSE q, k)
    BY <1>2, <1>3, <2>1, <2>2, ReadsSpliced DEF N, v, q, k
  <2>4. CASE s = side /\ p = price
    BY <2>1, <2>3, <2>4 DEF q, k
  <2>5. CASE ~(s = side /\ p = price)
    <3>1. place[d].key # k
      BY <2>1, <2>5 DEF k
    <3> QED BY <2>3, <2>5, <3>1 DEF q, k
  <2> QED BY <2>4, <2>5
<1> HIDE DEF v
<1> QED BY <1>1, <1>2, <1>4, RequeuedBy

(* The oldest order that gives up volume keeps its place.                   *)
LEMMA ReducedOrders ==
  ASSUME NEW b, BookOK(b), Sorted(b.levels), NEW ends, NEW place, Laid(b, ends, place),
         NEW side \in Sides, NEW it \in 1 .. Len(b.levels[side]),
         NEW h, IsHead(b, side, it, h), h # kNull, NEW w \in Int, w > 0,
         NEW c, BookOK(c), Reduced(b, c, side, it, h, w),
         NEW price, price = b.levels[side][it].price
  PROVE  Requeued(b, c, side, price, WithFirst(OrdersAt(b, side, price), w))
<1> DEFINE N == Len(b.pool.nodes)
           delta == w - b.pool.nodes[h].value.volume
           v == Shifted(N, place, h, delta)
<1>1. Laid(c, ends, v)
  BY ReduceLaid
<1>2. /\ N \in Nat /\ Layout(N, b.pool.nodes, ends, place)
      /\ Revalued(N, b.pool.nodes, c.pool.nodes, h, w)
      /\ c.pool.nodes[h].value.id = b.pool.nodes[h].value.id
      /\ Len(c.pool.nodes) = N
  BY BookFields DEF Laid, Reduced
<1>3. /\ h \in 1 .. N /\ place[h].key = <<side, price>> /\ place[h].key \in Keys
      /\ place[h].rank = 1
  <2>1. /\ h \in 1 .. Len(b.pool.nodes) /\ place[h].key = Key(b, side, it)
        /\ Key(b, side, it) \in Keys /\ place[h].rank = 1
    BY HeadPlace
  <2> QED BY <2>1 DEF Key
<1>4. c.pool.nodes[h].value \in RestingOrder
  BY <1>2, <1>3, BookFields
<1> HIDE DEF N, delta
<1>5. \A s \in Sides, p \in Prices :
        Reads(N, c.pool.nodes, v,
              IF s = side /\ p = price THEN WithFirst(OrdersAt(b, side, price), w)
                                       ELSE OrdersAt(b, s, p), <<s, p>>)
  <2> TAKE s \in Sides, p \in Prices
  <2>1. <<s, p>> \in Keys /\ (place[h].key = <<s, p>> <=> s = side /\ p = price)
    BY <1>3, KeyFacts
  <2>2. Reads(N, b.pool.nodes, place, OrdersAt(b, s, p), <<s, p>>)
    BY OrdersRead DEF N
  <2> DEFINE q == OrdersAt(b, s, p)
             k == <<s, p>>
  <2> HIDE DEF q, k, v
  <2>3. Reads(N, c.pool.nodes, v, IF place[h].key = k THEN WithFirst(q, w) ELSE q, k)
    BY <1>2, <1>3, <1>4, <2>1, <2>2, ReadsRevalued DEF v, q, k
  <2>4. CASE s = side /\ p = price
    BY <2>1, <2>3, <2>4 DEF q, k
  <2>5. CASE ~(s = side /\ p = price)
    <3>1. place[h].key # k
      BY <2>1, <2>5 DEF k
    <3> QED BY <2>3, <2>5, <3>1 DEF q, k
  <2> QED BY <2>4, <2>5
<1> HIDE DEF v
<1> QED BY <1>1, <1>2, <1>5, RequeuedBy

(* The oldest order of a level is the first of its queue.                   *)
LEMMA HeadOrder ==
  ASSUME NEW b, BookOK(b), NEW ends, NEW place, Laid(b, ends, place),
         NEW side \in Sides, NEW it \in 1 .. Len(b.levels[side]),
         NEW price, price = b.levels[side][it].price, NEW q, q = OrdersAt(b, side, price)
  PROVE  /\ price \in Prices /\ Queue(q)
         /\ b.levels[side][it].head = 0 <=> q = <<>>
         /\ \A h : IsHead(b, side, it, h) /\ h # kNull =>
              q # <<>> /\ 1 \in 1 .. Len(q) /\ q[1] = b.pool.nodes[h].value /\ Head(q) = q[1]
<1> DEFINE N == Len(b.pool.nodes)
           key == <<side, price>>
<1>1. price \in Prices /\ key = Key(b, side, it) /\ key \in Keys
  BY LevelFields, LevelKey DEF Key
<1>2. Queue(q) /\ Reads(N, b.pool.nodes, place, q, key)
  BY <1>1, OrdersQueue, OrdersRead
<1>3. N \in Nat /\ Layout(N, b.pool.nodes, ends, place)
  BY BookFields DEF Laid
<1>4. ends[key].head = b.levels[side][it].head
  BY DEF Laid, Bound
<1> HIDE DEF N, key
<1>5. Len(q) = Length(ends, place, key)
  BY <1>1, <1>2, <1>3, ReadsLength
<1>6. q \in Seq(RestingOrder) /\ Len(q) \in Nat /\ (Len(q) = 0 <=> q = <<>>)
  BY <1>2 DEF Reads
<1>7. ASSUME b.levels[side][it].head = 0 PROVE q = <<>>
  BY <1>4, <1>5, <1>6, <1>7 DEF Length
<1>8. ASSUME NEW h, IsHead(b, side, it, h), h # kNull
      PROVE  q # <<>> /\ 1 \in 1 .. Len(q) /\ q[1] = b.pool.nodes[h].value /\ Head(q) = q[1]
  <2>1. h \in 1 .. N /\ place[h].key = key /\ place[h].rank = 1
    BY <1>1, <1>8, HeadPlace DEF N
  <2>2. 1 \in 1 .. Len(q) /\ q[1] = b.pool.nodes[h].value
    BY <1>2, <2>1 DEF Reads
  <2>3. q # <<>>
    BY <1>6, <2>2
  <2> QED BY <1>6, <2>2, <2>3
<1>9. ASSUME b.levels[side][it].head # 0 PROVE q # <<>>
  <2> DEFINE h == b.levels[side][it].head
  <2>1. IsHead(b, side, it, h) /\ h # kNull
    BY <1>9 DEF IsHead, kNull, null_index
  <2> HIDE DEF h
  <2> QED BY <1>8, <2>1
<1> QED BY <1>1, <1>2, <1>7, <1>8, <1>9

(* A price without a level has no orders.                                   *)
LEMMA NoLevelNoOrders ==
  ASSUME NEW b, BookOK(b), NEW side \in Sides, NEW price,
         \A i \in 1 .. Len(b.levels[side]) : b.levels[side][i].price # price
  PROVE  OrdersAt(b, side, price) = <<>>
BY LevelDomain DEF OrdersAt

(* erase_if_empty changes no queue.                                         *)
LEMMA ErasedOrders ==
  ASSUME NEW b, BookOK(b), NEW ends, NEW place, Laid(b, ends, place),
         NEW side \in Sides, NEW it \in 1 .. Len(b.levels[side])
  PROVE  SameQueues(b, erase_if_empty(b, side, it))
<1> DEFINE c == erase_if_empty(b, side, it)
<1>1. Laid(c, ends, place) /\ c.pool = b.pool
  BY EraseLaid
<1>2. BookOK(c)
  BY EraseIfEmptyOK DEF Keeps
<1> HIDE DEF c
<1> SUFFICES ASSUME NEW s \in Sides, NEW p \in Prices
             PROVE  OrdersAt(c, s, p) = OrdersAt(b, s, p)
  BY DEF SameQueues, c
<1>3. Reads(Len(b.pool.nodes), b.pool.nodes, place, OrdersAt(b, s, p), <<s, p>>)
  BY OrdersRead
<1>4. Reads(Len(b.pool.nodes), b.pool.nodes, place, OrdersAt(c, s, p), <<s, p>>)
  BY <1>1, <1>2, OrdersRead
<1> QED BY <1>3, <1>4, ReadsOnce

(* Removing the oldest of a queue leaves its tail.                          *)
LEMMA OldestRemoved ==
  ASSUME NEW q, Queue(q), q # <<>>
  PROVE  RemoveAt(q, 1) = Tail(q)
<1> DEFINE n == Len(q)
<1>1. Queue(Tail(q)) /\ Len(Tail(q)) = n - 1 /\ n \in Nat /\ n >= 1
      /\ \A k \in 1 .. n - 1 : Tail(q)[k] = q[k + 1]
  BY TailQueue
<1>2. q \in Seq(RestingOrder) /\ 1 \in 1 .. n /\ Tail(q) \in Seq(RestingOrder)
  BY <1>1 DEF Queue
<1>3. /\ RemoveAt(q, 1) \in Seq(RestingOrder)
      /\ Len(RemoveAt(q, 1)) = n - 1
      /\ \A j \in 1 .. n - 1 : RemoveAt(q, 1)[j] = IF j < 1 THEN q[j] ELSE q[j + 1]
  BY <1>2, RemoveAtProperties
<1> DEFINE r == RemoveAt(q, 1)
           t == Tail(q)
<1> HIDE DEF n, r, t
<1>4. \A j \in 1 .. n - 1 : r[j] = t[j]
  <2> TAKE j \in 1 .. n - 1
  <2>1. ~(j < 1)
    BY <1>1
  <2> QED BY <1>1, <1>3, <2>1 DEF r, t
<1>5. r = [k \in 1 .. n - 1 |-> r[k]] /\ t = [k \in 1 .. n - 1 |-> t[k]]
  <2>1. r \in Seq(RestingOrder) /\ Len(r) = n - 1 /\ t \in Seq(RestingOrder) /\ Len(t) = n - 1
    BY <1>1, <1>2, <1>3 DEF r, t
  <2> HIDE DEF RestingOrder
  <2> QED BY <2>1
<1>6. r = t
  BY <1>4, <1>5
<1> QED BY <1>6 DEF r, t

(* take drains the queue of its level, by what the oldest order has.        *)
LEMMA TakenOrders ==
  ASSUME NEW b, BookOK(b), Sorted(b.levels), NEW ends, NEW place, Laid(b, ends, place),
         NEW side \in Sides, NEW it \in 1 .. Len(b.levels[side]),
         NEW h, IsHead(b, side, it, h), h # kNull,
         NEW amount \in Int, 0 < amount, amount <= b.pool.nodes[h].value.volume,
         NEW price, price = b.levels[side][it].price
  PROVE  Requeued(b, take(b, side, it, amount), side, price,
                  Drained(OrdersAt(b, side, price), amount))
<1> DEFINE c == take(b, side, it, amount)
           q == OrdersAt(b, side, price)
           vol == b.pool.nodes[h].value.volume
           left == vol - amount
<1>1. /\ h \in 1 .. Len(b.pool.nodes) /\ place[h].key = Key(b, side, it) /\ place[h].rank = 1
      /\ b.pool.nodes[h].prev = 0 /\ vol \in Int
  BY HeadPlace
<1>2. /\ left = 0 => RemovedFrom(b, c, side, it, h) /\ c.index = unindex(b, h)
      /\ left # 0 => Reduced(b, c, side, it, h, left)
  BY <1>1, TakeFacts
<1>3. BookOK(c)
  <2>1. PICK head : UpdateOK(b, side, it, take(b, side, it, amount), head)
    BY TakeOK DEF IsHead
  <2> QED BY <2>1 DEF UpdateOK
<1>4. Queue(q) /\ q # <<>> /\ q[1].volume = vol
  BY HeadOrder
<1> HIDE DEF c, q
<1>5. CASE left = 0
  <2>1. RemovedFrom(b, c, side, it, h) /\ Forgotten(b, c, h)
    BY <1>1, <1>2, <1>5, UnindexForgets DEF Laid
  <2>2. Requeued(b, c, side, price, RemoveAt(q, 1))
    BY <1>1, <1>3, <2>1, RemovedOrders DEF q
  <2>3. RemoveAt(q, 1) = Tail(q)
    BY <1>4, OldestRemoved
  <2>4. Drained(q, amount) = Tail(q)
    <3>1. amount - q[1].volume = 0 /\ q[1].volume <= amount
      <4> HIDE DEF vol
      <4> QED BY <1>1, <1>4, <1>5
    <3>2. Drained(q, amount) = Drained(Tail(q), amount - q[1].volume)
      BY <1>4, <3>1, DrainedFirst
    <3>3. Queue(Tail(q))
      BY <1>4, TailQueue
    <3>4. Drained(Tail(q), 0) = Tail(q)
      <4>1. 0 \in Int /\ 0 <= 0
        OBVIOUS
      <4> QED BY <3>3, <4>1, DrainedNone
    <3> QED BY <3>1, <3>2, <3>4
  <2> QED BY <2>2, <2>3, <2>4 DEF c, q
<1>6. CASE left # 0
  <2>1. left \in Int /\ left > 0 /\ amount < vol
    <3>1. vol \in Int /\ amount <= vol /\ vol - amount # 0
      BY <1>1, <1>6
    <3> HIDE DEF vol
    <3> QED BY <3>1
  <2>2. Reduced(b, c, side, it, h, left)
    BY <1>2, <1>6
  <2>3. Requeued(b, c, side, price, WithFirst(q, left))
    <3> HIDE DEF left
    <3> QED BY <1>3, <2>1, <2>2, ReducedOrders DEF q
  <2>4. Drained(q, amount) = WithFirst(q, q[1].volume - amount)
    BY <1>4, <2>1, DrainedPart
  <2> QED BY <1>4, <2>3, <2>4 DEF c, q
<1> QED BY <1>5, <1>6

(* rest appends the order to the queue of its price.                        *)
LEMMA RestedOrders ==
  ASSUME NEW b, BookOK(b), ~Exhausted(b.pool), Sorted(b.levels), Occupied(b.levels),
         NEW ends, NEW place, Laid(b, ends, place), Totals(b.levels, ends, place),
         NEW id \in OrderIds, NEW side \in Sides, NEW price \in Prices,
         NEW volume \in Int, volume > 0,
         NEW it \in find_level(b.levels[side], side, price),
         NEW c, BookOK(c), c = rest(b, it, id, side, price, volume)
  PROVE  Requeued(b, c, side, price,
                  Append(OrdersAt(b, side, price), [id |-> id, volume |-> volume]))
<1> DEFINE N == Len(b.pool.nodes)
           M == Len(c.pool.nodes)
           w == [id |-> id, volume |-> volume]
           at == <<side, price>>
<1>1. PICK e, v, node : Laid(c, e, v)
                        /\ JoinedBy(N, b.pool.nodes, place, ends, M, c.pool.nodes, v, at, node, w)
  <2>1. LET d == rest(b, it, id, side, price, volume) IN
         \E e, v :
           /\ Laid(d, e, v) 
           /\ \E node : JoinedBy(Len(b.pool.nodes), b.pool.nodes, place, ends,
                                Len(d.pool.nodes), d.pool.nodes, v,
                                <<side, price>>, node, [id |-> id, volume |-> volume])
    BY RestLaid
  <2> QED BY <2>1
<1>2. N \in Nat /\ M \in Nat /\ Layout(N, b.pool.nodes, ends, place)
  BY BookFields DEF Laid
<1>3. w \in RestingOrder /\ at \in Keys
  BY KeyFacts DEF RestingOrder
<1>4. \A s \in Sides, p \in Prices :
        Reads(M, c.pool.nodes, v,
              IF s = side /\ p = price THEN Append(OrdersAt(b, side, price), w)
                                       ELSE OrdersAt(b, s, p), <<s, p>>)
  <2> TAKE s \in Sides, p \in Prices
  <2>1. <<s, p>> \in Keys /\ (<<s, p>> = at <=> s = side /\ p = price)
    BY KeyFacts
  <2>2. Reads(N, b.pool.nodes, place, OrdersAt(b, s, p), <<s, p>>)
    BY OrdersRead DEF N
  <2> DEFINE q == OrdersAt(b, s, p)
             k == <<s, p>>
  <2> HIDE DEF q, k, w, at, N, M
  <2>3. Reads(M, c.pool.nodes, v, IF k = at THEN Append(q, w) ELSE q, k)
    BY <1>1, <1>2, <1>3, <2>1, <2>2, ReadsAppended DEF q, k
  <2>4. CASE s = side /\ p = price
    BY <2>1, <2>3, <2>4 DEF q, k
  <2>5. CASE ~(s = side /\ p = price)
    <3>1. k # at
      BY <2>1, <2>5 DEF k
    <3> QED BY <2>3, <2>5, <3>1 DEF q, k
  <2> QED BY <2>4, <2>5
<1> QED BY <1>1, <1>4, RequeuedBy

-----------------------------------------------------------------------------
(* The abstract state                                                       *)

(* What the function that runs with locals c will have made of its orders.  *)
OutcomeOf(c, orders) ==
  CASE c.op = "delete_order" -> Drained(orders, c.volume)
    [] c.op = "clear_level" -> <<>>
    [] c.op = "collapse_level" -> <<[orders[1] EXCEPT !.volume = c.volume]>>

(* c holds an iterator to the level of price p on side s.                   *)
Holding(b, c, s, p) ==
  /\ c.op \in {"delete_order", "clear_level", "collapse_level"}
  /\ c.side = s
  /\ b.levels[c.side][c.it].price = p

(* The queues a book stands for while a function runs with locals c.        *)
QueueOf(b, c, s, p) ==
  IF Holding(b, c, s, p) THEN OutcomeOf(c, OrdersAt(b, s, p)) ELSE OrdersAt(b, s, p)
QueuesOf(b, c) == [s \in Sides |-> [p \in Prices |-> QueueOf(b, c, s, p)]]
RequestOf(c) == IF c.op \in {"match", "aborted"} THEN c ELSE Idle

(* The mapped state of a state and of its successor.                        *)
LEMMA BarNow == queueBar = QueuesOf(book, call) /\ requestBar = RequestOf(call)
BY Zenon DEF queueBar, requestBar, QueueAt, Reworks, Outcome, CalledLevel, QueuesOf, QueueOf,
      RequestOf, Holding, OutcomeOf

LEMMA BarNext == queueBar' = QueuesOf(book', call') /\ requestBar' = RequestOf(call')
BY Zenon DEF queueBar, requestBar, QueueAt, Reworks, Outcome, CalledLevel, QueuesOf, QueueOf,
      RequestOf, Holding, OutcomeOf

(* The queues Q, but for that of one price.                                 *)
WithQueue(Q, side, price, q) ==
  [s \in Sides |-> [p \in Prices |-> IF s = side /\ p = price THEN q ELSE Q[s][p]]]

(* Q is a queue for every price of every side.                              *)
IsQueues(Q) == Q = [s \in Sides |-> [p \in Prices |-> Q[s][p]]]

LEMMA QueuesAre ==
  ASSUME NEW b, NEW c
  PROVE  /\ IsQueues(QueuesOf(b, c))
         /\ \A s \in Sides, p \in Prices : QueuesOf(b, c)[s][p] = QueueOf(b, c, s, p)
BY Zenon DEF QueuesOf, IsQueues

(* Assigning one queue.                                                     *)
LEMMA QueueAssigned ==
  ASSUME NEW Q, IsQueues(Q), NEW side \in Sides, NEW price \in Prices, NEW q
  PROVE  [Q EXCEPT ![side][price] = q] = WithQueue(Q, side, price, q)
<1> DEFINE R == [Q EXCEPT ![side][price] = q]
           row == [Q[side] EXCEPT ![price] = q]
           W == WithQueue(Q, side, price, q)
<1>1. Q = [s \in Sides |-> [p \in Prices |-> Q[s][p]]]
  BY DEF IsQueues
<1>2. R = [s \in Sides |-> IF s = side THEN row ELSE Q[s]]
  BY <1>1
<1>3. \A s \in Sides : Q[s] = [p \in Prices |-> Q[s][p]]
  BY <1>1
<1>4. row = [p \in Prices |-> IF p = price THEN q ELSE Q[side][p]]
  BY <1>3
<1>5. W = [s \in Sides |-> [p \in Prices |-> IF s = side /\ p = price THEN q ELSE Q[s][p]]]
  BY DEF WithQueue
<1> HIDE DEF R, W, row
<1>6. \A s \in Sides : R[s] = W[s]
  <2> TAKE s \in Sides
  <2>1. CASE s = side
    BY <1>2, <1>4, <1>5, <2>1
  <2>2. CASE s # side
    <3>1. R[s] = Q[s]
      BY <1>2, <2>2
    <3>2. W[s] = [p \in Prices |-> Q[s][p]]
      BY <1>5, <2>2
    <3> QED BY <1>3, <3>1, <3>2
  <2> QED BY <2>1, <2>2
<1>7. R = [s \in Sides |-> R[s]] /\ W = [s \in Sides |-> W[s]]
  BY <1>2, <1>5
<1> QED BY <1>6, <1>7 DEF R, W

(* The queues of d and e are those of b and c, but that one of them is q.   *)
Moves(b, c, d, e, side, price, q) ==
  \A s \in Sides, p \in Prices :
    QueueOf(d, e, s, p) = IF s = side /\ p = price THEN q ELSE QueueOf(b, c, s, p)

(* The queues Q when that of one price becomes q.                           *)
Put(Q, side, price, q) == [Q EXCEPT ![side][price] = q]

LEMMA QueuesDiffer ==
  ASSUME NEW b, NEW c, NEW d, NEW e, NEW side \in Sides, NEW price \in Prices, NEW q,
         Moves(b, c, d, e, side, price, q)
  PROVE  QueuesOf(d, e) = Put(QueuesOf(b, c), side, price, q)
<1> DEFINE Q == QueuesOf(b, c)
           R == QueuesOf(d, e)
           W == WithQueue(Q, side, price, q)
<1>1. /\ IsQueues(Q) /\ \A s \in Sides, p \in Prices : Q[s][p] = QueueOf(b, c, s, p)
      /\ IsQueues(R) /\ \A s \in Sides, p \in Prices : R[s][p] = QueueOf(d, e, s, p)
  BY QueuesAre
<1> HIDE DEF Q, R
<1>2. R = [s \in Sides |-> [p \in Prices |-> R[s][p]]]
  BY <1>1 DEF IsQueues
<1>3. W = [s \in Sides |-> [p \in Prices |-> IF s = side /\ p = price THEN q ELSE Q[s][p]]]
  BY DEF WithQueue
<1>4. \A s \in Sides, p \in Prices :
        R[s][p] = IF s = side /\ p = price THEN q ELSE Q[s][p]
  BY <1>1 DEF Moves
<1>5. R = W
  BY <1>2, <1>3, <1>4, Zenon
<1>6. Put(Q, side, price, q) = W
  BY <1>1, QueueAssigned DEF Put
<1> QED BY <1>5, <1>6 DEF Q, R

(* A step that changes no queue.                                            *)
LEMMA QueuesStay ==
  ASSUME NEW b, NEW c, NEW d, NEW e,
         \A s \in Sides, p \in Prices : QueueOf(d, e, s, p) = QueueOf(b, c, s, p)
  PROVE  QueuesOf(d, e) = QueuesOf(b, c)
BY Zenon DEF QueuesOf

(* Outside the functions that hold a level, the queues are what rests.      *)
LEMMA QueueOfFree ==
  ASSUME NEW b, NEW c, c.op \notin {"delete_order", "clear_level", "collapse_level"},
         NEW s, NEW p
  PROVE  QueueOf(b, c, s, p) = OrdersAt(b, s, p)
BY DEF QueueOf, Holding

(* A call that holds no level leads to one that holds none.                 *)
LEMMA FreeToFree ==
  ASSUME NEW b, NEW c, c.op \notin {"delete_order", "clear_level", "collapse_level"},
         NEW d, NEW e, e.op \notin {"delete_order", "clear_level", "collapse_level"}
  PROVE  /\ SameQueues(b, d) => QueuesOf(d, e) = QueuesOf(b, c)
         /\ \A side \in Sides, price \in Prices : \A q :
              Requeued(b, d, side, price, q) =>
                QueuesOf(d, e) = Put(QueuesOf(b, c), side, price, q)
<1>1. \A s \in Sides, p \in Prices : /\ QueueOf(b, c, s, p) = OrdersAt(b, s, p)
                                     /\ QueueOf(d, e, s, p) = OrdersAt(d, s, p)
  BY QueueOfFree
<1>2. ASSUME SameQueues(b, d) PROVE QueuesOf(d, e) = QueuesOf(b, c)
  <2>1. \A s \in Sides, p \in Prices : QueueOf(d, e, s, p) = QueueOf(b, c, s, p)
    BY <1>1, <1>2 DEF SameQueues
  <2> QED BY <2>1, QueuesStay
<1>3. ASSUME NEW side \in Sides, NEW price \in Prices, NEW q, Requeued(b, d, side, price, q)
      PROVE  QueuesOf(d, e) = Put(QueuesOf(b, c), side, price, q)
  <2>1. Moves(b, c, d, e, side, price, q)
    BY <1>1, <1>3 DEF Requeued, Moves
  <2> QED BY <2>1, QueuesDiffer
<1> QED BY <1>2, <1>3

-----------------------------------------------------------------------------
(* The queues while a level is being collapsed                              *)

(* The queues of b and c are the same but for one.                          *)
OthersSame(b, c, side, price) ==
  \A s \in Sides, p \in Prices :
    s # side \/ p # price => OrdersAt(c, s, p) = OrdersAt(b, s, p)

(* The oldest order at a price is that in slot h.                           *)
FirstIs(b, side, price, h) ==
  OrdersAt(b, side, price) # <<>> /\ OrdersAt(b, side, price)[1] = b.pool.nodes[h].value

(* The nodes set_level frees behind a head belong to no other queue, and    *)
(* the head it will overwrite is still the oldest order.                    *)
Collapsing(b, side, it, node) ==
  /\ OthersSame(b, Repaired(b, side, it, node), side, b.levels[side][it].price)
  /\ FirstIs(b, side, b.levels[side][it].price, b.levels[side][it].head)

(* The definition of Fifo over the walk, and of Contents over the FIFO.      *)
FifoOf(N, at) ==
  LET length == CHOOSE n \in 0 .. N : \A k \in 1 .. N : at[k] # kNull <=> k <= n
  IN  [k \in 1 .. length |-> at[k]]
ContentsOf(nodes, fifo) == [k \in DOMAIN fifo |-> nodes[fifo[k]].value]

(* The queues are read from the nodes and the levels.                       *)
LEMMA ReadFromNodes ==
  ASSUME NEW b, NEW c, c.pool.nodes = b.pool.nodes, c.levels = b.levels
  PROVE  \A s, p : OrdersAt(c, s, p) = OrdersAt(b, s, p)
<1>1. \A h : Walk(c, h) = Walk(b, h)
  BY Zenon DEF Walk
<1>2. ASSUME NEW lvl PROVE Contents(c, lvl) = Contents(b, lvl)
  <2>1. \A d : Fifo(d, lvl) = FifoOf(Len(d.pool.nodes), Walk(d, lvl.head))
    BY Zenon DEF Fifo, FifoOf
  <2>2. \A d : Contents(d, lvl) = ContentsOf(d.pool.nodes, Fifo(d, lvl))
    BY Zenon DEF Contents, ContentsOf
  <2>3. Fifo(c, lvl) = Fifo(b, lvl)
    BY <1>1, <2>1, Zenon
  <2> QED BY <2>2, <2>3, Zenon
<1> QED BY <1>2, Zenon DEF OrdersAt

(* At first nothing has been removed.                                       *)
LEMMA CollapsingStarts ==
  ASSUME NEW b, BookOK(b), Sorted(b.levels), Good(b),
         NEW side \in Sides, NEW it \in 1 .. Len(b.levels[side]),
         NEW h, IsHead(b, side, it, h), h # kNull,
         NEW node, node = b.pool.nodes[h].next
  PROVE  Collapsing(b, side, it, node)
<1> DEFINE w == b.pool.nodes[h].value.volume
           c == Repaired(b, side, it, node)
           price == b.levels[side][it].price
<1>1. Reduces(b, c, side, it, h, w)
  BY CollapseStarts
<1>2. PICK ends, place : Laid(b, ends, place)
  BY <1>1 DEF Reduces
<1>3. w \in Int /\ w > 0
  BY <1>2, HeadPlace
<1>4. BookOK(c) /\ Reduced(b, c, side, it, h, w)
  BY <1>1 DEF Reduces
<1>5. price = b.levels[side][it].price
  OBVIOUS
<1> HIDE DEF c, w, price
<1>6. Requeued(b, c, side, price, WithFirst(OrdersAt(b, side, price), w))
  BY <1>2, <1>3, <1>4, <1>5, ReducedOrders
<1>7. OthersSame(b, c, side, price)
  BY <1>6 DEF Requeued, OthersSame
<1>8. FirstIs(b, side, price, h)
  BY <1>2, <1>5, HeadOrder DEF FirstIs
<1>9. h = b.levels[side][it].head
  BY DEF IsHead
<1> QED BY <1>7, <1>8, <1>9 DEF Collapsing, c, price

(* Freeing the next node changes no queue, and no other in the book that    *)
(* remains.                                                                 *)
LEMMA CollapsingContinues ==
  ASSUME NEW b, BookOK(b), Sorted(b.levels), DOMAIN b.index = {},
         NEW side \in Sides, NEW it \in 1 .. Len(b.levels[side]),
         NEW h, IsHead(b, side, it, h), h # kNull,
         NEW node \in 1 .. Len(b.pool.nodes), node # kNull,
         GoodBut(Repaired(b, side, it, node), side, it),
         NEW a, a = [pool |-> deallocate(b.pool, node), levels |-> b.levels, index |-> b.index],
         NEW next, next = b.pool.nodes[node].next,
         Collapsing(b, side, it, node)
  PROVE  /\ Collapsing(a, side, it, next)
         /\ \A s, p : OrdersAt(a, s, p) = OrdersAt(b, s, p)
<1>1. a.pool.nodes = b.pool.nodes /\ a.levels = b.levels
  BY DEF deallocate
<1>2. \A s, p : OrdersAt(a, s, p) = OrdersAt(b, s, p)
  BY <1>1, ReadFromNodes
<1> DEFINE c == Repaired(b, side, it, node)
           d == Repaired(a, side, it, next)
           price == b.levels[side][it].price
<1>3. Removes(c, d, side, it, node)
  BY CollapseContinues
<1>4. price \in Prices
  BY LevelFields
<1>5. c.levels[side][it].price = price
  BY RepairedFacts DEF IsRepaired, SamePrices
<1> HIDE DEF c, d, price
<1>6. OthersSame(c, d, side, price)
  <2>1. PICK ends, place : Laid(c, ends, place) /\ place[node].key = Key(c, side, it)
    BY <1>3 DEF Removes
  <2>2. /\ BookOK(c) /\ BookOK(d) /\ Sorted(c.levels) /\ it \in 1 .. Len(c.levels[side])
        /\ node \in 1 .. Len(c.pool.nodes) /\ RemovedFrom(c, d, side, it, node)
        /\ Forgotten(c, d, node)
    BY <1>3 DEF Removes
  <2>3. Requeued(c, d, side, price, RemoveAt(OrdersAt(c, side, price), place[node].rank))
    BY <2>1, <2>2, <1>5, RemovedOrders
  <2> QED BY <2>3 DEF Requeued, OthersSame
<1>7. OthersSame(b, c, side, price) /\ FirstIs(b, side, price, b.levels[side][it].head)
  BY DEF Collapsing, c, price
<1>8. OthersSame(a, d, side, price)
  BY <1>2, <1>6, <1>7 DEF OthersSame
<1>9. FirstIs(a, side, price, a.levels[side][it].head)
  BY <1>1, <1>2, <1>7 DEF FirstIs
<1> QED BY <1>1, <1>2, <1>8, <1>9 DEF Collapsing, d, price

(* At last the level is one order with all of the volume.                   *)
LEMMA CollapsingEnds ==
  ASSUME NEW b, BookOK(b), Sorted(b.levels),
         NEW side \in Sides, NEW it \in 1 .. Len(b.levels[side]),
         NEW h, IsHead(b, side, it, h), h # kNull,
         GoodBut(Repaired(b, side, it, 0), side, it),
         NEW volume \in Int, volume > 0, Collapsing(b, side, it, 0),
         NEW price, price = b.levels[side][it].price
  PROVE  Requeued(b, Collapsed(b, side, it, h, volume), side, price,
                  <<[OrdersAt(b, side, price)[1] EXCEPT !.volume = volume]>>)
<1> DEFINE c == Repaired(b, side, it, 0)
           d == Collapsed(b, side, it, h, volume)
           q == OrdersAt(d, side, price)
<1>1. Reduces(c, d, side, it, h, volume) /\ Good(d)
  BY CollapseEnds
<1>2. PICK ends, place : Laid(d, ends, place)
  BY <1>1 DEF Good, Holds
<1>3. /\ d.levels[side][it].head = h /\ d.levels[side][it].tail = h
      /\ SamePrices(b.levels, d.levels, side, it) /\ Len(d.pool.nodes) = Len(b.pool.nodes)
      /\ d.pool.nodes[h].value = [id |-> b.pool.nodes[h].value.id, volume |-> volume]
  <2> DEFINE p == set_next(b.pool, h, 0)
             r == [id |-> b.pool.nodes[h].value.id, volume |-> volume]
  <2>1. PoolOK(b.pool) /\ h \in 1 .. Len(b.pool.nodes) /\ h \in 0 .. Len(b.pool.nodes)
    BY BookFields, LevelFields DEF IsHead, kNull, null_index
  <2>2. PoolOK(p) /\ Len(p.nodes) = Len(b.pool.nodes)
    <3>1. 0 \in 0 .. Len(b.pool.nodes)
      BY BookFields
    <3> QED BY <2>1, <3>1, SetNextOK
  <2>3. set_value(p, h, r).nodes[h].value = r
    <3> HIDE DEF p, r
    <3> QED BY <2>1, <2>2, SetValueFields
  <2>4. Len(set_value(p, h, r).nodes) = Len(p.nodes)
    BY <2>1, <2>2 DEF set_value, PoolOK
  <2>5. d = Updated(b, side, it, set_value(p, h, r), volume, h, h, b.index)
    BY DEF Collapsed
  <2> HIDE DEF d, p
  <2>6. Assigned(b, d, side, it, set_value(p, h, r), volume, h, h, b.index)
    BY <2>1, <2>5, UpdatedFields
  <2> QED BY <2>2, <2>3, <2>4, <2>6 DEF Assigned
<1>4. BookOK(d) /\ BookOK(c) /\ Sorted(c.levels) /\ Reduced(c, d, side, it, h, volume)
      /\ it \in 1 .. Len(c.levels[side]) /\ IsHead(c, side, it, h)
  BY <1>1 DEF Reduces
<1>5. PICK ends0, place0 : Laid(c, ends0, place0)
  BY <1>1 DEF Reduces
<1>6. price \in Prices /\ it \in 1 .. Len(d.levels[side]) /\ price = d.levels[side][it].price
      /\ price = c.levels[side][it].price
  <2>1. price \in Prices
    BY LevelFields
  <2>2. price = c.levels[side][it].price
    <3>1. 0 \in 0 .. Len(b.pool.nodes)
      BY BookFields
    <3> QED BY <3>1, RepairedFacts DEF IsRepaired, SamePrices
  <2> QED BY <1>3, <2>1, <2>2 DEF SamePrices
<1> HIDE DEF c, d
<1>7. Requeued(c, d, side, price, WithFirst(OrdersAt(c, side, price), volume))
  BY <1>4, <1>5, <1>6, ReducedOrders
<1>8. q = <<[id |-> b.pool.nodes[h].value.id, volume |-> volume]>>
  <2> DEFINE key == <<side, price>>
  <2>0. IsHead(d, side, it, h)
    BY <1>3 DEF IsHead
  <2>1. Queue(q) /\ q # <<>> /\ q[1] = d.pool.nodes[h].value
    <3> HIDE DEF q
    <3>1. q = OrdersAt(d, side, price)
      BY DEF q
    <3>2. BookOK(d) /\ it \in 1 .. Len(d.levels[side]) /\ price = d.levels[side][it].price
      BY <1>4, <1>6
    <3>3. /\ Queue(q)
          /\ \A g : IsHead(d, side, it, g) /\ g # kNull =>
               q # <<>> /\ 1 \in 1 .. Len(q) /\ q[1] = d.pool.nodes[g].value /\ Head(q) = q[1]
      BY <1>2, <3>1, <3>2, HeadOrder
    <3> QED BY <2>0, <3>3
  <2>2. Reads(Len(d.pool.nodes), d.pool.nodes, place, q, key)
    BY <1>2, <1>4, <1>6, OrdersRead
  <2>3. key \in Keys /\ Layout(Len(d.pool.nodes), d.pool.nodes, ends, place)
        /\ Len(d.pool.nodes) \in Nat
    BY <1>2, <1>4, <1>6, KeyFacts, BookFields DEF Laid
  <2>4. Len(q) = Length(ends, place, key)
    BY <2>2, <2>3, ReadsLength
  <2>5. Key(d, side, it) = key
    BY <1>6 DEF Key
  <2>6. ends[key].head = h /\ ends[key].tail = h /\ place[h].rank = 1
    <3>1. /\ h = ends[Key(d, side, it)].head /\ place[h].rank = 1
          /\ ends[Key(d, side, it)].tail = d.levels[side][it].tail
      BY <1>2, <1>4, <1>6, <2>0, HeadPlace
    <3> QED BY <1>3, <2>5, <3>1
  <2>7. Len(q) = 1
    <3> HIDE DEF q, key
    <3> QED BY <2>4, <2>6 DEF Length, kNull, null_index
  <2>8. q = <<q[1]>>
    BY <2>1, <2>7 DEF Queue
  <2> QED BY <1>3, <2>1, <2>8
<1>9. OthersSame(b, c, side, price) /\ OrdersAt(b, side, price)[1] = b.pool.nodes[h].value
  BY DEF Collapsing, c, FirstIs, IsHead
<1>10. [OrdersAt(b, side, price)[1] EXCEPT !.volume = volume]
         = [id |-> b.pool.nodes[h].value.id, volume |-> volume]
  <2>1. b.pool.nodes[h].value \in RestingOrder
    BY BookFields, LevelFields DEF IsHead, kNull, null_index
  <2> QED BY <1>9, <2>1 DEF RestingOrder
<1> QED BY <1>7, <1>8, <1>9, <1>10 DEF Requeued, OthersSame, d

-----------------------------------------------------------------------------
(* The loops of delete_order, match and set_level                           *)

(* Draining what the oldest order gives, and then the rest, is draining all.*)
LEMMA DrainedTwice ==
  ASSUME NEW q, Queue(q), q # <<>>, NEW v \in Int, v > 0,
         NEW a, a = Lesser(v, q[1].volume), Queue(Drained(q, a))
  PROVE  Drained(Drained(q, a), v - a) = Drained(q, v)
<1> DEFINE u == q[1].volume
<1>1. u \in Int /\ u > 0
  <2> DEFINE n == Len(q)
  <2>1. n \in Nat /\ \A k \in 1 .. n : q[k].volume \in Int /\ q[k].volume > 0
    BY UptoFacts
  <2>2. n # 0
    BY DEF Queue
  <2> QED BY <2>1, <2>2
<1>2. CASE v < u
  <2>1. a = v /\ v - a = 0
    BY <1>1, <1>2 DEF Lesser
  <2>2. Drained(Drained(q, a), 0) = Drained(q, a)
    <3>1. 0 \in Int /\ 0 <= 0
      OBVIOUS
    <3> QED BY <3>1, DrainedNone
  <2> QED BY <2>1, <2>2
<1>3. CASE u <= v
  <2>1. a = u /\ v - u \in Int /\ u - u = 0
    BY <1>1, <1>3 DEF Lesser
  <2>2. Drained(q, v) = Drained(Tail(q), v - u)
    BY <1>3, DrainedFirst
  <2>3. Drained(q, u) = Drained(Tail(q), 0)
    <3>1. Drained(q, u) = Drained(Tail(q), u - u)
      <4>1. u <= u
        BY <1>1
      <4> QED BY <1>1, <4>1, DrainedFirst
    <3> QED BY <2>1, <3>1
  <2>4. Drained(Tail(q), 0) = Tail(q)
    <3>1. Queue(Tail(q))
      BY TailQueue
    <3>2. 0 \in Int /\ 0 <= 0
      OBVIOUS
    <3> QED BY <3>1, <3>2, DrainedNone
  <2> QED BY <2>1, <2>2, <2>3, <2>4
<1> QED BY <1>1, <1>2, <1>3

(* Popping the oldest order leaves the tail of its queue.                   *)
LEMMA PoppedOrders ==
  ASSUME NEW b, BookOK(b), Sorted(b.levels), NEW ends, NEW place, Laid(b, ends, place),
         NEW side \in Sides, NEW it \in 1 .. Len(b.levels[side]),
         NEW h, IsHead(b, side, it, h), h # kNull,
         BookOK(pop_front(b, side, it)),
         NEW price, price = b.levels[side][it].price
  PROVE  Requeued(b, pop_front(b, side, it), side, price, Tail(OrdersAt(b, side, price)))
<1> DEFINE c == pop_front(b, side, it)
<1>1. /\ h \in 1 .. Len(b.pool.nodes) /\ place[h].key = Key(b, side, it)
      /\ b.pool.nodes[h].prev = 0 /\ place[h].rank = 1
  BY HeadPlace
<1>2. RemovedFrom(b, c, side, it, h) /\ c.index = unindex(b, h)
  BY <1>1, PopFrontRemoves DEF IsHead
<1>3. Sound(b.pool.nodes, b.index, place)
  BY DEF Laid
<1> HIDE DEF c
<1>4. Forgotten(b, c, h)
  BY <1>1, <1>2, <1>3, UnindexForgets
<1>5. BookOK(c)
  BY DEF c
<1>6. Requeued(b, c, side, price, RemoveAt(OrdersAt(b, side, price), place[h].rank))
  BY <1>1, <1>2, <1>4, <1>5, RemovedOrders
<1>7. RemoveAt(OrdersAt(b, side, price), 1) = Tail(OrdersAt(b, side, price))
  <2>1. Queue(OrdersAt(b, side, price)) /\ OrdersAt(b, side, price) # <<>>
    BY HeadOrder
  <2> QED BY <2>1, OldestRemoved
<1> QED BY <1>1, <1>6, <1>7 DEF c

(* Cancelling an indexed order removes it from its queue, and no other.     *)
LEMMA CancelledOrders ==
  ASSUME NEW b, BookOK(b), Sorted(b.levels), Good(b), NEW id \in DOMAIN b.index,
         NEW side, NEW price, NEW node, IsLocated(b, id, side, price, node),
         NEW it \in find_level(b.levels[side], side, price)
  PROVE  /\ side \in Sides /\ price \in Prices
         /\ \E k \in DOMAIN OrdersAt(b, side, price) :
              /\ OrdersAt(b, side, price)[k].id = id
              /\ Requeued(b, cancelled(b, it, id), side, price,
                          RemoveAt(OrdersAt(b, side, price), k))
<1>1. PICK ends, place : Laid(b, ends, place) /\ Holds(b, ends, place)
                         /\ Totals(b.levels, ends, place)
  BY DEF Good, Holds
<1> DEFINE c == CancelledBook(b, it, id)
           d == cancelled(b, it, id)
           q == OrdersAt(b, side, price)
<1>2. /\ side \in Sides /\ node \in 1 .. Len(b.pool.nodes) /\ price \in Prices
      /\ it \in 1 .. Len(b.levels[side]) /\ b.levels[side][it].price = price
      /\ place[node].key = Key(b, side, it)
      /\ b.pool.nodes[node].next # node /\ b.pool.nodes[node].prev # node
  BY <1>1, IndexedPlace
<1>3. /\ d = erase_if_empty(c, side, it) /\ BookOK(c)
      /\ RemovedFrom(b, c, side, it, node) /\ c.index = Erase(b.index, id)
  BY <1>2, CancelFacts DEF IsLocated
<1>4. b.pool.nodes[node].value.id = id /\ b.index[id].node = node
  BY <1>1 DEF Laid, Sound, IsLocated
<1>5. Forgotten(b, c, node)
  <2>1. c.index = unindex(b, node)
    <3>1. id # kAnonymous
      BY <1>1, IndexedRests
    <3> QED BY <1>3, <1>4, <3>1 DEF unindex
  <2>2. Sound(b.pool.nodes, b.index, place)
    BY <1>1 DEF Laid
  <2> HIDE DEF c
  <2> QED BY <1>2, <2>1, <2>2, UnindexForgets
<1> HIDE DEF c, d
<1>6. Requeued(b, c, side, price, RemoveAt(q, place[node].rank))
  BY <1>1, <1>2, <1>3, <1>5, RemovedOrders
<1>7. SameQueues(c, d)
  <2> DEFINE v == Vacated(Len(b.pool.nodes), b.pool.nodes, place, node)
             e == EndsWith(ends, Key(b, side, it),
                           c.levels[side][it].head, c.levels[side][it].tail)
  <2>1. Laid(c, e, v)
    BY <1>1, <1>2, <1>3, <1>5, RemoveLaid
  <2>2. it \in 1 .. Len(c.levels[side])
    BY <1>2, <1>3 DEF RemovedFrom, SamePrices
  <2> HIDE DEF e, v
  <2> QED BY <1>2, <1>3, <2>1, <2>2, ErasedOrders
<1>8. Requeued(b, d, side, price, RemoveAt(q, place[node].rank))
  BY <1>6, <1>7, RequeuedThenSame
<1>9. place[node].rank \in 1 .. Len(q) /\ q[place[node].rank] = b.pool.nodes[node].value
      /\ DOMAIN q = 1 .. Len(q)
  <2>1. Reads(Len(b.pool.nodes), b.pool.nodes, place, q, <<side, price>>)
    BY <1>1, <1>2, OrdersRead
  <2>2. place[node].key = <<side, price>>
    BY <1>2 DEF Key
  <2>3. DOMAIN q = 1 .. Len(q)
    <3>1. q \in Seq(RestingOrder)
      BY <2>1 DEF Reads
    <3> QED BY <3>1
  <2> HIDE DEF q
  <2> QED BY <1>2, <2>1, <2>2, <2>3 DEF Reads
<1> QED BY <1>2, <1>4, <1>8, <1>9 DEF d

-----------------------------------------------------------------------------
(* Where orders rest                                                        *)

(* The places of the queues Q.                                              *)
RowOf(Q, s, p) == {<<s, p, k>> : k \in DOMAIN Q[s][p]}
PlacesOf(Q) == UNION {RowOf(Q, s, p) : s \in Sides, p \in Prices}

(* They are the abstract ones.                                              *)
LEMMA PlacesAre ==
  /\ PTB!Places = PlacesOf(queueBar)
  /\ PTB!RestingIds = {queueBar[x[1]][x[2]][x[3]].id : x \in PTB!Places}
<1>1. \A s, p : PTB!PlacesAt(s, p) = RowOf(queueBar, s, p)
  BY DEF PTB!PlacesAt, RowOf
<1>2. PTB!Places = UNION {PTB!PlacesAt(s, p) : s \in Sides, p \in Prices}
  BY DEF PTB!Places, PTB!Sides, Sides
<1>3. PTB!Places = PlacesOf(queueBar)
  BY <1>1, <1>2 DEF PlacesOf
<1>4. PTB!RestingIds = {queueBar[x[1]][x[2]][x[3]].id : x \in PTB!Places}
  BY Zenon DEF PTB!RestingIds
<1> QED BY <1>3, <1>4

LEMMA InPlaces ==
  ASSUME NEW Q
  PROVE  \A x : x \in PlacesOf(Q) <=>
           \E s \in Sides, p \in Prices : \E k \in DOMAIN Q[s][p] : x = <<s, p, k>>
<1>1. \A x : x \in PlacesOf(Q) <=> \E s \in Sides, p \in Prices : x \in RowOf(Q, s, p)
  BY DEF PlacesOf
<1>2. \A s, p, x : x \in RowOf(Q, s, p) <=> \E k \in DOMAIN Q[s][p] : x = <<s, p, k>>
  BY DEF RowOf
<1> QED BY <1>1, <1>2

(* Q are the queues of b.                                                   *)
Queues(b, Q) == \A s \in Sides, p \in Prices : Q[s][p] = OrdersAt(b, s, p)

(* The queues have one place for every slot that is handed out.             *)
LEMMA PlacesAreSlots ==
  ASSUME NEW b, BookOK(b), NEW ends, NEW place, Laid(b, ends, place), NEW Q, Queues(b, Q)
  PROVE  /\ Cardinality(PlacesOf(Q)) = Cardinality(LiveNodes(b.pool))
         /\ \A n \in LiveNodes(b.pool) : \E x \in PlacesOf(Q) :
              Q[x[1]][x[2]][x[3]] = b.pool.nodes[n].value
         /\ \A x \in PlacesOf(Q) : \E n \in LiveNodes(b.pool) :
              Q[x[1]][x[2]][x[3]] = b.pool.nodes[n].value
<1> DEFINE N == Len(b.pool.nodes)
           S == LiveNodes(b.pool)
           T == PlacesOf(Q)
           f == [n \in S |-> <<place[n].key[1], place[n].key[2], place[n].rank>>]
<1>1. N \in Nat /\ DOMAIN b.pool.nodes = 1 .. N
  BY BookFields DEF PoolOK
<1>2. S \subseteq 1 .. N /\ \A n \in 1 .. N : n \in S <=> place[n].key \in Keys
  BY <1>1 DEF LiveNodes, Laid, FreeOK
<1>3. \A n, m \in 1 .. N :
        place[n].key \in Keys /\ place[m].key = place[n].key /\ place[m].rank = place[n].rank
        => m = n
  <2>1. Distinct(N, place)
    BY DEF Laid, Layout
  <2> HIDE DEF N
  <2> SUFFICES ASSUME NEW n \in 1 .. N, NEW m \in 1 .. N, place[n].key \in Keys,
                      place[m].key = place[n].key, place[m].rank = place[n].rank
               PROVE  m = n
    OBVIOUS
  <2> QED BY <2>1 DEF Distinct
<1>4. \A s \in Sides, p \in Prices :
        /\ DOMAIN Q[s][p] = 1 .. Len(Q[s][p])
        /\ \A n \in 1 .. N : place[n].key = <<s, p>> =>
             place[n].rank \in 1 .. Len(Q[s][p])
             /\ Q[s][p][place[n].rank] = b.pool.nodes[n].value
        /\ \A r \in 1 .. Len(Q[s][p]) : \E n \in 1 .. N :
             place[n].key = <<s, p>> /\ place[n].rank = r
  <2> SUFFICES ASSUME NEW s \in Sides, NEW p \in Prices
      PROVE  /\ DOMAIN Q[s][p] = 1 .. Len(Q[s][p])
             /\ \A n \in 1 .. N : place[n].key = <<s, p>> =>
                  place[n].rank \in 1 .. Len(Q[s][p])
                  /\ Q[s][p][place[n].rank] = b.pool.nodes[n].value
             /\ \A r \in 1 .. Len(Q[s][p]) : \E n \in 1 .. N :
                  place[n].key = <<s, p>> /\ place[n].rank = r
    OBVIOUS
  <2>1. Reads(N, b.pool.nodes, place, Q[s][p], <<s, p>>)
    <3>1. Reads(N, b.pool.nodes, place, OrdersAt(b, s, p), <<s, p>>)
      BY OrdersRead
    <3> QED BY <3>1 DEF Queues
  <2>2. Q[s][p] \in Seq(RestingOrder)
    BY <2>1 DEF Reads
  <2>3. DOMAIN Q[s][p] = 1 .. Len(Q[s][p])
    BY <2>2
  <2> HIDE DEF N
  <2> QED BY <2>1, <2>3 DEF Reads
<1>5. \A k \in Keys : k = <<k[1], k[2]>> /\ k[1] \in Sides /\ k[2] \in Prices
  BY DEF Keys
<1> HIDE DEF N
<1>6. \A x : x \in T <=> \E s \in Sides, p \in Prices : \E k \in DOMAIN Q[s][p] : x = <<s, p, k>>
  BY InPlaces
<1> HIDE DEF S, T
<1>7. ASSUME NEW n \in S
      PROVE  f[n] \in T /\ Q[f[n][1]][f[n][2]][f[n][3]] = b.pool.nodes[n].value
  <2> DEFINE s == place[n].key[1]
             p == place[n].key[2]
             k == place[n].rank
  <2>1. n \in 1 .. N /\ s \in Sides /\ p \in Prices /\ place[n].key = <<s, p>>
    BY <1>2, <1>5
  <2>2. f[n] = <<s, p, k>>
    OBVIOUS
  <2> HIDE DEF s, p, k, f
  <2>3. k \in DOMAIN Q[s][p] /\ Q[s][p][k] = b.pool.nodes[n].value
    BY <1>4, <2>1 DEF k
  <2>4. <<s, p, k>> \in T
    BY <1>6, <2>1, <2>3
  <2> QED BY <2>2, <2>3, <2>4
<1>8. \A x \in T : \E n \in S :
        f[n] = x /\ Q[x[1]][x[2]][x[3]] = b.pool.nodes[n].value
  <2> SUFFICES ASSUME NEW x \in T
               PROVE  \E n \in S : f[n] = x /\ Q[x[1]][x[2]][x[3]] = b.pool.nodes[n].value
    OBVIOUS
  <2>1. PICK s \in Sides, p \in Prices : \E k \in DOMAIN Q[s][p] : x = <<s, p, k>>
    BY <1>6
  <2>2. PICK k \in 1 .. Len(Q[s][p]) : x = <<s, p, k>>
    BY <1>4, <2>1
  <2>3. PICK n \in 1 .. N : place[n].key = <<s, p>> /\ place[n].rank = k
    BY <1>4
  <2>4. <<s, p>> \in Keys
    BY KeyFacts
  <2>5. n \in S
    BY <1>2, <2>3, <2>4
  <2>6. f[n] = x
    BY <2>2, <2>3, <2>5
  <2>7. Q[s][p][k] = b.pool.nodes[n].value
    BY <1>4, <2>3
  <2> QED BY <2>2, <2>5, <2>6, <2>7
<1>9. \A n, m \in S : f[n] = f[m] => n = m
  <2> SUFFICES ASSUME NEW n \in S, NEW m \in S, f[n] = f[m] PROVE n = m
    OBVIOUS
  <2>1. place[n].key[1] = place[m].key[1] /\ place[n].key[2] = place[m].key[2]
        /\ place[n].rank = place[m].rank
    OBVIOUS
  <2>2. place[n].key = place[m].key /\ place[n].key \in Keys
    BY <1>2, <1>5, <2>1
  <2> QED BY <1>2, <1>3, <2>1, <2>2
<1>10. ExistsBijection(S, T)
  <2>1. f \in [S -> T] /\ DOMAIN f = S
    BY <1>7
  <2>2. \A t \in T : \E n \in S : f[n] = t
    BY <1>8
  <2> HIDE DEF f
  <2>3. f \in Injection(S, T)
    BY <1>9, <2>1 DEF Injection, IsInjective
  <2>4. f \in Surjection(S, T)
    BY <2>1, <2>2 DEF Surjection
  <2> QED BY <2>3, <2>4 DEF Bijection, ExistsBijection
<1>11. IsFiniteSet(S)
  <2>1. IsFiniteSet(1 .. N)
    BY <1>1, FS_Interval
  <2> QED BY <1>2, <2>1, FS_Subset
<1>12. Cardinality(T) = Cardinality(S)
  BY <1>10, <1>11, FS_Bijection
<1> HIDE DEF f
<1>13. \A n \in S : \E x \in T : Q[x[1]][x[2]][x[3]] = b.pool.nodes[n].value
  BY <1>7
<1>14. \A x \in T : \E n \in S : Q[x[1]][x[2]][x[3]] = b.pool.nodes[n].value
  BY <1>8
<1> QED BY <1>12, <1>13, <1>14 DEF S, T

(* The pool is exhausted when as many slots are handed out as it may have.  *)
LEMMA ExhaustedIsFull ==
  ASSUME NEW b, BookOK(b)
  PROVE  /\ Exhausted(b.pool) => Cardinality(LiveNodes(b.pool)) >= Capacity
         /\ ~Exhausted(b.pool) => Cardinality(LiveNodes(b.pool)) < Capacity
<1> DEFINE N == Len(b.pool.nodes)
           free == b.pool.free_list
           S == LiveNodes(b.pool)
<1>1. /\ N \in Nat /\ N <= Capacity /\ DOMAIN b.pool.nodes = 1 .. N
      /\ free \in Seq(1 .. N)
  <2>1. PoolOK(b.pool) /\ N \in Nat
    BY BookFields
  <2> QED BY <2>1 DEF PoolOK
<1>2. IsFiniteSet(1 .. N) /\ Cardinality(1 .. N) = N
  <2> HIDE DEF N
  <2> QED BY <1>1, FS_Interval
<1>3. S = 1 .. N \ ToSet(free)
  BY <1>1 DEF LiveNodes
<1>4. Exhausted(b.pool) <=> free = <<>> /\ N >= Capacity
  BY DEF Exhausted
<1> HIDE DEF N, free, S
<1>5. CASE free = <<>>
  <2>1. S = 1 .. N
    BY <1>3, <1>5 DEF ToSet
  <2> QED BY <1>1, <1>2, <1>4, <1>5, <2>1, CapacityAssumption DEF S
<1>6. CASE free # <<>>
  <2>1. PICK d \in 1 .. N : d \in ToSet(free)
    <3>1. 1 \in DOMAIN free /\ free[1] \in 1 .. N
      BY <1>1, <1>6
    <3> QED BY <3>1 DEF ToSet
  <2>2. IsFiniteSet(1 .. N \ {d}) /\ Cardinality(1 .. N \ {d}) = N - 1
    BY <1>2, FS_RemoveElement
  <2>3. S \in SUBSET (1 .. N \ {d})
    BY <1>3, <2>1
  <2>4. Cardinality(S) <= N - 1 /\ IsFiniteSet(S)
    BY <2>2, <2>3, FS_Subset
  <2>5. Cardinality(S) \in Nat
    BY <2>4, FS_CardinalityType
  <2> QED BY <1>1, <1>4, <1>6, <2>4, <2>5, CapacityAssumption DEF S
<1> QED BY <1>5, <1>6

(* So the abstract book is full exactly when the pool is exhausted, and it  *)
(* has the ids that rest.                                                   *)
LEMMA PlacesOfBook ==
  ASSUME BookOK(book), Good(book),
         call.op \notin {"delete_order", "clear_level", "collapse_level"}
  PROVE  /\ Exhausted(book.pool) => Cardinality(PTB!Places) >= Capacity
         /\ ~Exhausted(book.pool) => Cardinality(PTB!Places) < Capacity
         /\ PTB!RestingIds \subseteq RestingIds
<1> DEFINE Q == queueBar
<1>1. PICK ends, place : Laid(book, ends, place)
  BY DEF Good, Holds
<1>2. Queues(book, Q)
  <2>1. Q = QueuesOf(book, call)
    BY BarNow
  <2> HIDE DEF Q
  <2> QED BY <2>1, QueuesAre, QueueOfFree DEF Queues
<1>3. PTB!Places = PlacesOf(Q) /\ PTB!RestingIds = {Q[x[1]][x[2]][x[3]].id : x \in PlacesOf(Q)}
  BY PlacesAre
<1> HIDE DEF Q
<1>4. /\ Cardinality(PlacesOf(Q)) = Cardinality(LiveNodes(book.pool))
      /\ \A x \in PlacesOf(Q) : \E n \in LiveNodes(book.pool) :
           Q[x[1]][x[2]][x[3]] = book.pool.nodes[n].value
  BY <1>1, <1>2, PlacesAreSlots
<1>5. PTB!RestingIds \subseteq RestingIds
  BY <1>3, <1>4 DEF RestingIds
<1>6. /\ Exhausted(book.pool) => Cardinality(LiveNodes(book.pool)) >= Capacity
      /\ ~Exhausted(book.pool) => Cardinality(LiveNodes(book.pool)) < Capacity
  BY ExhaustedIsFull
<1> QED BY <1>3, <1>4, <1>5, <1>6

-----------------------------------------------------------------------------
(* What an order may trade with                                             *)

(* The prices of the queues Q at which o may trade.                         *)
TradableIn(Q, o) ==
  {p \in Prices : /\ Q[opposed(o.side)][p] # <<>>
                  /\ ~Better(opposed(o.side), o.price, p)}
FillableIn(Q, o) ==
  \E n \in 0 .. Cardinality(TradableIn(Q, o)) :
    \E at \in [1 .. n -> TradableIn(Q, o)] :
      /\ IsInjective(at)
      /\ PartialSums([k \in 1 .. n |-> Volume(Q[opposed(o.side)][at[k]])])[n] >= o.volume

(* The operators of PriceTimeBook are those of the modules it extends.      *)
DrainedBy(q, upto, gone, v) ==
  [k \in 1 .. Len(q) - gone |->
     [q[gone + k] EXCEPT !.volume = IF k = 1 /\ v > 0 THEN upto[gone + 1] - v ELSE @]]
GoneBy(q, upto, v) == {k \in DOMAIN q : upto[k] <= v}

LEMMA SameOperators ==
  /\ \A S : PTB!Cardinality(S) = Cardinality(S)
  /\ \A s : PTB!PartialSums(s) = PartialSums(s)
  /\ \A q : PTB!Volume(q) = Volume(q)
  /\ \A f : PTB!IsInjective(f) <=> IsInjective(f)
  /\ \A q, k : PTB!RemoveAt(q, k) = RemoveAt(q, k)
  /\ \A q, v : PTB!Drained(q, v) = Drained(q, v)
<1>1. \A S : PTB!Cardinality(S) = Cardinality(S)
  BY Zenon DEF PTB!Cardinality, Cardinality
<1>2. \A s : PTB!PartialSums(s) = PartialSums(s)
  BY Zenon DEF PTB!PartialSums, PartialSums
<1>3. \A q : PTB!Upto(q) = Upto(q)
  BY <1>2, Zenon DEF PTB!Upto, Upto
<1>4. \A q : PTB!Volume(q) = Volume(q)
  BY <1>3, Zenon DEF PTB!Volume, Volume
<1>5. \A f : PTB!IsInjective(f) <=> IsInjective(f)
  BY Zenon DEF PTB!IsInjective, IsInjective
<1>6. \A q, k : PTB!RemoveAt(q, k) = RemoveAt(q, k)
  BY Zenon DEF PTB!RemoveAt, RemoveAt
<1>7. ASSUME NEW q, NEW v PROVE PTB!Drained(q, v) = Drained(q, v)
  <2>1. PTB!Drained(q, v) =
          DrainedBy(q, PTB!Upto(q), PTB!Cardinality(GoneBy(q, PTB!Upto(q), v)), v)
    BY Zenon DEF PTB!Drained, DrainedBy, GoneBy
  <2>2. Drained(q, v) = DrainedBy(q, Upto(q), Cardinality(GoneBy(q, Upto(q), v)), v)
    BY Zenon DEF Drained, DrainedBy, GoneBy
  <2> QED BY <1>1, <1>3, <2>1, <2>2, Zenon
<1> QED BY <1>1, <1>2, <1>4, <1>5, <1>6, <1>7

(* So are the orders that may trade.                                        *)
LEMMA TradableIs ==
  ASSUME NEW o
  PROVE  /\ PTB!Tradable(o) = TradableIn(queueBar, o)
         /\ PTB!Fillable(o) <=> FillableIn(queueBar, o)
<1>1. PTB!Opposite(o.side) = opposed(o.side)
  BY DEF PTB!Opposite, opposed
<1>2. \A s, p, q : PTB!Better(s, p, q) <=> Better(s, p, q)
  BY DEF PTB!Better, Better
<1>3. PTB!Tradable(o) = TradableIn(queueBar, o)
  BY <1>1, <1>2, Zenon DEF PTB!Tradable, TradableIn
<1>4. PTB!Fillable(o) <=> FillableIn(queueBar, o)
  BY <1>1, <1>3, SameOperators, Zenon DEF PTB!Fillable, FillableIn
<1> QED BY <1>3, <1>4

(* The queue of a level that is exact holds what its aggregate says.        *)
LEMMA VolumeIsTotal ==
  ASSUME NEW b, BookOK(b), NEW ends, NEW place, Laid(b, ends, place),
         Totals(b.levels, ends, place),
         NEW side \in Sides, NEW it \in 1 .. Len(b.levels[side]),
         NEW price, price = b.levels[side][it].price
  PROVE  Volume(OrdersAt(b, side, price)) = b.levels[side][it].total_volume
<1> DEFINE lvl == b.levels[side][it]
           q == Contents(b, lvl)
           N == Len(b.pool.nodes)
           key == Key(b, side, it)
           s == VolumesOf(b, Fifo(b, lvl))
<1>1. Reads(N, b.pool.nodes, place, q, key)
  BY ContentsRead
<1>2. Reads(N, b.pool.nodes, place, OrdersAt(b, side, price), key)
  <2>1. price \in Prices /\ key = <<side, price>>
    BY LevelFields DEF Key
  <2> QED BY <2>1, OrdersRead
<1>3. OrdersAt(b, side, price) = q
  <2> HIDE DEF N, q, key
  <2> QED BY <1>1, <1>2, ReadsOnce
<1>4. [k \in DOMAIN q |-> q[k].volume] = s
  BY DEF Contents, VolumesOf
<1>5. q \in Seq(RestingOrder)
  BY <1>1 DEF Reads
<1>6. Len(s) = Len(q)
  <2>1. s = [k \in 1 .. Len(q) |-> q[k].volume] /\ Len(q) \in Nat
    BY <1>4, <1>5
  <2> HIDE DEF s, q
  <2> QED BY <2>1
<1>7. Volume(q) = SumSeq(s)
  <2>1. Upto(q) = PartialSums(s)
    BY <1>4 DEF Upto
  <2>2. PartialSums(s) = Sums(s)
    BY Zenon DEF PartialSums, Sums
  <2> QED BY <1>6, <2>1, <2>2 DEF Volume, SumSeq
<1>8. SumSeq(s) = TailSum(ends, place, key)
  BY FifoSums
<1>9. lvl.total_volume = TailSum(ends, place, key)
  BY DEF Totals, Key
<1> QED BY <1>3, <1>7, <1>8, <1>9

(* An order may trade at the prices of the levels it crosses.               *)
LEMMA TradableLevels ==
  ASSUME NEW b, BookOK(b), Occupied(b.levels), NEW ends, NEW place, Laid(b, ends, place),
         NEW Q, Queues(b, Q), NEW o \in Orders
  PROVE  \A p : p \in TradableIn(Q, o) <=>
           \E i \in 1 .. Len(b.levels[opposed(o.side)]) :
             /\ b.levels[opposed(o.side)][i].price = p
             /\ crosses(o.side, o.price, p)
<1> DEFINE side == opposed(o.side)
           levels == b.levels[side]
<1>1. o.side \in Sides /\ o.price \in Prices /\ side \in Sides
  BY BookAssumption DEF Sides, opposed
<1>2. \A p \in Prices : crosses(o.side, o.price, p) <=> ~Better(side, o.price, p)
  BY <1>1, BookAssumption, CrossingIsWithin
<1>3. ASSUME NEW i \in 1 .. Len(levels)
      PROVE  levels[i].price \in Prices /\ Q[side][levels[i].price] # <<>>
  <2>1. levels[i].head # 0
    BY <1>1 DEF Occupied, kNull, null_index
  <2>2. /\ levels[i].price \in Prices
        /\ levels[i].head = 0 <=> OrdersAt(b, side, levels[i].price) = <<>>
    <3> DEFINE q == OrdersAt(b, side, levels[i].price)
               price == levels[i].price
    <3>1. price = b.levels[side][i].price /\ q = OrdersAt(b, side, price)
      OBVIOUS
    <3> HIDE DEF q, price, side
    <3>2. price \in Prices /\ (b.levels[side][i].head = 0 <=> q = <<>>)
      BY <1>1, <3>1, HeadOrder DEF levels
    <3> QED BY <3>2 DEF q, price
  <2> QED BY <1>1, <2>1, <2>2 DEF Queues
<1>4. ASSUME NEW p \in Prices, Q[side][p] # <<>>
      PROVE  \E i \in 1 .. Len(levels) : levels[i].price = p
  <2>1. OrdersAt(b, side, p) # <<>>
    BY <1>1, <1>4 DEF Queues
  <2> HIDE DEF side
  <2> QED BY <1>1, <2>1, NoLevelNoOrders DEF levels
<1>5. \A p : p \in TradableIn(Q, o) <=>
        p \in Prices /\ Q[side][p] # <<>> /\ ~Better(side, o.price, p)
  BY DEF TradableIn
<1> HIDE DEF side, levels
<1> QED BY <1>2, <1>3, <1>4, <1>5 DEF side, levels

(* There are finitely many.                                                 *)
LEMMA TradableFinite ==
  ASSUME NEW b, BookOK(b), Occupied(b.levels), NEW ends, NEW place, Laid(b, ends, place),
         NEW Q, Queues(b, Q), NEW o \in Orders
  PROVE  IsFiniteSet(TradableIn(Q, o))
<1> DEFINE levels == b.levels[opposed(o.side)]
           T == TradableIn(Q, o)
           S == {i \in 1 .. Len(levels) : crosses(o.side, o.price, levels[i].price)}
           f == [i \in S |-> levels[i].price]
<1>1. \A p : p \in T <=> \E i \in 1 .. Len(levels) :
                           levels[i].price = p /\ crosses(o.side, o.price, p)
  BY TradableLevels
<1>2. Len(levels) \in Nat
  <2>1. opposed(o.side) \in Sides
    BY BookAssumption DEF Sides, opposed
  <2> QED BY <2>1, BookFields, LevelsFacts
<1>3. IsFiniteSet(S)
  <2>1. IsFiniteSet(1 .. Len(levels))
    <3> HIDE DEF levels
    <3> QED BY <1>2, FS_Interval
  <2> QED BY <2>1, FS_Subset
<1> HIDE DEF levels, T
<1>4. f \in Surjection(S, T)
  <2>1. f \in [S -> T]
    BY <1>1
  <2>2. \A t \in T : \E i \in S : f[i] = t
    BY <1>1
  <2> HIDE DEF f, S
  <2> QED BY <2>1, <2>2 DEF Surjection
<1> HIDE DEF f, S
<1> QED BY <1>3, <1>4, FS_Surjection DEF T

(* What can_fully_fill accepts, the resting orders can fill.                *)
LEMMA FillableLevels ==
  ASSUME NEW b, BookOK(b), Sorted(b.levels), Occupied(b.levels),
         NEW ends, NEW place, Laid(b, ends, place), Totals(b.levels, ends, place),
         NEW Q, Queues(b, Q), NEW o \in Orders,
         can_fully_fill(b.levels[opposed(o.side)], o.side, o.price, o.volume)
  PROVE  FillableIn(Q, o)
<1> DEFINE side == opposed(o.side)
           levels == b.levels[side]
           T == TradableIn(Q, o)
<1>1. side \in Sides
  BY BookAssumption DEF Sides, opposed
<1>2. PICK n \in 1 .. Len(levels) :
        /\ \A j \in 1 .. n : crosses(o.side, o.price, levels[j].price)
        /\ Available(levels)[n] >= o.volume
  BY DEF can_fully_fill
<1>3. /\ Len(levels) \in Nat
      /\ \A j \in 1 .. Len(levels) : levels[j].total_volume \in Int /\ levels[j].price \in Prices
  <2> HIDE DEF side
  <2>1. LevelsOK(b.levels, Len(b.pool.nodes))
    BY BookFields
  <2> QED BY <1>1, <2>1, LevelsFacts, LevelPrices
<1> DEFINE at == [j \in 1 .. n |-> levels[j].price]
           s == [j \in 1 .. n |-> Volume(Q[side][at[j]])]
<1>4. n \in Nat /\ 1 .. n \subseteq 1 .. Len(levels) /\ DOMAIN at = 1 .. n
  BY <1>3
<1>5. at \in [1 .. n -> T]
  <2>1. \A p : p \in T <=> \E i \in 1 .. Len(levels) :
                             levels[i].price = p /\ crosses(o.side, o.price, p)
    BY TradableLevels
  <2> HIDE DEF T, levels
  <2> QED BY <1>2, <1>4, <2>1
<1>6. IsInjective(at)
  <2>1. ASSUME NEW i \in 1 .. n, NEW j \in 1 .. n, at[i] = at[j] PROVE i = j
    <3>1. i \in 1 .. Len(levels) /\ j \in 1 .. Len(levels) /\ levels[i].price = levels[j].price
      BY <1>4, <2>1
    <3>2. LevelsOK(b.levels, Len(b.pool.nodes))
      BY BookFields
    <3> HIDE DEF side
    <3> QED BY <1>1, <3>1, <3>2, SortedPrices
  <2> HIDE DEF at
  <2> QED BY <1>4, <2>1 DEF IsInjective
<1>7. n \in 0 .. Cardinality(T)
  <2>1. IsFiniteSet(T)
    BY TradableFinite
  <2>2. at \in Injection(1 .. n, T)
    <3> HIDE DEF at, T
    <3> QED BY <1>4, <1>5, <1>6 DEF Injection, IsInjective
  <2> HIDE DEF at, T
  <2>3. Cardinality(1 .. n) <= Cardinality(T)
    BY <2>1, <2>2, FS_Injection
  <2>4. Cardinality(1 .. n) = n
    BY <1>4, FS_Interval
  <2>5. Cardinality(T) \in Nat
    BY <2>1, FS_CardinalityType
  <2> QED BY <1>4, <2>3, <2>4, <2>5
<1>8. \A j \in 1 .. n : s[j] = levels[j].total_volume
  <2> SUFFICES ASSUME NEW j \in 1 .. n
               PROVE  Volume(Q[side][levels[j].price]) = levels[j].total_volume
    OBVIOUS
  <2>1. j \in 1 .. Len(levels) /\ levels[j].price \in Prices
    BY <1>3, <1>4
  <2>2. Q[side][levels[j].price] = OrdersAt(b, side, levels[j].price)
    BY <1>1, <2>1 DEF Queues
  <2> HIDE DEF side
  <2> QED BY <1>1, <2>1, <2>2, VolumeIsTotal
<1>9. PartialSums(s)[n] = Available(levels)[n]
  <2>1. Len(s) = n
    BY <1>4
  <2> HIDE DEF s
  <2>2. /\ PartialSums(s)[0] = 0
        /\ \A k \in 1 .. n : PartialSums(s)[k] = PartialSums(s)[k - 1] + s[k]
    BY <1>4, <2>1, PartialSumsIs
  <2> DEFINE len == Len(levels)
             a == Available(levels)
  <2>3. a = [k \in 0 .. Len(levels) |->
               IF k = 0 THEN 0 ELSE Available(levels)[k - 1] + levels[k].total_volume]
    <3> HIDE DEF levels
    <3> QED BY <1>3, AvailableIs
  <2>4. a[0] = 0 /\ \A k \in 1 .. n : a[k] = a[k - 1] + levels[k].total_volume
    <3>1. a = [k \in 0 .. Len(levels) |-> IF k = 0 THEN 0 ELSE a[k - 1] + levels[k].total_volume]
      BY <2>3
    <3> HIDE DEF a, levels
    <3> QED BY <1>3, <1>4, <3>1
  <2> HIDE DEF a
  <2>5. \A k \in 1 .. n : s[k] \in Int
    BY <1>3, <1>4, <1>8
  <2>6. InStep(n, PartialSums(s), a, s, 0)
    <3> HIDE DEF levels
    <3> QED BY <1>8, <2>2, <2>4, <2>5 DEF InStep
  <2>7. Apart(n, PartialSums(s), a, 0)
    <3>1. 0 \in Int
      OBVIOUS
    <3> QED BY <1>4, <2>6, <3>1, SumsInStep
  <2> QED BY <1>4, <2>7 DEF Apart, a
<1>10. PartialSums(s)[n] >= o.volume
  BY <1>2, <1>9
<1> QED BY <1>5, <1>6, <1>7, <1>10 DEF FillableIn

-----------------------------------------------------------------------------
(* Every step of the engine is a step of the queues                         *)

(* What the mapping needs beyond SafeInv: a level that is being collapsed   *)
(* shares no node with another queue, and a match takes no more than the    *)
(* volume of its order.                                                     *)
BarInv ==
  /\ call.op = "collapse_level" => Collapsing(book, call.side, call.it, call.node)
  /\ call.op = "match" => call.volume >= 0

(* The functions that hold no level.                                        *)
Free(c) == c.op \notin {"delete_order", "clear_level", "collapse_level"}

(* Returning, stopping and matching hold none.                              *)
LEMMA FreeCalls ==
  ASSUME NEW c
  PROVE  /\ c = Idle => Free(c) /\ RequestOf(c) = PTB!Idle /\ c.op = "idle"
         /\ c = Aborted => Free(c) /\ RequestOf(c) = PTB!Aborted /\ c.op = "aborted"
         /\ c.op = "match" => Free(c) /\ RequestOf(c) = c
         /\ c.op \in {"delete_order", "clear_level", "collapse_level"} =>
              RequestOf(c) = PTB!Idle
<1>1. "idle" \notin {"match", "aborted", "delete_order", "clear_level", "collapse_level"}
  OBVIOUS
<1>2. PTB!Idle = Idle /\ PTB!Aborted = Aborted
  BY DEF PTB!Idle, Idle, PTB!Aborted, Aborted
<1> QED BY <1>1, <1>2, Records DEF Free, RequestOf

(* The queues over a step that starts and ends without holding a level.     *)
LEMMA FreeStep ==
  ASSUME Free(call), Free(call')
  PROVE  /\ SameQueues(book, book') => queueBar' = queueBar
         /\ \A side \in Sides, price \in Prices : \A q :
              Requeued(book, book', side, price, q) =>
                queueBar' = [queueBar EXCEPT ![side][price] = q]
         /\ \A side \in Sides, price \in Prices :
              queueBar[side][price] = OrdersAt(book, side, price)
<1>1. queueBar = QueuesOf(book, call) /\ queueBar' = QueuesOf(book', call')
  BY BarNow, BarNext
<1> DEFINE b == book  c == call  d == book'  e == call'
<1>2. /\ c.op \notin {"delete_order", "clear_level", "collapse_level"}
      /\ e.op \notin {"delete_order", "clear_level", "collapse_level"}
  BY DEF Free
<1> HIDE DEF b, c, d, e
<1>3. /\ SameQueues(b, d) => QueuesOf(d, e) = QueuesOf(b, c)
      /\ \A side \in Sides, price \in Prices : \A q :
           Requeued(b, d, side, price, q) =>
             QueuesOf(d, e) = Put(QueuesOf(b, c), side, price, q)
  BY <1>2, FreeToFree
<1>4. \A side \in Sides, price \in Prices :
        QueuesOf(b, c)[side][price] = OrdersAt(b, side, price)
  BY <1>2, QueuesAre, QueueOfFree
<1>5. \A side \in Sides, price \in Prices : \A q :
        Requeued(b, d, side, price, q) =>
          QueuesOf(d, e) = [QueuesOf(b, c) EXCEPT ![side][price] = q]
  BY <1>3 DEF Put
<1> QED BY <1>1, <1>3, <1>4, <1>5 DEF b, c, d, e

(* A step that changes neither the queues nor the order being matched.      *)
LEMMA Stutters ==
  ASSUME queueBar' = queueBar, RequestOf(call') = RequestOf(call)
  PROVE  [PTB!Next]_(PTB!vars)
<1>1. requestBar' = requestBar
  BY BarNow, BarNext
<1> QED BY <1>1 DEF PTB!vars

(* Nothing happens to a book that is unchanged.                             *)
LEMMA SameBook == ASSUME NEW b PROVE SameQueues(b, b)
BY DEF SameQueues

LEMMA BarInvFree ==
  ASSUME call' = Idle \/ call' = Aborted
  PROVE  BarInv'
BY Records DEF BarInv

(* Resting an order, or stopping for want of a slot.                        *)
LEMMA RestMaps ==
  ASSUME Inv, Good(book), Occupied(book.levels), Free(call),
         NEW id \in OrderIds, NEW side \in Sides, NEW price \in Prices,
         NEW volume \in Int, volume > 0, RestAndReturn(id, side, price, volume)
  PROVE  PTB!Rest(id, side, price, volume) /\ BarInv'
<1>1. BookOK(book) /\ Sorted(book.levels)
  BY InvFacts
<1>2. /\ Exhausted(book.pool) => Cardinality(PTB!Places) >= Capacity
      /\ ~Exhausted(book.pool) => Cardinality(PTB!Places) < Capacity
  BY <1>1, PlacesOfBook DEF Free
<1>3. PTB!Cardinality(PTB!Places) = Cardinality(PTB!Places)
  BY SameOperators
<1>4. requestBar' = RequestOf(call')
  BY BarNext
<1>5. CASE Exhausted(book.pool) /\ call' = Aborted /\ UNCHANGED book
  <2>1. queueBar' = queueBar /\ requestBar' = PTB!Aborted
    BY <1>4, <1>5, FreeCalls, FreeStep, SameBook
  <2>2. BarInv'
    BY <1>5, BarInvFree
  <2> QED BY <1>2, <1>3, <1>5, <2>1, <2>2 DEF PTB!Rest
<1>6. CASE /\ ~Exhausted(book.pool)
           /\ \E it \in find_level(book.levels[side], side, price) :
                book' = rest(book, it, id, side, price, volume)
           /\ call' = Idle
  <2>1. PICK it \in find_level(book.levels[side], side, price) :
          book' = rest(book, it, id, side, price, volume)
    BY <1>6
  <2>2. PICK ends, place : Laid(book, ends, place) /\ Totals(book.levels, ends, place)
    BY DEF Good, Holds
  <2> DEFINE c == rest(book, it, id, side, price, volume)
             q == Append(OrdersAt(book, side, price), [id |-> id, volume |-> volume])
  <2>3. BookOK(c)
    BY <1>1, <1>6, RestOK
  <2>4. Requeued(book, c, side, price, q)
    BY <1>1, <1>6, <2>2, <2>3, RestedOrders
  <2> HIDE DEF c
  <2>5. Free(call') /\ requestBar' = PTB!Idle
    BY <1>4, <1>6, FreeCalls
  <2>6. /\ queueBar' = [queueBar EXCEPT ![side][price] = q]
        /\ queueBar[side][price] = OrdersAt(book, side, price)
    BY <2>1, <2>4, <2>5, FreeStep DEF c
  <2>7. queueBar' = [queueBar EXCEPT ![side][price] =
                       Append(@, [id |-> id, volume |-> volume])]
    BY <2>6
  <2>8. BarInv'
    BY <1>6, BarInvFree
  <2> QED BY <1>2, <1>3, <1>6, <2>5, <2>7, <2>8 DEF PTB!Rest
<1> QED BY <1>5, <1>6 DEF RestAndReturn

(* A step of an abstract operation with its parameters.                     *)
LEMMA AbstractSteps ==
  ASSUME NEW side \in Sides, NEW price \in Prices, NEW volume \in Volumes
  PROVE  /\ "add_order" \in Ops /\ PTB!Add(side, price, volume) => [PTB!Next]_(PTB!vars)
         /\ "delete_order" \in Ops /\ PTB!Delete(side, price, volume) => [PTB!Next]_(PTB!vars)
         /\ "set_level" \in Ops /\ PTB!Set(side, price, volume) => [PTB!Next]_(PTB!vars)
<1>1. side \in PTB!Sides
  BY DEF PTB!Sides, Sides
<1> QED BY <1>1 DEF PTB!Next

(* add_order is one step.                                                   *)
LEMMA AddOrderMaps ==
  ASSUME SafeInv, "add_order" \in Ops,
         NEW side \in Sides, NEW price \in Prices, NEW volume \in Volumes,
         AddOrder(side, price, volume)
  PROVE  [PTB!Next]_(PTB!vars) /\ BarInv'
<1>1. call = Idle /\ Good(book) /\ Free(call) /\ requestBar = PTB!Idle
  BY IdleSafe, FreeCalls, BarNow DEF AddOrder
<1>2. Inv /\ Occupied(book.levels)
  BY <1>1, InvFacts DEF SafeInv
<1>3. CASE UNCHANGED vars
  <2>1. queueBar' = queueBar /\ RequestOf(call') = RequestOf(call) /\ BarInv'
    BY <1>1, <1>3, FreeStep, SameBook, BarInvFree DEF vars
  <2> QED BY <2>1, Stutters
<1>4. CASE volume > 0 /\ RestAndReturn(kAnonymous, side, price, volume)
  <2>1. kAnonymous \in OrderIds /\ volume \in Int
    BY BookAssumption
  <2>2. PTB!Rest(kAnonymous, side, price, volume) /\ BarInv'
    BY <1>1, <1>2, <1>4, <2>1, RestMaps
  <2>3. PTB!Add(side, price, volume)
    BY <1>1, <1>4, <2>2 DEF PTB!Add
  <2> QED BY <2>2, <2>3, AbstractSteps
<1> QED BY <1>3, <1>4 DEF AddOrder

(* place_order up to its loop accepts an order, or drops it.                *)
LEMMA PlaceOrderMaps ==
  ASSUME SafeInv, "place_order" \in Ops, NEW o \in Orders, PlaceOrder(o)
  PROVE  [PTB!Next]_(PTB!vars) /\ BarInv'
<1>1. call = Idle /\ Good(book) /\ Free(call) /\ requestBar = PTB!Idle /\ book' = book
  BY IdleSafe, FreeCalls, BarNow DEF PlaceOrder
<1>2. BookOK(book) /\ Sorted(book.levels) /\ Occupied(book.levels)
  BY <1>1, InvFacts DEF SafeInv
<1>3. CASE call' = Idle
  <2>1. queueBar' = queueBar /\ RequestOf(call') = RequestOf(call) /\ BarInv'
    BY <1>1, <1>3, FreeStep, SameBook, BarInvFree
  <2> QED BY <2>1, Stutters
<1>4. CASE /\ call' = [op |-> "match", order |-> o, volume |-> o.volume, trades |-> <<>>]
           /\ o.volume > 0
           /\ o.type = "FILL_OR_KILL" =>
                can_fully_fill(book.levels[opposed(o.side)], o.side, o.price, o.volume)
  <2>1. call'.op = "match" /\ call'.volume = o.volume
    BY <1>4
  <2>2. queueBar' = queueBar /\ requestBar' = call'
    BY <1>1, <2>1, FreeCalls, FreeStep, SameBook, BarNext
  <2>3. BarInv'
    <3>1. o.volume \in Int
      BY BookAssumption
    <3> QED BY <1>4, <2>1, <3>1 DEF BarInv
  <2>4. UniqueIds => o.id \notin PTB!RestingIds \ {kAnonymous}
    <3>1. PTB!RestingIds \subseteq RestingIds
      BY <1>1, <1>2, PlacesOfBook DEF Free
    <3>2. UniqueIds => o.id \notin RestingIds \ {kAnonymous}
      BY DEF PlaceOrder
    <3> QED BY <3>1, <3>2
  <2>5. o.type = "FILL_OR_KILL" => PTB!Fillable(o)
    <3> SUFFICES ASSUME can_fully_fill(book.levels[opposed(o.side)], o.side, o.price, o.volume)
                 PROVE  PTB!Fillable(o)
      BY <1>4
    <3>1. PICK ends, place : Laid(book, ends, place) /\ Totals(book.levels, ends, place)
      BY <1>1 DEF Good, Holds
    <3>2. PICK Q : Q = queueBar
      OBVIOUS
    <3>3. Queues(book, Q)
      BY <1>1, <2>1, <3>2, FreeStep, FreeCalls DEF Queues
    <3>4. FillableIn(Q, o)
      BY <1>2, <3>1, <3>3, FillableLevels
    <3> QED BY <3>2, <3>4, TradableIs
  <2>6. PTB!Place(o)
    BY <1>1, <1>4, <2>2, <2>4, <2>5 DEF PTB!Place
  <2>7. PTB!Next
    BY <2>6 DEF PTB!Next
  <2> QED BY <2>3, <2>7
<1> QED BY <1>3, <1>4 DEF PlaceOrder

(* cancel_order takes the order it finds out of its queue.                  *)
LEMMA CancelOrderMaps ==
  ASSUME SafeInv, "cancel_order" \in Ops, NEW id \in OrderIds, CancelOrder(id)
  PROVE  [PTB!Next]_(PTB!vars) /\ BarInv'
<1>1. call = Idle /\ Good(book) /\ Free(call) /\ requestBar = PTB!Idle
  BY IdleSafe, FreeCalls, BarNow DEF CancelOrder
<1>2. BookOK(book) /\ Sorted(book.levels)
  BY InvFacts DEF SafeInv
<1>3. CASE UNCHANGED vars
  <2>1. queueBar' = queueBar /\ RequestOf(call') = RequestOf(call) /\ BarInv'
    BY <1>1, <1>3, FreeStep, SameBook, BarInvFree DEF vars
  <2> QED BY <2>1, Stutters
<1>4. CASE id \in DOMAIN book.index
  <2>1. PICK side, price, node : /\ side = book.index[id].side /\ price = book.index[id].price
                                 /\ node = book.index[id].node
    OBVIOUS
  <2>2. PICK it \in find_level(book.levels[side], side, price) :
          IF Exists(book.levels[side], it, price)
            THEN book' = cancelled(book, it, id) /\ UNCHANGED call
            ELSE call' = Aborted /\ UNCHANGED book
    BY <1>4, <2>1 DEF CancelOrder
  <2>3. Exists(book.levels[side], it, price)
    BY <1>1, <1>2, <1>4, <2>1, GoodCancel
  <2>4. book' = cancelled(book, it, id) /\ call' = Idle
    BY <1>1, <2>2, <2>3
  <2>5. IsLocated(book, id, side, price, node)
    BY <2>1 DEF IsLocated
  <2>6. side \in Sides /\ price \in Prices
    BY <1>1, <1>2, <1>4, <2>5, CancelledOrders
  <2>7. PICK k \in DOMAIN OrdersAt(book, side, price) :
          /\ OrdersAt(book, side, price)[k].id = id
          /\ Requeued(book, cancelled(book, it, id), side, price,
                      RemoveAt(OrdersAt(book, side, price), k))
    BY <1>1, <1>2, <1>4, <2>5, CancelledOrders
  <2>8. Free(call') /\ requestBar' = PTB!Idle /\ BarInv'
    BY <2>4, FreeCalls, BarNext, BarInvFree
  <2> DEFINE q == OrdersAt(book, side, price)
             x == <<side, price, k>>
  <2>9. queueBar' = [queueBar EXCEPT ![side][price] = RemoveAt(q, k)]
        /\ queueBar[side][price] = q
    BY <1>1, <2>4, <2>6, <2>7, <2>8, FreeStep
  <2>10. x \in PTB!Places
    BY <2>6, <2>7, <2>9, InPlaces, PlacesAre
  <2>11. id # kAnonymous
    BY <1>2, <1>4, BookFields DEF IndexOK
  <2>12. /\ queueBar[x[1]][x[2]][x[3]].id = id
         /\ queueBar' = [queueBar EXCEPT ![x[1]][x[2]] = PTB!RemoveAt(@, x[3])]
    BY <2>7, <2>9, SameOperators
  <2> HIDE DEF x, q
  <2>13. PTB!Cancel(id)
    BY <1>1, <2>8, <2>10, <2>11, <2>12 DEF PTB!Cancel
  <2> QED BY <2>8, <2>13 DEF PTB!Next
<1> QED BY <1>3, <1>4 DEF CancelOrder

-----------------------------------------------------------------------------
(* Steps of the functions that hold a level                                 *)

(* The call c holds the level of price on side of the book b.               *)
Holds2(b, c, side, price) ==
  /\ c.op \in {"delete_order", "clear_level", "collapse_level"}
  /\ c.side = side /\ side \in Sides /\ price \in Prices
  /\ b.levels[side][c.it].price = price

(* The queues of a book whose level is held.                                *)
LEMMA QueueOfHeld ==
  ASSUME NEW b, NEW c, NEW side, NEW price, Holds2(b, c, side, price)
  PROVE  /\ QueueOf(b, c, side, price) = OutcomeOf(c, OrdersAt(b, side, price))
         /\ \A s \in Sides, p \in Prices :
              s # side \/ p # price => QueueOf(b, c, s, p) = OrdersAt(b, s, p)
BY DEF Holds2, QueueOf, Holding

(* q is what the function with locals e will leave of a queue of b.         *)
IsOutcome(q, b, e, side, price) == q = OutcomeOf(e, OrdersAt(b, side, price))

(* Entering a function sets one queue to what it will leave of it.          *)
LEMMA EnterQueues ==
  ASSUME NEW b, NEW c, NEW e, Free(c), NEW side \in Sides, NEW price \in Prices,
         Holds2(b, e, side, price), NEW q, IsOutcome(q, b, e, side, price)
  PROVE  /\ QueuesOf(b, e) = Put(QueuesOf(b, c), side, price, q)
         /\ QueuesOf(b, c)[side][price] = OrdersAt(b, side, price)
<1>2. \A s \in Sides, p \in Prices : QueueOf(b, c, s, p) = OrdersAt(b, s, p)
  BY QueueOfFree DEF Free
<1>3. Moves(b, c, b, e, side, price, q)
  BY <1>2, QueueOfHeld DEF Moves, IsOutcome
<1>4. QueuesOf(b, e) = Put(QueuesOf(b, c), side, price, q)
  BY <1>3, QueuesDiffer
<1>5. QueuesOf(b, c)[side][price] = OrdersAt(b, side, price)
  BY <1>2, QueuesAre
<1> QED BY <1>4, <1>5

LEMMA EnterStep ==
  ASSUME Free(call), NEW side, NEW price, Holds2(book, call', side, price), book' = book
  PROVE  /\ queueBar' = [queueBar EXCEPT ![side][price] =
                           OutcomeOf(call', OrdersAt(book, side, price))]
         /\ queueBar[side][price] = OrdersAt(book, side, price)
         /\ side \in Sides /\ price \in Prices
<1>1. queueBar = QueuesOf(book, call) /\ queueBar' = QueuesOf(book, call')
  BY BarNow, BarNext
<1> DEFINE b == book  c == call  e == call'
<1>2. PICK q : IsOutcome(q, b, e, side, price)
  BY DEF IsOutcome
<1>3. Free(c) /\ Holds2(b, e, side, price)
  OBVIOUS
<1> HIDE DEF b, c, e
<1>6. side \in Sides /\ price \in Prices
  BY <1>3 DEF Holds2
<1>4. /\ QueuesOf(b, e) = Put(QueuesOf(b, c), side, price, q)
      /\ QueuesOf(b, c)[side][price] = OrdersAt(b, side, price)
  BY <1>2, <1>3, <1>6, EnterQueues
<1>5. QueuesOf(b, e) = [QueuesOf(b, c) EXCEPT ![side][price] =
                          OutcomeOf(e, OrdersAt(b, side, price))]
  BY <1>2, <1>4 DEF IsOutcome, Put
<1> QED BY <1>1, <1>4, <1>5, <1>6 DEF b, c, e

(* A running function does not change what it will leave.                   *)
LEMMA HeldStep ==
  ASSUME NEW side, NEW price, Holds2(book, call, side, price), Holds2(book', call', side, price),
         OthersSame(book, book', side, price),
         OutcomeOf(call', OrdersAt(book', side, price))
           = OutcomeOf(call, OrdersAt(book, side, price))
  PROVE  [PTB!Next]_(PTB!vars)
<1>1. queueBar = QueuesOf(book, call) /\ queueBar' = QueuesOf(book', call')
  BY BarNow, BarNext
<1> DEFINE b == book  c == call  d == book'  e == call'
<1>2. Holds2(b, c, side, price) /\ Holds2(d, e, side, price) /\ OthersSame(b, d, side, price)
      /\ OutcomeOf(e, OrdersAt(d, side, price)) = OutcomeOf(c, OrdersAt(b, side, price))
  OBVIOUS
<1>3. RequestOf(e) = RequestOf(c)
  BY FreeCalls DEF Holds2
<1> HIDE DEF b, c, d, e
<1>4. \A s \in Sides, p \in Prices : QueueOf(d, e, s, p) = QueueOf(b, c, s, p)
  <2>1. \A s \in Sides, p \in Prices :
          s # side \/ p # price => QueueOf(d, e, s, p) = QueueOf(b, c, s, p)
    BY <1>2, QueueOfHeld DEF OthersSame
  <2>2. QueueOf(d, e, side, price) = QueueOf(b, c, side, price)
    BY <1>2, QueueOfHeld
  <2> QED BY <2>1, <2>2
<1>5. QueuesOf(d, e) = QueuesOf(b, c)
  BY <1>4, QueuesStay
<1> QED BY <1>1, <1>3, <1>5, Stutters DEF b, c, d, e

(* When it returns, what is left is what it promised.                       *)
LEMMA LeaveStep ==
  ASSUME NEW side, NEW price, Holds2(book, call, side, price), call' = Idle,
         OthersSame(book, book', side, price),
         OrdersAt(book', side, price) = OutcomeOf(call, OrdersAt(book, side, price))
  PROVE  [PTB!Next]_(PTB!vars) /\ BarInv'
<1>1. queueBar = QueuesOf(book, call) /\ queueBar' = QueuesOf(book', call')
  BY BarNow, BarNext
<1> DEFINE b == book  c == call  d == book'  e == call'
<1>2. Holds2(b, c, side, price) /\ OthersSame(b, d, side, price)
      /\ OrdersAt(d, side, price) = OutcomeOf(c, OrdersAt(b, side, price))
      /\ e.op \notin {"delete_order", "clear_level", "collapse_level"}
  BY FreeCalls DEF Free
<1>3. RequestOf(e) = RequestOf(c)
  BY FreeCalls DEF Holds2
<1> HIDE DEF b, c, d, e
<1>4. \A s \in Sides, p \in Prices : QueueOf(d, e, s, p) = QueueOf(b, c, s, p)
  <2>0. \A s \in Sides, p \in Prices : QueueOf(d, e, s, p) = OrdersAt(d, s, p)
    BY <1>2, QueueOfFree
  <2>1. \A s \in Sides, p \in Prices :
          s # side \/ p # price => QueueOf(d, e, s, p) = QueueOf(b, c, s, p)
    BY <1>2, <2>0, QueueOfHeld DEF OthersSame
  <2>2. side \in Sides /\ price \in Prices
    BY <1>2 DEF Holds2
  <2>3. QueueOf(d, e, side, price) = QueueOf(b, c, side, price)
    BY <1>2, <2>0, <2>2, QueueOfHeld
  <2> QED BY <2>1, <2>3
<1>5. QueuesOf(d, e) = QueuesOf(b, c)
  BY <1>4, QueuesStay
<1> QED BY <1>1, <1>3, <1>5, Stutters, BarInvFree DEF b, c, d, e

(* Entering delete_order drains the queue.                                  *)
LEMMA DeleteOrderMaps ==
  ASSUME SafeInv, "delete_order" \in Ops,
         NEW side \in Sides, NEW price \in Prices, NEW volume \in Volumes,
         DeleteOrder(side, price, volume)
  PROVE  [PTB!Next]_(PTB!vars) /\ BarInv'
<1>1. call = Idle /\ Free(call) /\ requestBar = PTB!Idle /\ book' = book
  BY FreeCalls, BarNow DEF DeleteOrder
<1>2. PICK it \in find_level(book.levels[side], side, price) :
        call' = IF Exists(book.levels[side], it, price)
                  THEN [op |-> "delete_order", side |-> side, it |-> it, volume |-> volume]
                  ELSE Idle
  BY DEF DeleteOrder
<1>3. CASE call' = Idle
  <2>1. queueBar' = queueBar /\ RequestOf(call') = RequestOf(call) /\ BarInv'
    BY <1>1, <1>3, FreeCalls, FreeStep, SameBook, BarInvFree
  <2> QED BY <2>1, Stutters
<1>4. CASE /\ Exists(book.levels[side], it, price)
           /\ call' = [op |-> "delete_order", side |-> side, it |-> it, volume |-> volume]
  <2>1. call'.op = "delete_order" /\ call'.side = side /\ call'.it = it /\ call'.volume = volume
    BY <1>4
  <2>2. Holds2(book, call', side, price)
    BY <1>4, <2>1 DEF Holds2, Exists
  <2>3. OutcomeOf(call', OrdersAt(book, side, price))
          = Drained(OrdersAt(book, side, price), volume)
    BY <2>1 DEF OutcomeOf
  <2>4. queueBar' = [queueBar EXCEPT ![side][price] = PTB!Drained(@, volume)]
    BY <1>1, <2>2, <2>3, EnterStep, SameOperators
  <2>5. requestBar' = PTB!Idle
    BY <2>1, BarNext, FreeCalls
  <2>6. PTB!Delete(side, price, volume)
    BY <1>1, <2>4, <2>5 DEF PTB!Delete
  <2>7. BarInv'
    BY <2>1 DEF BarInv
  <2> QED BY <2>6, <2>7, AbstractSteps
<1> QED BY <1>2, <1>3, <1>4

(* A sound book has a layout.                                               *)
LEMMA HasLayout ==
  ASSUME NEW b, NEW side, NEW it, Good(b) \/ GoodBut(b, side, it)
  PROVE  \E ends, place : Laid(b, ends, place)
BY DEF Good, GoodBut, Holds

(* An update of a level keeps its price.                                    *)
LEMMA UpdatePrice ==
  ASSUME NEW b, NEW side \in Sides, NEW it \in 1 .. Len(b.levels[side]), NEW c, NEW head,
         UpdateOK(b, side, it, c, head)
  PROVE  c.levels[side][it].price = b.levels[side][it].price
BY DEF UpdateOK, SamePrices

(* An iteration of delete_order leaves less to drain of a queue that was    *)
(* drained by as much.                                                      *)
LEMMA DeleteStepMaps ==
  ASSUME SafeInv, BarInv, DeleteStep
  PROVE  [PTB!Next]_(PTB!vars) /\ BarInv'
<1>1. call.op = "delete_order" /\ call.volume > 0
  BY DEF DeleteStep
<1>2. /\ BookOK(book) /\ Sorted(book.levels) /\ Good(book)
      /\ call \in [op : {"delete_order"}, side : Sides, it : Nat, volume : Int]
      /\ call.side \in Sides /\ call.it \in 1 .. Len(book.levels[call.side])
  BY <1>1, InvFacts DEF SafeInv, ListInv
<1> DEFINE side == call.side
           it == call.it
           v == call.volume
           h == book.levels[side][it].head
           vol == book.pool.nodes[h].value.volume
           amount == Lesser(v, vol)
           b1 == take(book, side, it, amount)
           price == book.levels[side][it].price
           q == OrdersAt(book, side, price)
<1>3. /\ h # kNull /\ book' = b1
      /\ call'.op = "delete_order" /\ call'.side = side /\ call'.it = it
      /\ call'.volume = v - amount
  BY <1>2 DEF DeleteStep, CalledLevel
<1>4. IsHead(book, side, it, h) /\ v \in Int /\ v > 0
  BY <1>1, <1>2 DEF IsHead
<1> HIDE DEF side, it, v
<1>5. side \in Sides /\ it \in 1 .. Len(book.levels[side])
  BY <1>2 DEF side, it
<1>6. PICK ends, place : Laid(book, ends, place)
  BY <1>2, HasLayout
<1> HIDE DEF h
<1>7. vol \in Int /\ vol > 0
  BY <1>2, <1>3, <1>4, <1>5, <1>6, HeadPlace
<1>8. amount \in Int /\ 0 < amount /\ amount <= vol
  <2> HIDE DEF vol
  <2> QED BY <1>4, <1>7 DEF Lesser
<1> HIDE DEF price, q
<1>9. price = book.levels[side][it].price /\ q = OrdersAt(book, side, price)
  BY DEF price, q
<1>10. price \in Prices /\ Queue(q)
       /\ q # <<>> /\ q[1] = book.pool.nodes[h].value
  BY <1>2, <1>3, <1>4, <1>5, <1>6, <1>9, HeadOrder
<1>11. amount = Lesser(v, q[1].volume)
  BY <1>10
<1> HIDE DEF amount
<1>12. Good(b1) /\ Requeued(book, b1, side, price, Drained(OrdersAt(book, side, price), amount))
  BY <1>2, <1>3, <1>4, <1>5, <1>6, <1>8, <1>9, GoodTake, TakenOrders
<1>13. PICK head : UpdateOK(book, side, it, b1, head)
  BY <1>2, <1>3, <1>4, <1>5, <1>8, TakeOK DEF IsHead
<1> HIDE DEF b1
<1>14. BookOK(b1) /\ it \in 1 .. Len(b1.levels[side]) /\ b1.levels[side][it].price = price
  BY <1>2, <1>5, <1>9, <1>13, UpdateKeeps, UpdatePrice
<1>15. OrdersAt(b1, side, price) = Drained(q, amount) /\ OthersSame(book, b1, side, price)
  BY <1>5, <1>9, <1>10, <1>12 DEF Requeued, OthersSame
<1>16. Queue(Drained(q, amount))
  <2>1. PICK e2, p2 : Laid(b1, e2, p2)
    BY <1>12, HasLayout
  <2>2. Queue(OrdersAt(b1, side, price))
    BY <1>5, <1>10, <1>14, <2>1, OrdersQueue
  <2> QED BY <1>15, <2>2
<1>17. Drained(Drained(q, amount), v - amount) = Drained(q, v)
  BY <1>4, <1>10, <1>11, <1>16, DrainedTwice
<1>18. Holds2(book, call, side, price) /\ Holds2(book', call', side, price)
  <2>1. Holds2(book, call, side, price)
    BY <1>1, <1>5, <1>9, <1>10 DEF Holds2, side, it
  <2>2. Holds2(book', call', side, price)
    BY <1>3, <1>5, <1>10, <1>14 DEF Holds2
  <2> QED BY <2>1, <2>2
<1>19. /\ OutcomeOf(call, OrdersAt(book, side, price)) = Drained(q, v)
       /\ OutcomeOf(call', OrdersAt(book', side, price)) = Drained(Drained(q, amount), v - amount)
  <2>1. OutcomeOf(call, OrdersAt(book, side, price)) = Drained(q, v)
    BY <1>1, <1>9 DEF OutcomeOf, v
  <2>2. OutcomeOf(call', OrdersAt(b1, side, price)) = Drained(Drained(q, amount), v - amount)
    BY <1>3, <1>15 DEF OutcomeOf
  <2> QED BY <1>3, <2>1, <2>2
<1>20. [PTB!Next]_(PTB!vars)
  <2>1. OthersSame(book, book', side, price)
    BY <1>3, <1>15
  <2>2. OutcomeOf(call', OrdersAt(book', side, price))
          = OutcomeOf(call, OrdersAt(book, side, price))
    BY <1>17, <1>19
  <2> HIDE DEF h
  <2> QED BY <1>18, <2>1, <2>2, HeldStep
<1>21. BarInv'
  BY <1>3 DEF BarInv
<1> QED BY <1>20, <1>21

(* When the loop ends, nothing is left to drain.                            *)
LEMMA DrainReturnMaps ==
  ASSUME SafeInv, DeleteReturn \/ ClearReturn
  PROVE  [PTB!Next]_(PTB!vars) /\ BarInv'
<1>1. /\ call.op \in {"delete_order", "clear_level"}
      /\ book' = erase_if_empty(book, call.side, call.it) /\ call' = Idle
      /\ call.op = "clear_level" => CalledLevel.head = kNull
      /\ call.op = "delete_order" => call.volume <= 0 \/ CalledLevel.head = kNull
  BY DEF DeleteReturn, ClearReturn
<1>2. /\ BookOK(book) /\ call.side \in Sides /\ call.it \in 1 .. Len(book.levels[call.side])
      /\ call.op = "delete_order" => call.volume \in Int
      /\ Good(book) \/ GoodBut(book, call.side, call.it)
  BY <1>1, InvFacts DEF SafeInv, ListInv
<1> DEFINE side == call.side
           it == call.it
           price == book.levels[side][it].price
           q == OrdersAt(book, side, price)
           b1 == erase_if_empty(book, side, it)
<1>3. PICK ends, place : Laid(book, ends, place)
  BY <1>2, HasLayout
<1>4. book' = b1 /\ CalledLevel = book.levels[side][it]
  BY <1>1 DEF CalledLevel
<1> HIDE DEF side, it
<1>5. side \in Sides /\ it \in 1 .. Len(book.levels[side])
  BY <1>2 DEF side, it
<1>6. SameQueues(book, b1)
  BY <1>2, <1>3, <1>5, ErasedOrders
<1> HIDE DEF price, q, b1
<1>7. price = book.levels[side][it].price /\ q = OrdersAt(book, side, price)
  BY DEF price, q
<1>8. /\ price \in Prices /\ Queue(q)
      /\ book.levels[side][it].head = 0 <=> q = <<>>
  BY <1>2, <1>3, <1>5, <1>7, HeadOrder
<1>9. Holds2(book, call, side, price)
  BY <1>1, <1>5, <1>7, <1>8 DEF Holds2, side, it
<1>10. OutcomeOf(call, OrdersAt(book, side, price)) = q
  <2>1. CASE call.op = "delete_order"
    <3>1. call.volume \in Int /\ (call.volume <= 0 \/ q = <<>>)
      BY <1>1, <1>2, <1>4, <1>8, <2>1 DEF kNull, null_index
    <3>2. Drained(q, call.volume) = q
      BY <1>8, <3>1, DrainedNone
    <3> QED BY <1>7, <2>1, <3>2 DEF OutcomeOf
  <2>2. CASE call.op = "clear_level"
    <3>1. q = <<>>
      BY <1>1, <1>4, <1>8, <2>2 DEF kNull, null_index
    <3> QED BY <1>7, <2>2, <3>1 DEF OutcomeOf
  <2> QED BY <1>1, <2>1, <2>2
<1>11. OthersSame(book, book', side, price) /\ OrdersAt(book', side, price) = q
  <2>1. OthersSame(book, b1, side, price) /\ OrdersAt(b1, side, price) = q
    BY <1>5, <1>6, <1>7, <1>8 DEF SameQueues, OthersSame
  <2> QED BY <1>4, <2>1
<1> QED BY <1>1, <1>9, <1>10, <1>11, LeaveStep

(* set_level pops orders of a queue that was already empty.                 *)
LEMMA ClearStepMaps ==
  ASSUME SafeInv, ClearStep
  PROVE  [PTB!Next]_(PTB!vars) /\ BarInv'
<1>1. /\ call.op = "clear_level" /\ CalledLevel.head # kNull
      /\ book' = pop_front(book, call.side, call.it) /\ call' = call
  BY DEF ClearStep
<1>2. /\ BookOK(book) /\ Sorted(book.levels)
      /\ call.side \in Sides /\ call.it \in 1 .. Len(book.levels[call.side])
      /\ GoodBut(book, call.side, call.it)
  BY <1>1, InvFacts DEF SafeInv, ListInv
<1> DEFINE side == call.side
           it == call.it
           h == book.levels[side][it].head
           price == book.levels[side][it].price
           b1 == pop_front(book, side, it)
<1>3. IsHead(book, side, it, h) /\ h # kNull /\ book' = b1
  BY <1>1 DEF IsHead, CalledLevel
<1>4. PICK ends, place : Laid(book, ends, place)
  BY <1>2, HasLayout
<1> HIDE DEF side, it
<1>5. side \in Sides /\ it \in 1 .. Len(book.levels[side])
  BY <1>2 DEF side, it
<1>6. PICK head : UpdateOK(book, side, it, b1, head)
  BY <1>2, <1>3, <1>5, PopFrontOK
<1>7. BookOK(b1) /\ b1.levels[side][it].price = price
  <2> HIDE DEF b1
  <2> QED BY <1>2, <1>5, <1>6, UpdateKeeps, UpdatePrice
<1> HIDE DEF h, price
<1>8. price = book.levels[side][it].price
  BY DEF price
<1>9. Requeued(book, b1, side, price, Tail(OrdersAt(book, side, price)))
  BY <1>2, <1>3, <1>4, <1>5, <1>7, <1>8, PoppedOrders
<1>10. price \in Prices
  BY <1>2, <1>4, <1>5, <1>8, HeadOrder
<1> HIDE DEF b1
<1>11. OthersSame(book, book', side, price)
  BY <1>3, <1>9 DEF Requeued, OthersSame
<1>12. Holds2(book, call, side, price) /\ Holds2(book', call', side, price)
  BY <1>1, <1>3, <1>5, <1>7, <1>8, <1>10 DEF Holds2, side, it
<1>13. OutcomeOf(call', OrdersAt(book', side, price))
         = OutcomeOf(call, OrdersAt(book, side, price))
  BY <1>1 DEF OutcomeOf
<1>14. BarInv'
  BY <1>1 DEF BarInv
<1> QED BY <1>11, <1>12, <1>13, <1>14, HeldStep

(* set_level frees a node that no queue it will leave has.                  *)
LEMMA CollapseStepMaps ==
  ASSUME SafeInv, BarInv, CollapseStep
  PROVE  [PTB!Next]_(PTB!vars) /\ BarInv'
<1> DEFINE side == call.side
           it == call.it
           node == call.node
           h == book.levels[side][it].head
           a == [pool |-> deallocate(book.pool, node), levels |-> book.levels,
                 index |-> book.index]
           next == book.pool.nodes[node].next
           price == book.levels[side][it].price
           q == OrdersAt(book, side, price)
<1>1. call.op = "collapse_level" /\ node # kNull /\ book' = a
  BY DEF CollapseStep
<1>2. /\ BookOK(book) /\ Sorted(book.levels) /\ Occupied(book.levels)
      /\ side \in Sides /\ it \in 1 .. Len(book.levels[side])
      /\ call \in [op : {"collapse_level"}, side : Sides, it : Nat, volume : Int,
                   node : Index(book)]
      /\ GoodBut(Repaired(book, side, it, node), side, it)
      /\ DOMAIN book.index = {}
  BY <1>1, InvFacts DEF SafeInv, ListInv, CallersInv
<1>3. node \in 1 .. Len(book.pool.nodes)
  BY <1>1, <1>2, BookFields DEF Index, kNull, null_index
<1>4. IsHead(book, side, it, h) /\ h # kNull
  BY <1>2 DEF IsHead, Occupied
<1>5. /\ call'.op = "collapse_level" /\ call'.side = side /\ call'.it = it
      /\ call'.volume = call.volume /\ call'.node = next
  BY <1>2 DEF CollapseStep
<1>6. Collapsing(book, side, it, node)
  BY <1>1 DEF BarInv
<1>7. a.levels = book.levels
  OBVIOUS
<1>8. /\ Collapsing(a, side, it, next)
      /\ \A s, p : OrdersAt(a, s, p) = OrdersAt(book, s, p)
  <2>1. a = [pool |-> deallocate(book.pool, node), levels |-> book.levels, index |-> book.index]
        /\ next = book.pool.nodes[node].next
    OBVIOUS
  <2> HIDE DEF side, it, node, h, a, next
  <2> QED BY <1>1, <1>2, <1>3, <1>4, <1>6, <2>1, CollapsingContinues
<1>9. BarInv'
  <2> HIDE DEF a, next, side, it, node
  <2> QED BY <1>1, <1>5, <1>8 DEF BarInv
<1>10. price \in Prices
  <2>1. LevelsOK(book.levels, Len(book.pool.nodes))
    BY <1>2, BookFields
  <2> HIDE DEF side, it
  <2>2. book.levels[side] \in Seq(LevelType(Len(book.pool.nodes)))
    BY <1>2, <2>1, LevelsFacts
  <2>3. book.levels[side][it] \in LevelType(Len(book.pool.nodes))
    BY <1>2, <2>2
  <2> QED BY <2>3 DEF LevelType
<1>11. Holds2(book, call, side, price) /\ Holds2(a, call', side, price)
  <2>1. Holds2(book, call, side, price)
    BY <1>1, <1>2, <1>10 DEF Holds2
  <2>2. Holds2(a, call', side, price)
    <3> HIDE DEF side, it, a
    <3> QED BY <1>2, <1>5, <1>7, <1>10 DEF Holds2
  <2> QED BY <2>1, <2>2
<1>12. OthersSame(book, a, side, price) /\ OrdersAt(a, side, price) = OrdersAt(book, side, price)
  <2> HIDE DEF side, price, a
  <2> QED BY <1>8 DEF OthersSame
<1>13. OutcomeOf(call', OrdersAt(a, side, price)) = OutcomeOf(call, OrdersAt(book, side, price))
  <2> HIDE DEF side, price, a
  <2> QED BY <1>1, <1>5, <1>12 DEF OutcomeOf
<1> HIDE DEF side, it, node, h, a, next, price, q
<1>14. /\ Holds2(book', call', side, price) /\ OthersSame(book, book', side, price)
       /\ OutcomeOf(call', OrdersAt(book', side, price))
            = OutcomeOf(call, OrdersAt(book, side, price))
  BY <1>1, <1>11, <1>12, <1>13
<1>15. [PTB!Next]_(PTB!vars)
  BY <1>11, <1>14, HeldStep
<1> QED BY <1>9, <1>15

(* At last set_level leaves the order it promised.                          *)
LEMMA CollapseReturnMaps ==
  ASSUME SafeInv, BarInv, CollapseReturn
  PROVE  [PTB!Next]_(PTB!vars) /\ BarInv'
<1> DEFINE side == call.side
           it == call.it
           h == book.levels[side][it].head
           v == call.volume
           price == book.levels[side][it].price
           b1 == Collapsed(book, side, it, h, v)
<1>1. call.op = "collapse_level" /\ call.node = 0 /\ call' = Idle
  BY DEF CollapseReturn, kNull, null_index
<1>2. /\ BookOK(book) /\ Sorted(book.levels) /\ Occupied(book.levels)
      /\ side \in Sides /\ it \in 1 .. Len(book.levels[side])
      /\ call \in [op : {"collapse_level"}, side : Sides, it : Nat, volume : Int,
                   node : Index(book)]
      /\ GoodBut(Repaired(book, side, it, 0), side, it)
      /\ v > 0
  BY <1>1, InvFacts DEF SafeInv, ListInv, CallersInv
<1>3. IsHead(book, side, it, h) /\ h # kNull /\ v \in Int
  BY <1>2 DEF IsHead, Occupied
<1>4. book' = b1
  BY DEF CollapseReturn, Collapsed, Updated, CalledLevel, kNull, null_index
<1>5. Collapsing(book, side, it, 0)
  BY <1>1 DEF BarInv
<1>6. price \in Prices
  <2>1. LevelsOK(book.levels, Len(book.pool.nodes))
    BY <1>2, BookFields
  <2> HIDE DEF side, it
  <2>2. book.levels[side] \in Seq(LevelType(Len(book.pool.nodes)))
    BY <1>2, <2>1, LevelsFacts
  <2>3. book.levels[side][it] \in LevelType(Len(book.pool.nodes))
    BY <1>2, <2>2
  <2> QED BY <2>3 DEF LevelType
<1>7. Holds2(book, call, side, price)
  BY <1>1, <1>2, <1>6 DEF Holds2
<1>8. OutcomeOf(call, OrdersAt(book, side, price))
        = <<[OrdersAt(book, side, price)[1] EXCEPT !.volume = v]>>
  <2> HIDE DEF side, price
  <2> QED BY <1>1 DEF OutcomeOf
<1> HIDE DEF side, it, h, v, price
<1>9. price = book.levels[side][it].price
  BY DEF price
<1>10. Requeued(book, b1, side, price, <<[OrdersAt(book, side, price)[1] EXCEPT !.volume = v]>>)
  BY <1>2, <1>3, <1>5, <1>9, CollapsingEnds
<1> HIDE DEF b1
<1>11. OthersSame(book, b1, side, price)
       /\ OrdersAt(b1, side, price) = OutcomeOf(call, OrdersAt(book, side, price))
  BY <1>2, <1>6, <1>8, <1>10 DEF Requeued, OthersSame
<1>12. OthersSame(book, book', side, price)
       /\ OrdersAt(book', side, price) = OutcomeOf(call, OrdersAt(book, side, price))
  BY <1>4, <1>11
<1> QED BY <1>1, <1>7, <1>12, LeaveStep

(* Entering set_level sets the queue, or rests an order at a new price.     *)
LEMMA SetLevelMaps ==
  ASSUME SafeInv, "set_level" \in Ops,
         NEW side \in Sides, NEW price \in Prices, NEW volume \in Volumes,
         SetLevel(side, price, volume)
  PROVE  [PTB!Next]_(PTB!vars) /\ BarInv'
<1>1. /\ Good(book) /\ call = Idle /\ Free(call)
      /\ requestBar = PTB!Idle /\ RequestOf(call) = PTB!Idle
  BY IdleSafe, FreeCalls, BarNow DEF SetLevel
<1>2. Inv /\ BookOK(book) /\ Sorted(book.levels) /\ Occupied(book.levels)
      /\ LevelsOK(book.levels, Len(book.pool.nodes)) /\ Len(book.levels[side]) \in Nat
      /\ volume \in Int
  BY <1>1, InvFacts, BookFields, LevelsFacts, BookAssumption DEF SafeInv
<1>3. PICK it \in find_level(book.levels[side], side, price) :
        LET exists == Exists(book.levels[side], it, price)
        IN  \/ /\ volume <= 0
               /\ call' = IF exists THEN [op |-> "clear_level", side |-> side, it |-> it]
                                    ELSE Idle
               /\ UNCHANGED book
            \/ /\ volume > 0
               /\ ~exists
               /\ RestAndReturn(kAnonymous, side, price, volume)
            \/ /\ volume > 0
               /\ exists
               /\ LET head == book.levels[side][it].head
                  IN  call' = [op |-> "collapse_level", side |-> side, it |-> it,
                               volume |-> volume,
                               node |-> book.pool.nodes[head].next]
               /\ UNCHANGED book
  BY DEF SetLevel
<1> DEFINE exists == Exists(book.levels[side], it, price)
<1>4. PICK q : q = OrdersAt(book, side, price)
  OBVIOUS
<1>5. exists => it \in 1 .. Len(book.levels[side]) /\ book.levels[side][it].price = price
  BY <1>2 DEF Exists, find_level
<1>6. PICK ends, place : Laid(book, ends, place)
  BY <1>1, HasLayout
<1>7. CASE UNCHANGED book /\ call' = Idle
  <2>1. queueBar' = queueBar /\ RequestOf(call') = RequestOf(call) /\ BarInv'
    BY <1>1, <1>7, FreeCalls, FreeStep, SameBook, BarInvFree
  <2> QED BY <2>1, Stutters
<1>8. CASE /\ volume <= 0 /\ exists /\ UNCHANGED book
           /\ call' = [op |-> "clear_level", side |-> side, it |-> it]
  <2>1. call'.op = "clear_level" /\ call'.side = side /\ call'.it = it
    BY <1>8
  <2>2. Holds2(book, call', side, price)
    BY <1>5, <1>8, <2>1 DEF Holds2
  <2>3. OutcomeOf(call', OrdersAt(book, side, price)) = <<>>
    BY <2>1 DEF OutcomeOf
  <2>4. queueBar' = [queueBar EXCEPT ![side][price] = <<>>]
    BY <1>1, <1>8, <2>2, <2>3, EnterStep
  <2>5. requestBar' = PTB!Idle
    BY <2>1, BarNext, FreeCalls
  <2>6. PTB!Set(side, price, volume)
    <3>1. ~(volume > 0)
      BY <1>2, <1>8
    <3> QED BY <1>1, <2>4, <2>5, <3>1 DEF PTB!Set
  <2>7. BarInv'
    BY <2>1 DEF BarInv
  <2> QED BY <2>6, <2>7, AbstractSteps
<1>9. CASE volume > 0 /\ ~exists /\ RestAndReturn(kAnonymous, side, price, volume)
  <2>1. \A i \in 1 .. Len(book.levels[side]) : book.levels[side][i].price # price
    <3> SUFFICES ASSUME NEW i \in 1 .. Len(book.levels[side]), book.levels[side][i].price = price
                 PROVE  FALSE
      OBVIOUS
    <3>1. it \in 1 .. Len(book.levels[side]) /\ book.levels[side][it].price = price
      BY <1>2, FindLevelFinds
    <3> QED BY <1>2, <1>9, <3>1 DEF Exists
  <2>2. OrdersAt(book, side, price) = <<>>
    BY <1>2, <2>1, NoLevelNoOrders
  <2>3. queueBar[side][price] = <<>>
    BY <2>2, <1>1, BarNow, QueuesAre, QueueOfFree DEF Free
  <2>4. PTB!Rest(kAnonymous, side, price, volume) /\ BarInv'
    BY <1>1, <1>2, <1>9, RestMaps, BookAssumption
  <2>5. PTB!Set(side, price, volume)
    BY <1>1, <1>9, <2>3, <2>4 DEF PTB!Set
  <2> QED BY <2>4, <2>5, AbstractSteps
<1>10. CASE /\ volume > 0 /\ exists /\ UNCHANGED book
            /\ call' = [op |-> "collapse_level", side |-> side, it |-> it, volume |-> volume,
                        node |-> book.pool.nodes[book.levels[side][it].head].next]
  <2> DEFINE h == book.levels[side][it].head
             node == book.pool.nodes[h].next
  <2>1. /\ call'.op = "collapse_level" /\ call'.side = side /\ call'.it = it
        /\ call'.volume = volume /\ call'.node = node /\ book' = book
    BY <1>10
  <2>2. it \in 1 .. Len(book.levels[side]) /\ price = book.levels[side][it].price
    BY <1>5, <1>10
  <2>3. IsHead(book, side, it, h) /\ h # kNull /\ node = book.pool.nodes[h].next
    BY <1>2, <2>2 DEF IsHead, Occupied
  <2> HIDE DEF h, node, exists
  <2>4. Collapsing(book, side, it, node)
    BY <1>1, <1>2, <2>2, <2>3, CollapsingStarts
  <2>5. BarInv'
    BY <2>1, <2>4 DEF BarInv
  <2>6. Holds2(book, call', side, price)
    BY <2>1, <2>2 DEF Holds2
  <2>7. q # <<>> /\ Head(q) = q[1]
    BY <1>2, <1>4, <1>6, <2>2, <2>3, HeadOrder
  <2>8. OutcomeOf(call', OrdersAt(book, side, price)) = <<[Head(q) EXCEPT !.volume = volume]>>
    BY <1>4, <2>1, <2>7 DEF OutcomeOf
  <2>9. /\ queueBar' = [queueBar EXCEPT ![side][price] = <<[Head(q) EXCEPT !.volume = volume]>>]
        /\ queueBar[side][price] = q
    BY <1>1, <1>4, <2>1, <2>6, <2>8, EnterStep
  <2>10. requestBar' = PTB!Idle
    BY <2>1, BarNext, FreeCalls
  <2>11. PTB!Set(side, price, volume)
    BY <1>1, <1>10, <2>7, <2>9, <2>10 DEF PTB!Set
  <2> QED BY <2>5, <2>11, AbstractSteps
<1> QED BY <1>3, <1>7, <1>8, <1>9, <1>10

-----------------------------------------------------------------------------
(* Matching                                                                 *)

(* Outside the functions that hold a level, the queues are those of the     *)
(* book.                                                                    *)
LEMMA FreeQueues ==
  ASSUME NEW b, NEW c, Free(c)
  PROVE  Queues(b, QueuesOf(b, c))
BY QueuesAre, QueueOfFree DEF Free, Queues

(* The state while an order is matched.                                     *)
LEMMA MatchFacts ==
  ASSUME SafeInv, call.op = "match"
  PROVE  /\ BookOK(book) /\ Sorted(book.levels) /\ Good(book) /\ Occupied(book.levels)
         /\ call \in [op : {"match"}, order : Orders, volume : Int, trades : Seq(Trade)]
         /\ call.order \in Orders /\ opposed(call.order.side) \in Sides
         /\ call.order.side \in Sides /\ call.order.price \in Prices
         /\ call.order.id \in OrderIds
         /\ call.order.type \in {"GOOD_TILL_CANCELED", "IMMEDIATE_OR_CANCEL", "FILL_OR_KILL"}
         /\ call.volume \in Int
         /\ Free(call) /\ requestBar = call
         /\ Queues(book, queueBar)
<1>1. /\ Inv /\ BookOK(book) /\ Sorted(book.levels) /\ Good(book) /\ Occupied(book.levels)
      /\ call \in [op : {"match"}, order : Orders, volume : Int, trades : Seq(Trade)]
  BY InvFacts DEF SafeInv, ListInv
<1>2. /\ call.order \in Orders /\ call.volume \in Int
  BY <1>1
<1>3. /\ opposed(call.order.side) \in Sides
      /\ call.order.side \in Sides /\ call.order.price \in Prices
      /\ call.order.id \in OrderIds
      /\ call.order.type \in {"GOOD_TILL_CANCELED", "IMMEDIATE_OR_CANCEL", "FILL_OR_KILL"}
  BY <1>2, BookAssumption DEF opposed, Sides, OrderTypes
<1>4. Free(call) /\ requestBar = call
  BY FreeCalls, BarNow
<1>5. Queues(book, queueBar)
  <2>1. queueBar = QueuesOf(book, call)
    BY BarNow
  <2>2. Queues(book, QueuesOf(book, call))
    BY <1>4, FreeQueues
  <2> QED BY <2>1, <2>2
<1> QED BY <1>1, <1>2, <1>3, <1>4, <1>5

(* While it crosses, the best opposite level is the best price to trade at. *)
LEMMA BestLevel ==
  ASSUME NEW b, BookOK(b), Sorted(b.levels), Occupied(b.levels),
         NEW ends, NEW place, Laid(b, ends, place),
         NEW Q, Queues(b, Q), NEW o \in Orders,
         b.levels[opposed(o.side)] # <<>>,
         crosses(o.side, o.price, b.levels[opposed(o.side)][1].price)
  PROVE  /\ 1 \in 1 .. Len(b.levels[opposed(o.side)])
         /\ TradableIn(Q, o) # {}
         /\ b.levels[opposed(o.side)][1].price
              = CHOOSE p \in TradableIn(Q, o) :
                  \A r \in TradableIn(Q, o) : ~Better(opposed(o.side), r, p)
<1> DEFINE side == opposed(o.side)
           lv == b.levels[side]
           best == lv[1].price
           S == TradableIn(Q, o)
<1>1. side \in Sides
  BY BookAssumption DEF opposed, Sides
<1>2. lv \in Seq(LevelType(Len(b.pool.nodes))) /\ Len(lv) \in Nat /\ DOMAIN lv = 1 .. Len(lv)
      /\ \A i \in 1 .. Len(lv) : lv[i].price \in Nat
  BY <1>1, BookFields, LevelsFacts
<1>3. lv # <<>>
  OBVIOUS
<1>4. 1 \in 1 .. Len(lv)
  <2> HIDE DEF lv
  <2> QED BY <1>2, <1>3
<1>5. \A p : p \in S <=> \E i \in 1 .. Len(lv) : lv[i].price = p /\ crosses(o.side, o.price, p)
  BY TradableLevels
<1>6. \A i, j \in 1 .. Len(lv) : i < j => Better(side, lv[i].price, lv[j].price)
  BY <1>1, <1>2 DEF Sorted, SortedSide
<1>7. crosses(o.side, o.price, best)
  OBVIOUS
<1> HIDE DEF side, lv, best, S
<1>8. best = lv[1].price
  BY DEF best
<1>9. best \in S
  BY <1>4, <1>5, <1>7, <1>8
<1>10. \A r \in S : r # best => Better(side, best, r) /\ best \in Nat /\ r \in Nat
  <2> SUFFICES ASSUME NEW r \in S, r # best
               PROVE  Better(side, best, r) /\ best \in Nat /\ r \in Nat
    OBVIOUS
  <2>1. PICK i \in 1 .. Len(lv) : lv[i].price = r
    BY <1>5
  <2>2. i # 1 /\ 1 < i
    BY <1>2, <1>8, <2>1
  <2> QED BY <1>2, <1>4, <1>6, <1>8, <2>1, <2>2
<1>11. \A p \in S : (\A r \in S : ~Better(side, r, p)) <=> p = best
  <2>1. ASSUME NEW p \in S, p # best PROVE ~(\A r \in S : ~Better(side, r, p))
    BY <1>9, <1>10, <2>1
  <2>2. ASSUME NEW r \in S PROVE ~Better(side, r, best)
    <3>1. CASE r = best
      <4>1. best \in Nat
        BY <1>2, <1>4, <1>8
      <4> QED BY <3>1, <4>1 DEF Better
    <3>2. CASE r # best
      <4>1. Better(side, best, r) /\ best \in Nat /\ r \in Nat
        BY <1>10, <3>2
      <4> QED BY <4>1 DEF Better
    <3> QED BY <3>1, <3>2
  <2> QED BY <1>9, <2>1, <2>2
<1>12. best = CHOOSE p \in S : \A r \in S : ~Better(side, r, p)
  <2>1. (CHOOSE p \in S : \A r \in S : ~Better(side, r, p)) \in S
        /\ \A r \in S : ~Better(side, r, CHOOSE p \in S : \A r2 \in S : ~Better(side, r2, p))
    BY <1>9, <1>11, Zenon
  <2> QED BY <1>11, <2>1
<1>13. S # {}
  BY <1>9
<1> QED BY <1>4, <1>12, <1>13 DEF S, best, lv, side

(* When it no longer crosses, there is no price to trade at.                *)
LEMMA NoneToTrade ==
  ASSUME NEW b, BookOK(b), Sorted(b.levels), Occupied(b.levels),
         NEW ends, NEW place, Laid(b, ends, place),
         NEW Q, Queues(b, Q), NEW o \in Orders,
         \/ b.levels[opposed(o.side)] = <<>>
         \/ ~crosses(o.side, o.price, b.levels[opposed(o.side)][1].price)
  PROVE  TradableIn(Q, o) = {}
<1> DEFINE side == opposed(o.side)
           lv == b.levels[side]
           S == TradableIn(Q, o)
<1>1. side \in Sides /\ o.side \in Sides /\ o.price \in Nat
  BY BookAssumption DEF opposed, Sides
<1>2. Len(lv) \in Nat /\ DOMAIN lv = 1 .. Len(lv) /\ \A i \in 1 .. Len(lv) : lv[i].price \in Nat
  BY <1>1, BookFields, LevelsFacts
<1>3. \A p : p \in S <=> \E i \in 1 .. Len(lv) : lv[i].price = p /\ crosses(o.side, o.price, p)
  BY TradableLevels
<1>4. \A i, j \in 1 .. Len(lv) : i < j => Better(side, lv[i].price, lv[j].price)
  BY <1>1, <1>2 DEF Sorted, SortedSide
<1>5. lv = <<>> \/ ~crosses(o.side, o.price, lv[1].price)
  OBVIOUS
<1>6. lv = <<>> => Len(lv) = 0
  BY DEF lv
<1>7. \A p, q \in Nat : Better(side, p, q) /\ ~crosses(o.side, o.price, p)
                          => ~crosses(o.side, o.price, q)
  BY <1>1 DEF Better, crosses, opposed, Sides
<1> HIDE DEF side, lv, S
<1>8. \A i \in 1 .. Len(lv) : ~crosses(o.side, o.price, lv[i].price)
  <2> SUFFICES ASSUME NEW i \in 1 .. Len(lv) PROVE ~crosses(o.side, o.price, lv[i].price)
    OBVIOUS
  <2>1. 1 \in 1 .. Len(lv) /\ Len(lv) # 0
    BY <1>2
  <2>2. ~crosses(o.side, o.price, lv[1].price)
    BY <1>5, <1>6, <2>1
  <2>3. CASE i = 1
    BY <2>2, <2>3
  <2>4. CASE i # 1
    <3>1. Better(side, lv[1].price, lv[i].price)
      BY <1>2, <1>4, <2>1, <2>4
    <3> QED BY <1>2, <1>7, <2>1, <2>2, <3>1
  <2> QED BY <2>3, <2>4
<1>9. \A p : p \notin S
  BY <1>3, <1>8
<1> QED BY <1>9 DEF S

(* The end of a match: the abstract order has nothing left to trade either. *)
LEMMA MatchReturnMaps ==
  ASSUME SafeInv, BarInv, MatchReturn
  PROVE  [PTB!Next]_(PTB!vars) /\ BarInv'
<1>1. call.op = "match" /\ ~Crossing
  BY DEF MatchReturn
<1>2. /\ BookOK(book) /\ Sorted(book.levels) /\ Good(book) /\ Occupied(book.levels)
      /\ call.order \in Orders /\ opposed(call.order.side) \in Sides
      /\ call.order.side \in Sides /\ call.order.price \in Prices
      /\ call.order.id \in OrderIds
      /\ call.order.type \in {"GOOD_TILL_CANCELED", "IMMEDIATE_OR_CANCEL", "FILL_OR_KILL"}
      /\ call.volume \in Int /\ Inv
      /\ Free(call) /\ requestBar = call
      /\ Queues(book, queueBar)
  BY <1>1, MatchFacts DEF SafeInv
<1>3. call.volume = 0 \/ PTB!Tradable(call.order) = {}
  <2>1. CASE call.volume > 0
    <3>1. \/ book.levels[opposed(call.order.side)] = <<>>
          \/ ~crosses(call.order.side, call.order.price,
                      book.levels[opposed(call.order.side)][1].price)
      BY <1>1, <2>1 DEF Crossing
    <3>2. PICK ends, place : Laid(book, ends, place)
      BY <1>2, HasLayout
    <3>3. PICK Q : Q = queueBar
      OBVIOUS
    <3>4. TradableIn(Q, call.order) = {}
      BY <1>2, <3>1, <3>2, <3>3, NoneToTrade
    <3> QED BY <3>3, <3>4, TradableIs
  <2>2. CASE ~(call.volume > 0)
    <3>1. call.volume >= 0
      BY <1>1 DEF BarInv
    <3> QED BY <1>2, <2>2, <3>1
  <2> QED BY <2>1, <2>2
<1> DEFINE o == call.order
<1>4. CASE /\ call.volume > 0 /\ o.type # "IMMEDIATE_OR_CANCEL" /\ o.type # "FILL_OR_KILL"
           /\ RestAndReturn(o.id, o.side, o.price, call.volume)
  <2>1. PTB!Rest(o.id, o.side, o.price, call.volume) /\ BarInv'
    BY <1>2, <1>4, RestMaps
  <2>2. o.type = "GOOD_TILL_CANCELED"
    BY <1>2, <1>4
  <2>3. PTB!Finish
    <3> HIDE DEF o
    <3>1. requestBar.order = o /\ requestBar.volume = call.volume /\ requestBar.op = "match"
      BY <1>1, <1>2 DEF o
    <3>2. requestBar.volume = 0 \/ PTB!Tradable(requestBar.order) = {}
      BY <1>2, <1>3
    <3> QED BY <1>4, <2>1, <2>2, <3>1, <3>2 DEF PTB!Finish
  <2> QED BY <2>1, <2>3 DEF PTB!Next
<1>5. CASE /\ ~(call.volume > 0 /\ o.type # "IMMEDIATE_OR_CANCEL" /\ o.type # "FILL_OR_KILL")
           /\ call' = Idle /\ UNCHANGED book
  <2>1. queueBar' = queueBar /\ requestBar' = PTB!Idle /\ BarInv'
    BY <1>2, <1>5, FreeCalls, FreeStep, SameBook, BarInvFree, BarNext
  <2>2. ~(call.volume > 0 /\ o.type = "GOOD_TILL_CANCELED")
    BY <1>5
  <2>3. PTB!Finish
    <3> HIDE DEF o
    <3>1. requestBar.order = o /\ requestBar.volume = call.volume /\ requestBar.op = "match"
      BY <1>1, <1>2 DEF o
    <3>2. requestBar.volume = 0 \/ PTB!Tradable(requestBar.order) = {}
      BY <1>2, <1>3
    <3> QED BY <2>1, <2>2, <3>1, <3>2 DEF PTB!Finish
  <2> QED BY <2>1, <2>3 DEF PTB!Next
<1> QED BY <1>4, <1>5 DEF MatchReturn

(* The best of some prices, and the opposite side, are what they are there. *)
LEMMA SameChoices ==
  ASSUME NEW side, NEW S
  PROVE  /\ PTB!Opposite(side) = opposed(side)
         /\ PTB!BestOf(side, S) = CHOOSE p \in S : \A r \in S : ~Better(side, r, p)
<1>1. PTB!Opposite(side) = opposed(side)
  BY DEF PTB!Opposite, opposed
<1>2. PTB!BestOf(side, S) = CHOOSE p \in S : \A r \in S : ~Better(side, r, p)
  BY Zenon DEF PTB!BestOf, PTB!Better, Better
<1> QED BY <1>1, <1>2

(* A fill is an execution with the oldest order at the best price.          *)
LEMMA MatchStepMaps ==
  ASSUME SafeInv, BarInv, MatchStep
  PROVE  [PTB!Next]_(PTB!vars) /\ BarInv'
<1>1. call.op = "match" /\ Crossing /\ call.volume > 0
  BY DEF MatchStep, Crossing
<1>2. /\ BookOK(book) /\ Sorted(book.levels) /\ Good(book) /\ Occupied(book.levels)
      /\ call \in [op : {"match"}, order : Orders, volume : Int, trades : Seq(Trade)]
      /\ call.order \in Orders /\ opposed(call.order.side) \in Sides
      /\ call.volume \in Int
      /\ Free(call) /\ requestBar = call
      /\ Queues(book, queueBar)
  BY <1>1, MatchFacts
<1>3. PICK ends, place : Laid(book, ends, place)
  BY <1>2, HasLayout
<1> DEFINE o == call.order
           side == opposed(o.side)
           v == call.volume
           lvl == book.levels[side][1]
           h == lvl.head
           price == lvl.price
           r == book.pool.nodes[h].value
           fill == Lesser(v, r.volume)
           b1 == take(book, side, 1, fill)
           b2 == erase_if_empty(b1, side, 1)
           q == OrdersAt(book, side, price)
<1>4. /\ h # kNull /\ book' = b2
      /\ call' = [call EXCEPT !.volume = @ - fill,
                              !.trades = Append(@, [aggressor |-> o.id, resting |-> r.id,
                                                    price |-> price, volume |-> fill])]
  BY DEF MatchStep
<1>5. /\ call'.op = "match" /\ call'.volume = v - fill
  BY <1>2, <1>4
<1>6. /\ 1 \in 1 .. Len(book.levels[side])
      /\ PTB!Tradable(o) # {}
      /\ price = PTB!BestOf(side, PTB!Tradable(o))
      /\ PTB!Opposite(o.side) = side
  <2>1. /\ book.levels[opposed(o.side)] # <<>>
        /\ crosses(o.side, o.price, book.levels[opposed(o.side)][1].price)
    BY <1>1 DEF Crossing
  <2>2. PICK Q : Q = queueBar
    OBVIOUS
  <2>3. /\ 1 \in 1 .. Len(book.levels[side])
        /\ TradableIn(Q, o) # {}
        /\ price = CHOOSE p \in TradableIn(Q, o) :
                     \A s \in TradableIn(Q, o) : ~Better(side, s, p)
    <3> HIDE DEF o
    <3>1. o \in Orders
      BY <1>2 DEF o
    <3> QED BY <1>2, <1>3, <2>1, <2>2, <3>1, BestLevel
  <2>4. PICK S : S = PTB!Tradable(o)
    OBVIOUS
  <2>5. S = TradableIn(Q, o)
    BY <2>2, <2>4, TradableIs
  <2> HIDE DEF side, price, o
  <2>6. PTB!BestOf(side, S) = CHOOSE p \in S : \A s \in S : ~Better(side, s, p)
    BY SameChoices
  <2>7. price = PTB!BestOf(side, S)
    BY <2>3, <2>5, <2>6
  <2>8. PTB!Opposite(o.side) = side
    BY SameChoices DEF side
  <2> QED BY <2>3, <2>4, <2>5, <2>7, <2>8
<1>7. /\ IsHead(book, side, 1, h)
      /\ price = book.levels[side][1].price /\ r = book.pool.nodes[h].value
  BY DEF IsHead
<1> HIDE DEF h, lvl, price, r
<1>8. side \in Sides /\ v \in Int /\ v > 0
  BY <1>1, <1>2
<1> HIDE DEF side, v
<1>9. r.volume \in Int /\ r.volume > 0
  BY <1>2, <1>3, <1>4, <1>6, <1>7, <1>8, HeadPlace
<1>10. fill \in Int /\ 0 < fill /\ fill <= r.volume /\ fill <= v
  BY <1>8, <1>9 DEF Lesser
<1>11. fill = IF v <= r.volume THEN v ELSE r.volume
  BY DEF Lesser
<1> HIDE DEF fill
<1>12. q = OrdersAt(book, side, price)
  OBVIOUS
<1> HIDE DEF q
<1>13. price \in Prices /\ q # <<>> /\ Head(q) = r
  BY <1>2, <1>3, <1>4, <1>6, <1>7, <1>8, <1>12, HeadOrder
<1>14. Good(b1) /\ Requeued(book, b1, side, price, Drained(OrdersAt(book, side, price), fill))
  BY <1>2, <1>3, <1>4, <1>6, <1>7, <1>8, <1>10, GoodTake, TakenOrders
<1>15. PICK head : UpdateOK(book, side, 1, b1, head)
  BY <1>2, <1>4, <1>6, <1>7, <1>8, <1>10, TakeOK DEF IsHead
<1>16. BookOK(b1) /\ 1 \in 1 .. Len(b1.levels[side])
  <2> HIDE DEF b1
  <2> QED BY <1>2, <1>6, <1>8, <1>15, UpdateKeeps
<1>17. SameQueues(b1, b2)
  <2> HIDE DEF b1
  <2>1. PICK e2, p2 : Laid(b1, e2, p2)
    BY <1>14, HasLayout
  <2> QED BY <1>8, <1>16, <2>1, ErasedOrders
<1>18. Requeued(book, b2, side, price, Drained(q, fill))
  <2> HIDE DEF b1, b2
  <2> QED BY <1>12, <1>14, <1>17, RequeuedThenSame
<1> HIDE DEF b1, b2
<1>19. Requeued(book, book', side, price, Drained(q, fill))
  BY <1>4, <1>18
<1>20. Free(call') /\ requestBar' = call'
  BY <1>5, FreeCalls, BarNext
<1>21. /\ queueBar' = [queueBar EXCEPT ![side][price] = PTB!Drained(q, fill)]
       /\ queueBar[side][price] = q
  BY <1>2, <1>8, <1>12, <1>13, <1>19, <1>20, FreeStep, SameOperators
<1>22. PTB!Execute
  <2>1. /\ requestBar.op = "match" /\ requestBar.volume = v /\ requestBar.order = o
        /\ requestBar' = [requestBar EXCEPT !.volume = @ - fill,
                             !.trades = Append(@, [aggressor |-> o.id, resting |-> r.id,
                                                   price |-> price, volume |-> fill])]
    BY <1>1, <1>2, <1>4, <1>20 DEF v
  <2> HIDE DEF o
  <2>2. PTB!Opposite(requestBar.order.side) = side
        /\ PTB!BestOf(side, PTB!Tradable(requestBar.order)) = price
        /\ PTB!Tradable(requestBar.order) # {}
    BY <1>6, <2>1
  <2>3. Head(queueBar[side][price]) = r
    BY <1>13, <1>21
  <2> QED BY <1>8, <1>11, <1>21, <2>1, <2>2, <2>3 DEF PTB!Execute
<1>23. BarInv'
  <2>1. call'.volume >= 0
    BY <1>5, <1>8, <1>10
  <2> QED BY <1>5, <2>1 DEF BarInv
<1> QED BY <1>22, <1>23 DEF PTB!Next

-----------------------------------------------------------------------------
(* The refinement                                                           *)

(* The empty book stands for empty queues.                                  *)
LEMMA InitMaps == Init => PTB!Init /\ BarInv
<1> SUFFICES ASSUME Init PROVE PTB!Init /\ BarInv
  OBVIOUS
<1>1. call = Idle /\ book.levels = [s \in Sides |-> <<>>]
  BY DEF Init
<1>2. requestBar = PTB!Idle /\ Free(call) /\ call.op = "idle" /\ queueBar = QueuesOf(book, call)
  BY <1>1, FreeCalls, BarNow
<1>3. \A s \in Sides, p \in Prices : QueueOf(book, call, s, p) = <<>>
  <2> SUFFICES ASSUME NEW s \in Sides, NEW p \in Prices PROVE QueueOf(book, call, s, p) = <<>>
    OBVIOUS
  <2>1. QueueOf(book, call, s, p) = OrdersAt(book, s, p)
    BY <1>2, QueueOfFree DEF Free
  <2>2. BookOK(book) /\ Len(book.levels[s]) = 0
    BY <1>1, InitSafe, InvFacts DEF SafeInv
  <2>3. OrdersAt(book, s, p) = <<>>
    BY <2>2, NoLevelNoOrders
  <2> QED BY <2>1, <2>3
<1>4. queueBar = [s \in Sides |-> [p \in Prices |-> <<>>]]
  BY <1>2, <1>3 DEF QueuesOf
<1>5. PTB!Init
  BY <1>2, <1>4 DEF PTB!Init, PTB!Sides, Sides
<1>6. BarInv
  BY <1>2 DEF BarInv
<1> QED BY <1>5, <1>6

(* Every step of the engine is a step of the queues, or leaves them.        *)
LEMMA StepMaps ==
  ASSUME SafeInv, BarInv, [Next]_vars
  PROVE  [PTB!Next]_(PTB!vars) /\ BarInv'
<1>1. CASE UNCHANGED vars
  <2>1. book' = book /\ call' = call
    BY <1>1 DEF vars
  <2>2. queueBar' = queueBar /\ RequestOf(call') = RequestOf(call)
    BY <2>1, BarNow, BarNext
  <2>3. BarInv'
    BY <2>1 DEF BarInv
  <2> QED BY <2>2, <2>3, Stutters
<1>2. CASE Calling
  <2>1. CASE "place_order" \in Ops /\ \E o \in Orders : PlaceOrder(o)
    BY <2>1, PlaceOrderMaps
  <2>2. CASE "cancel_order" \in Ops /\ \E id \in OrderIds : CancelOrder(id)
    BY <2>2, CancelOrderMaps
  <2>3. CASE \E side \in Sides, price \in Prices, volume \in Volumes :
               \/ "add_order" \in Ops /\ AddOrder(side, price, volume)
               \/ "delete_order" \in Ops /\ DeleteOrder(side, price, volume)
               \/ "set_level" \in Ops /\ SetLevel(side, price, volume)
    BY <2>3, AddOrderMaps, DeleteOrderMaps, SetLevelMaps
  <2> QED BY <1>2, <2>1, <2>2, <2>3 DEF Calling
<1>3. CASE Running
  BY <1>3, MatchStepMaps, MatchReturnMaps, DeleteStepMaps, DrainReturnMaps, ClearStepMaps,
     CollapseStepMaps, CollapseReturnMaps DEF Running
<1> QED BY <1>1, <1>2, <1>3 DEF Next, Halted

(* Whatever the capacity, the orders and the sequence of calls, the engine  *)
(* behaves like one FIFO queue per price: an incoming order trades with the *)
(* oldest order at the best price, one execution at a time, and cancelling, *)
(* deleting, setting a level and running out of slots do to the queues what *)
(* PriceTimeBook says, in one step.  The loops of delete_order and          *)
(* set_level in order_book.cpp are invisible.                               *)
THEOREM KeepsPriceTimePriority == Spec => Refines
<1>1. Init => SafeInv /\ BarInv /\ PTB!Init
  BY InitSafe, InitMaps
<1>2. SafeInv /\ BarInv /\ [Next]_vars =>
        SafeInv' /\ BarInv' /\ [PTB!Next]_(PTB!vars)
  BY StepSafe, StepMaps
<1> QED BY <1>1, <1>2, PTL DEF Spec, Refines, PTB!Spec
=============================================================================
