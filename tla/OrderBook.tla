----------------------------- MODULE OrderBook -----------------------------
(***************************************************************************)
(* OrderBook (src/engine/order_book.{hpp,cpp}): a price-time-priority      *)
(* matching engine.  Its four members are one record,                      *)
(*                                                                         *)
(*    book = [pool   |-> pool_,                                            *)
(*            levels |-> [BID |-> bid_levels_, ASK |-> ask_levels_],       *)
(*            index  |-> index_]                                           *)
(*                                                                         *)
(* and every private member function is an operator on such records.  The  *)
(* class is not thread-safe and has one caller.  The loops of place_order, *)
(* delete_order and set_level run one iteration per step: `call` holds the *)
(* locals of the function that is running, and no other operation starts   *)
(* before it returns.                                                      *)
(*                                                                         *)
(* A failed assertion (pool exhausted, indexed level missing) ends the     *)
(* program: call = Aborted.                                                *)
(***************************************************************************)
EXTENDS ObjectPool

CONSTANTS
  Prices,      \* limit prices of orders; uint64_t in the code
  Volumes,     \* volumes the other entry points are given; int64_t, may be <= 0
  OrderIds,    \* ids of orders; uint64_t, only ever compared for equality
  kAnonymous,  \* the reserved id 0 of orders the index does not track
  Orders,      \* the orders place_order is called with
  Ops,         \* the entry points the caller uses
  UniqueIds    \* TRUE: the caller does not reuse the id of a resting order

Sides == {"BID", "ASK"}
opposed(side) == IF side = "BID" THEN "ASK" ELSE "BID"

OrderTypes == {"GOOD_TILL_CANCELED", "FILL_OR_KILL", "IMMEDIATE_OR_CANCEL"}

EntryPoints ==
  {"place_order", "cancel_order", "add_order", "delete_order", "set_level"}

(* set_level "must not be mixed with place_order()/cancel_order() flow on   *)
(* the same book" (order_book.hpp).                                         *)
ASSUME BookAssumption ==
  /\ Prices \subseteq Nat
  /\ Volumes \subseteq Int
  /\ kAnonymous \in OrderIds
  /\ Orders \subseteq [id : OrderIds, side : Sides, price : Prices,
                       volume : Int, type : OrderTypes]
  /\ Ops \subseteq EntryPoints
  /\ "set_level" \in Ops => {"place_order", "cancel_order"} \cap Ops = {}
  /\ UniqueIds \in BOOLEAN

VARIABLES book, call

vars == <<book, call>>

kNull == null_index

Idle == [op |-> "idle"]
Aborted == [op |-> "aborted"]

-----------------------------------------------------------------------------
(* Prices and levels                                                        *)

(* The comparator of a side: bids descend, asks ascend, the best is first.  *)
Better(side, p, q) == IF side = "BID" THEN p > q ELSE p < q

(* Slips: a price equal to the limit does not trade; the limit is ignored.  *)
CrossesStrictly(side, price, book_price) ==
  IF side = "BID" THEN price > book_price ELSE price < book_price
CrossesAlways(side, price, book_price) == TRUE

(* Would an incoming order on side, limited at price, trade at book_price?  *)
crosses(side, price, book_price) ==
  IF side = "BID" THEN price >= book_price ELSE price <= book_price

(* Slip: bids are searched with the comparator of asks.                     *)
FindLevelAscending(levels, side, price) ==
  {it \in 1 .. Len(levels) + 1 :
     /\ \A j \in 1 .. it - 1 : levels[j].price < price
     /\ \A j \in it .. Len(levels) : levels[j].price >= price}

(* find_level: the lower bound of price in a sorted side.  That the search  *)
(* returns such a position, whatever the range, is what the module          *)
(* BranchlessLowerBound establishes; the position is unique.                *)
find_level(levels, side, price) ==
  {it \in 1 .. Len(levels) + 1 :
     /\ \A j \in 1 .. it - 1 : Better(side, levels[j].price, price)
     /\ \A j \in it .. Len(levels) : ~Better(side, levels[j].price, price)}

(* it != levels.end() && it->price == price                                 *)
Exists(levels, it, price) == it <= Len(levels) /\ levels[it].price = price

(* The running total of can_fully_fill after its first k iterations.        *)
Available(opposite) ==
  LET available[k \in 0 .. Len(opposite)] ==
        IF k = 0 THEN 0 ELSE available[k - 1] + opposite[k].total_volume
  IN  available

(* Slip: liquidity worse than the limit counts as available.                *)
CountsWholeSide(opposite, side, price, volume) ==
  Available(opposite)[Len(opposite)] >= volume

can_fully_fill(opposite, side, price, volume) ==
  \E k \in 1 .. Len(opposite) :
    /\ \A j \in 1 .. k : crosses(side, price, opposite[j].price)
    /\ Available(opposite)[k] >= volume

-----------------------------------------------------------------------------
(* The id -> location index, a partial function                             *)

Erase(index, id) == [k \in DOMAIN index \ {id} |-> index[k]]

Bind(index, id, loc) ==
  [k \in DOMAIN index \cup {id} |-> IF k = id THEN loc ELSE index[k]]

-----------------------------------------------------------------------------
(* The FIFO of a level                                                      *)

(* rest: append to the level at it, which is created when the price has     *)
(* none, and index the order unless it is anonymous.                        *)
rest(b, it, id, side, price, volume) ==
  LET levels == IF Exists(b.levels[side], it, price)
                  THEN b.levels[side]
                  ELSE InsertAt(b.levels[side], it,
                                [price |-> price, total_volume |-> 0,
                                 head |-> kNull, tail |-> kNull])
      lvl    == levels[it]
      node   == AllocatedIndex(b.pool)
      pool   == allocate(b.pool, [id |-> id, volume |-> volume])
  IN  [pool   |-> IF lvl.tail = kNull
                    THEN pool
                    ELSE set_prev(set_next(pool, lvl.tail, node), node, lvl.tail),
       levels |-> [b.levels EXCEPT ![side] =
                    [levels EXCEPT ![it] =
                      [price        |-> lvl.price,
                       total_volume |-> lvl.total_volume + volume,
                       head         |-> IF lvl.tail = kNull THEN node ELSE lvl.head,
                       tail         |-> node]]],
       index  |-> IF id = kAnonymous
                    THEN b.index
                    ELSE Bind(b.index, id,
                              [side |-> side, price |-> price, node |-> node])]

(* Slips: a filled order stays indexed; the id is read from the next node.  *)
UnindexForgotten(b, node) == b.index
UnindexNext(b, node) ==
  LET next == b.pool.nodes[node].next
  IN  IF next = kNull THEN b.index ELSE Erase(b.index, b.pool.nodes[next].value.id)

(* pop_front forgets the order it is about to free.                         *)
unindex(b, node) ==
  LET id == b.pool.nodes[node].value.id
  IN  IF id # kAnonymous THEN Erase(b.index, id) ELSE b.index

(* pop_front: unlink, unindex and free the oldest order of a level.         *)
pop_front(b, side, it) ==
  LET lvl  == b.levels[side][it]
      node == lvl.head
      next == b.pool.nodes[node].next
  IN  [pool   |-> deallocate(IF next # kNull
                               THEN set_prev(b.pool, next, kNull) ELSE b.pool,
                             node),
       levels |-> [b.levels EXCEPT ![side][it] =
                    [price        |-> lvl.price,
                     total_volume |-> lvl.total_volume,
                     head         |-> next,
                     tail         |-> IF next # kNull THEN lvl.tail ELSE kNull]],
       index  |-> unindex(b, node)]

(* One iteration of the inner loops of match and delete_order: the oldest   *)
(* order of the level gives up amount, and is popped when nothing is left.  *)
take(b, side, it, amount) ==
  LET lvl  == b.levels[side][it]
      r    == b.pool.nodes[lvl.head].value
      left == r.volume - amount
      b1   == [pool   |-> set_value(b.pool, lvl.head, [id |-> r.id, volume |-> left]),
               levels |-> [b.levels EXCEPT ![side][it] =
                            [price        |-> lvl.price,
                             total_volume |-> lvl.total_volume - amount,
                             head         |-> lvl.head,
                             tail         |-> lvl.tail]],
               index  |-> b.index]
  IN  IF left = 0 THEN pop_front(b1, side, it) ELSE b1

(* unlink: splice a node out of its level without freeing it.               *)
unlink(b, side, it, node) ==
  LET lvl  == b.levels[side][it]
      prev == b.pool.nodes[node].prev
      next == b.pool.nodes[node].next
      p1   == IF prev # kNull THEN set_next(b.pool, prev, next) ELSE b.pool
      p2   == IF next # kNull THEN set_prev(p1, next, prev) ELSE p1
  IN  [pool   |-> p2,
       levels |-> [b.levels EXCEPT ![side][it] =
                    [price        |-> lvl.price,
                     total_volume |-> lvl.total_volume,
                     head         |-> IF prev # kNull THEN lvl.head ELSE next,
                     tail         |-> IF next # kNull THEN lvl.tail ELSE prev]],
       index  |-> b.index]

(* if (it->head == kNull) levels.erase(it)                                  *)
erase_if_empty(b, side, it) ==
  IF b.levels[side][it].head = kNull
    THEN [pool   |-> b.pool,
          levels |-> [b.levels EXCEPT ![side] = RemoveAt(b.levels[side], it)],
          index  |-> b.index]
    ELSE b

-----------------------------------------------------------------------------
(* Steps                                                                    *)

Lesser(a, b) == IF a <= b THEN a ELSE b

Init ==
  /\ book = [pool   |-> EmptyPool,
             levels |-> [side \in Sides |-> <<>>],
             index  |-> <<>>]
  /\ call = Idle

(* The tail of place_order, of add_order and of a set_level that creates    *)
(* its level: rest the volume and return, unless the pool is exhausted.     *)
RestAndReturn(id, side, price, volume) ==
  \/ /\ Exhausted(book.pool)
     /\ call' = Aborted
     /\ UNCHANGED book
  \/ /\ ~Exhausted(book.pool)
     /\ \E it \in find_level(book.levels[side], side, price) :
          book' = rest(book, it, id, side, price, volume)
     /\ call' = Idle

RestingIds == {book.pool.nodes[n].value.id : n \in LiveNodes(book.pool)}

(* place_order up to the matching loop.                                     *)
PlaceOrder(o) ==
  /\ call = Idle
  /\ UniqueIds => o.id \notin RestingIds \ {kAnonymous}
  /\ LET accepted == /\ o.volume > 0
                     /\ o.type = "FILL_OR_KILL" =>
                          can_fully_fill(book.levels[opposed(o.side)],
                                         o.side, o.price, o.volume)
     IN  call' = IF accepted
                   THEN [op |-> "match", order |-> o,
                         volume |-> o.volume, trades |-> <<>>]
                   ELSE Idle
  /\ UNCHANGED book

(* The condition of the outer loop of match.                                *)
Crossing ==
  LET opposite == book.levels[opposed(call.order.side)]
  IN  /\ call.volume > 0
      /\ opposite # <<>>
      /\ crosses(call.order.side, call.order.price, opposite[1].price)

(* One fill: the oldest order of the best opposite level trades.            *)
MatchStep ==
  /\ call.op = "match"
  /\ Crossing
  /\ LET side == opposed(call.order.side)
         lvl  == book.levels[side][1]
         r    == book.pool.nodes[lvl.head].value
         fill == Lesser(call.volume, r.volume)
     IN  /\ lvl.head # kNull
         /\ book' = erase_if_empty(take(book, side, 1, fill), side, 1)
         /\ call' = [call EXCEPT
                       !.volume = @ - fill,
                       !.trades = Append(@, [aggressor |-> call.order.id,
                                             resting   |-> r.id,
                                             price     |-> lvl.price,
                                             volume    |-> fill])]

(* place_order after match: only GOOD_TILL_CANCELED rests its remainder.    *)
MatchReturn ==
  /\ call.op = "match"
  /\ ~Crossing
  /\ LET rest_remainder == /\ call.volume > 0
                           /\ call.order.type # "IMMEDIATE_OR_CANCEL"
                           /\ call.order.type # "FILL_OR_KILL"
     IN  \/ /\ rest_remainder
            /\ RestAndReturn(call.order.id, call.order.side,
                             call.order.price, call.volume)
         \/ /\ ~rest_remainder
            /\ call' = Idle
            /\ UNCHANGED book

(* The body of cancel_order for an order found in the index.                *)
cancelled(b, it, id) ==
  LET loc       == b.index[id]
      remaining == b.pool.nodes[loc.node].value.volume
      b1        == unlink(b, loc.side, it, loc.node)
      lvl       == b1.levels[loc.side][it]
      b2        == [pool   |-> deallocate(b1.pool, loc.node),
                    levels |-> [b1.levels EXCEPT ![loc.side][it] =
                                 [price        |-> lvl.price,
                                  total_volume |-> lvl.total_volume - remaining,
                                  head         |-> lvl.head,
                                  tail         |-> lvl.tail]],
                    index  |-> Erase(b1.index, id)]
  IN  erase_if_empty(b2, loc.side, it)

CancelOrder(id) ==
  /\ call = Idle
  /\ \/ /\ id \notin DOMAIN book.index
        /\ UNCHANGED vars
     \/ /\ id \in DOMAIN book.index
        /\ LET loc == book.index[id]
           IN  \E it \in find_level(book.levels[loc.side], loc.side, loc.price) :
                 IF Exists(book.levels[loc.side], it, loc.price)
                   THEN book' = cancelled(book, it, id) /\ UNCHANGED call
                   ELSE call' = Aborted /\ UNCHANGED book

AddOrder(side, price, volume) ==
  /\ call = Idle
  /\ \/ volume <= 0 /\ UNCHANGED vars
     \/ volume > 0 /\ RestAndReturn(kAnonymous, side, price, volume)

DeleteOrder(side, price, volume) ==
  /\ call = Idle
  /\ \E it \in find_level(book.levels[side], side, price) :
       call' = IF Exists(book.levels[side], it, price)
                 THEN [op |-> "delete_order", side |-> side, it |-> it,
                       volume |-> volume]
                 ELSE Idle
  /\ UNCHANGED book

(* The level a running delete_order or set_level holds an iterator to.      *)
CalledLevel == book.levels[call.side][call.it]

(* Slip: an order larger than what is left to delete is not reduced.        *)
DeleteWholeOrders ==
  /\ call.op = "delete_order"
  /\ call.volume > 0
  /\ CalledLevel.head # kNull
  /\ LET volume == book.pool.nodes[CalledLevel.head].value.volume
         amount == IF volume <= call.volume THEN volume ELSE 0
     IN  /\ book' = take(book, call.side, call.it, amount)
         /\ call' = [call EXCEPT !.volume = @ - amount]

DeleteStep ==
  /\ call.op = "delete_order"
  /\ call.volume > 0
  /\ CalledLevel.head # kNull
  /\ LET amount == Lesser(call.volume,
                          book.pool.nodes[CalledLevel.head].value.volume)
     IN  /\ book' = take(book, call.side, call.it, amount)
         /\ call' = [call EXCEPT !.volume = @ - amount]

DeleteReturn ==
  /\ call.op = "delete_order"
  /\ call.volume <= 0 \/ CalledLevel.head = kNull
  /\ book' = erase_if_empty(book, call.side, call.it)
  /\ call' = Idle

(* set_level: the loop that pops a removed level, or the one that frees the *)
(* nodes behind the head of an existing level, starts here.                 *)
SetLevel(side, price, volume) ==
  /\ call = Idle
  /\ \E it \in find_level(book.levels[side], side, price) :
       LET exists == Exists(book.levels[side], it, price)
       IN  \/ /\ volume <= 0
              /\ call' = IF exists THEN [op |-> "clear_level", side |-> side, it |-> it]
                                   ELSE Idle
              /\ UNCHANGED book
           \/ /\ volume > 0
              /\ ~exists
              /\ RestAndReturn(kAnonymous, side, price, volume)
           \/ /\ volume > 0
              /\ exists
              /\ LET head == book.levels[side][it].head
                 IN  call' = [op |-> "collapse_level", side |-> side, it |-> it,
                              volume |-> volume,
                              node |-> book.pool.nodes[head].next]
              /\ UNCHANGED book

ClearStep ==
  /\ call.op = "clear_level"
  /\ CalledLevel.head # kNull
  /\ book' = pop_front(book, call.side, call.it)
  /\ UNCHANGED call

ClearReturn ==
  /\ call.op = "clear_level"
  /\ CalledLevel.head = kNull
  /\ book' = erase_if_empty(book, call.side, call.it)
  /\ call' = Idle

CollapseStep ==
  /\ call.op = "collapse_level"
  /\ call.node # kNull
  /\ book' = [pool   |-> deallocate(book.pool, call.node),
              levels |-> book.levels,
              index  |-> book.index]
  /\ call' = [call EXCEPT !.node = book.pool.nodes[call.node].next]

CollapseReturn ==
  /\ call.op = "collapse_level"
  /\ call.node = kNull
  /\ LET head == CalledLevel.head
         id   == book.pool.nodes[head].value.id
     IN  book' = [pool   |-> set_value(set_next(book.pool, head, kNull), head,
                                      [id |-> id, volume |-> call.volume]),
                  levels |-> [book.levels EXCEPT ![call.side][call.it] =
                               [price        |-> CalledLevel.price,
                                total_volume |-> call.volume,
                                head         |-> head,
                                tail         |-> head]],
                  index  |-> book.index]
  /\ call' = Idle

(* The steps of a function that has been entered.                           *)
Running ==
  \/ MatchStep \/ MatchReturn
  \/ DeleteStep \/ DeleteReturn
  \/ ClearStep \/ ClearReturn
  \/ CollapseStep \/ CollapseReturn

(* The caller enters a function.                                            *)
Calling ==
  \/ "place_order" \in Ops /\ \E o \in Orders : PlaceOrder(o)
  \/ "cancel_order" \in Ops /\ \E id \in OrderIds : CancelOrder(id)
  \/ \E side \in Sides, price \in Prices, volume \in Volumes :
       \/ "add_order" \in Ops /\ AddOrder(side, price, volume)
       \/ "delete_order" \in Ops /\ DeleteOrder(side, price, volume)
       \/ "set_level" \in Ops /\ SetLevel(side, price, volume)

Halted == call = Aborted /\ UNCHANGED vars

Next == Calling \/ Running \/ Halted

(* A function that was entered keeps running; callers owe nothing.          *)
Spec == Init /\ [][Next]_vars /\ WF_vars(Running)

-----------------------------------------------------------------------------
(* Properties                                                               *)

Index(b) == 0 .. Len(b.pool.nodes)
RestingOrder == [id : OrderIds, volume : Int]
Level(b) == [price : Prices, total_volume : Int, head : Index(b), tail : Index(b)]
Location(b) == [side : Sides, price : Prices, node : Index(b) \ {kNull}]
Trade == [aggressor : OrderIds, resting : OrderIds, price : Prices, volume : Int]

(* Every link, head, tail, freed and indexed node is a slot of the pool, or *)
(* null where null is allowed.                                              *)
BookOK(b) ==
  /\ b = [pool |-> b.pool, levels |-> b.levels, index |-> b.index]
  /\ b.pool = [nodes |-> b.pool.nodes, free_list |-> b.pool.free_list]
  /\ b.pool.nodes \in Seq(Node(RestingOrder, Index(b)))
  /\ Len(b.pool.nodes) <= Capacity
  /\ b.pool.free_list \in Seq(Index(b) \ {kNull})
  /\ b.levels \in [Sides -> Seq(Level(b))]
  /\ DOMAIN b.index \subseteq OrderIds \ {kAnonymous}
  /\ \A id \in DOMAIN b.index : b.index[id] \in Location(b)

(* What the locals of each function may be.                                 *)
CallOK ==
  \/ call = Idle
  \/ call = Aborted
  \/ call \in [op : {"match"}, order : Orders, volume : Int, trades : Seq(Trade)]
  \/ call \in [op : {"delete_order"}, side : Sides, it : Nat, volume : Int]
  \/ call \in [op : {"clear_level"}, side : Sides, it : Nat]
  \/ call \in [op : {"collapse_level"}, side : Sides, it : Nat, volume : Int,
               node : Index(book)]

(* A function that walks a level holds a valid iterator.                    *)
IteratorOK ==
  call.op \in {"delete_order", "clear_level", "collapse_level"} =>
    call.it \in DOMAIN book.levels[call.side]

(* Type invariant: no index, link or iterator is ever out of range.         *)
TypeOK == BookOK(book) /\ CallOK /\ IteratorOK

SortedSide(levels, side) ==
  \A i, j \in DOMAIN levels : i < j => Better(side, levels[i].price, levels[j].price)

(* Both sides are strictly sorted, best price first, so a price has at most *)
(* one level and front() is the best price (order_book.hpp, class comment). *)
SidesSorted == \A side \in Sides : SortedSide(book.levels[side], side)

(* The nodes met by following next from head: null from the end on.         *)
Walk(b, head) ==
  LET at[k \in 1 .. Len(b.pool.nodes)] ==
        IF k = 1 THEN head
        ELSE IF at[k - 1] = kNull THEN kNull
        ELSE b.pool.nodes[at[k - 1]].next
  IN  at

(* The nodes of a level in time priority: the walk up to its end.           *)
Fifo(b, lvl) ==
  LET at     == Walk(b, lvl.head)
      length == CHOOSE n \in 0 .. Len(b.pool.nodes) :
                  \A k \in 1 .. Len(b.pool.nodes) : at[k] # kNull <=> k <= n
  IN  [k \in 1 .. length |-> at[k]]

(* While set_level frees the nodes behind a head, and after an abort, the   *)
(* book is not in use and its lists need not be consistent.                 *)
Usable == call.op \notin {"collapse_level", "aborted"}

(* The level whose loop is running may be empty until it is erased.         *)
Draining(side, i) ==
  /\ call.op \in {"delete_order", "clear_level"}
  /\ call.side = side
  /\ call.it = i

(* Every level's FIFO is a proper doubly linked list: it is not empty, head *)
(* and tail are its ends, prev is the inverse of next.  rest, pop_front,    *)
(* unlink and the collapsing set_level each maintain only their part of it. *)
ListsLinked ==
  Usable => \A side \in Sides : \A i \in DOMAIN book.levels[side] :
    LET lvl  == book.levels[side][i]
        fifo == Fifo(book, lvl)
        node(k) == book.pool.nodes[fifo[k]]
    IN  IF fifo = <<>>
          THEN Draining(side, i) /\ lvl.tail = kNull
          ELSE /\ lvl.tail = Last(fifo)
               /\ \A k \in DOMAIN fifo :
                    /\ node(k).prev = IF k = 1 THEN kNull ELSE fifo[k - 1]
                    /\ node(k).next = IF k = Len(fifo) THEN kNull ELSE fifo[k + 1]

(* The slots that hold the orders of a level.                              *)
Queued(side, i) == ToSet(Fifo(book, book.levels[side][i]))

(* The slots that hold an order of some level.                              *)
Resting ==
  {slot \in DOMAIN book.pool.nodes :
     \E side \in Sides : \E i \in DOMAIN book.levels[side] : slot \in Queued(side, i)}

(* Every slot of the pool is either free or in exactly one level's FIFO,    *)
(* once: no slot leaks, none is freed twice, no two lists share a node.     *)
SlotsPartitioned ==
  Usable =>
    /\ IsInjective(book.pool.free_list)
    /\ LiveNodes(book.pool) = Resting
    /\ \A side \in Sides : \A i \in DOMAIN book.levels[side] :
         /\ IsInjective(Fifo(book, book.levels[side][i]))
         /\ Queued(side, i) \subseteq DOMAIN book.pool.nodes
         /\ \A other \in Sides : \A j \in DOMAIN book.levels[other] :
              Queued(side, i) \cap Queued(other, j) # {} => other = side /\ j = i

VolumesOf(b, fifo) == [k \in DOMAIN fifo |-> b.pool.nodes[fifo[k]].value.volume]

(* The running sums of s, and the last of them.                             *)
Sums(s) ==
  LET sum[k \in 0 .. Len(s)] == IF k = 0 THEN 0 ELSE sum[k - 1] + s[k]
  IN  sum
SumSeq(s) == Sums(s)[Len(s)]

(* The cached aggregate of every level is the sum of its resting orders,    *)
(* each of which has volume left.  volume_at_price and fill-or-kill read    *)
(* the cache, never the orders.  (set_level erases the level it pops with   *)
(* its aggregate.)                                                          *)
TotalsExact ==
  Usable => \A side \in Sides : \A i \in DOMAIN book.levels[side] :
    ~(call.op = "clear_level" /\ Draining(side, i)) =>
    LET lvl     == book.levels[side][i]
        volumes == VolumesOf(book, Fifo(book, lvl))
    IN  /\ lvl.total_volume = SumSeq(volumes)
        /\ \A k \in DOMAIN volumes : volumes[k] > 0

(* Every resting identified order is found by its id at the side, price and *)
(* node where it rests: the order a cancel_order(id) is about can be        *)
(* cancelled until it is filled (order_book.hpp, cancel_order).             *)
Cancellable ==
  Usable => \A side \in Sides : \A i \in DOMAIN book.levels[side] :
    LET lvl == book.levels[side][i]
    IN  \A n \in ToSet(Fifo(book, lvl)) :
          LET id == book.pool.nodes[n].value.id
          IN  id # kAnonymous =>
                /\ id \in DOMAIN book.index
                /\ book.index[id] = [side |-> side, price |-> lvl.price, node |-> n]

(* The index holds no stale entry: what it points at is a live node that    *)
(* carries the id ("No-op if id is unknown or already fully filled").       *)
IndexLive ==
  Usable => \A id \in DOMAIN book.index :
    /\ book.index[id].node \in LiveNodes(book.pool)
    /\ book.pool.nodes[book.index[id].node].value.id = id

(* A book built by matching alone is never crossed: every bid is below      *)
(* every ask, in the middle of a match too.                                 *)
NeverCrossed ==
  \A i \in DOMAIN book.levels["BID"], j \in DOMAIN book.levels["ASK"] :
    book.levels["BID"][i].price < book.levels["ASK"][j].price

(* Fill-or-kill executes fully or not at all: once accepted there is always *)
(* a crossing order left to trade with until the whole volume is filled.    *)
FillOrKillFills ==
  call.op = "match" /\ call.order.type = "FILL_OR_KILL" /\ call.volume > 0
    => Crossing

(* Executions never trade through the book: each prints within the limit,   *)
(* none at a better price than an earlier one, and together with what is    *)
(* left they account for the whole order.                                   *)
TradesBestFirst ==
  call.op = "match" =>
    /\ \A i \in DOMAIN call.trades :
         /\ call.trades[i].volume > 0
         /\ ~Better(opposed(call.order.side),
                    call.order.price, call.trades[i].price)
         /\ \A j \in 1 .. i : ~Better(opposed(call.order.side),
                                     call.trades[i].price, call.trades[j].price)
    /\ call.volume + SumSeq([i \in DOMAIN call.trades |-> call.trades[i].volume])
         = call.order.volume

(* The only assertion that can stop the program is the pool's, and only     *)
(* with Capacity orders really resting: no slot was lost on the way.        *)
AbortsOnlyWhenFull ==
  call = Aborted => Cardinality(Resting) = Capacity

(* Every operation returns or ends the program: none of the loops spins.    *)
CallsReturn == call.op # "idle" ~> call.op \in {"idle", "aborted"}

=============================================================================
