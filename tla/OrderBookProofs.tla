-------------------------- MODULE OrderBookProofs --------------------------
(***************************************************************************)
(* For every capacity, every set of prices, volumes, ids and orders: the   *)
(* order book follows no null link and no index out of range (TypeOK), its *)
(* sides stay strictly sorted (SidesSorted), and a book built by matching  *)
(* is never crossed (NeverCrossed).  The rest of the module is about the   *)
(* linked lists of the levels: the layout of the slots of the pool into    *)
(* queues and a free list, what every member function does to it and to    *)
(* the aggregates and the index that agree with it, and what is left of it *)
(* while set_level collapses a level.                                      *)
(***************************************************************************)
EXTENDS OrderBook, SequenceTheorems, InductionLemmas

USE DEF null_index, kNull

-----------------------------------------------------------------------------
(* Sequences                                                                *)

(* Removing an element from a sequence (levels.erase).                      *)
LEMMA RemoveAtProperties ==
  ASSUME NEW S, NEW s \in Seq(S), NEW i \in 1 .. Len(s)
  PROVE  /\ RemoveAt(s, i) \in Seq(S)
         /\ Len(RemoveAt(s, i)) = Len(s) - 1
         /\ \A j \in 1 .. Len(s) - 1 :
              RemoveAt(s, i)[j] = IF j < i THEN s[j] ELSE s[j + 1]
<1>0. Len(s) \in Nat /\ i \in Nat
  OBVIOUS
<1> DEFINE a == SubSeq(s, 1, i - 1)
           b == SubSeq(s, i + 1, Len(s))
<1>1. a \in Seq(S) /\ Len(a) = i - 1 /\ \A j \in 1 .. i - 1 : a[j] = s[j]
  OBVIOUS
<1>2. b \in Seq(S) /\ Len(b) = Len(s) - i /\ \A j \in 1 .. Len(s) - i : b[j] = s[i + j]
  OBVIOUS
<1> HIDE DEF a, b
<1>3. /\ a \o b \in Seq(S) /\ Len(a \o b) = Len(s) - 1
      /\ \A j \in 1 .. Len(s) - 1 : (a \o b)[j] = IF j <= Len(a) THEN a[j] ELSE b[j - Len(a)]
  <2>1. /\ a \o b \in Seq(S) /\ Len(a \o b) = Len(a) + Len(b)
        /\ \A j \in 1 .. Len(a) + Len(b) :
             (a \o b)[j] = IF j <= Len(a) THEN a[j] ELSE b[j - Len(a)]
    BY <1>1, <1>2, ConcatProperties
  <2>2. Len(a) + Len(b) = Len(s) - 1
    BY <1>0, <1>1, <1>2
  <2> QED BY <2>1, <2>2
<1>4. RemoveAt(s, i) = a \o b
  BY DEF RemoveAt, a, b
<1>5. ASSUME NEW j \in 1 .. Len(s) - 1
      PROVE  (a \o b)[j] = IF j < i THEN s[j] ELSE s[j + 1]
  <2>1. CASE j < i
    BY <1>0, <1>1, <1>3, <2>1
  <2>2. CASE j >= i
    <3>1. /\ j - Len(a) \in 1 .. Len(s) - i /\ i + (j - Len(a)) = j + 1
          /\ ~(j <= Len(a))
      BY <1>0, <1>1, <2>2
    <3>2. (a \o b)[j] = b[j - Len(a)]
      BY <1>3, <3>1
    <3>3. b[j - Len(a)] = s[j + 1]
      BY <1>2, <3>1
    <3>4. ~(j < i)
      BY <1>0, <2>2
    <3> QED BY <3>2, <3>3, <3>4
  <2>3. j < i \/ j >= i
    BY <1>0
  <2> QED BY <2>1, <2>2, <2>3
<1> QED BY <1>3, <1>4, <1>5

(* r is s with e inserted before position i.                                *)
IsInsertion(r, s, i, e) ==
  /\ Len(r) = Len(s) + 1
  /\ \A j \in 1 .. Len(s) + 1 :
       r[j] = IF j < i THEN s[j] ELSE IF j = i THEN e ELSE s[j - 1]

(* Inserting an element into a sequence (rest, set_level: levels.emplace).  *)
LEMMA InsertAtProperties ==
  ASSUME NEW S, NEW s \in Seq(S), NEW i \in 1 .. Len(s) + 1, NEW e \in S
  PROVE  /\ InsertAt(s, i, e) \in Seq(S)
         /\ IsInsertion(InsertAt(s, i, e), s, i, e)
<1>0. Len(s) \in Nat /\ i \in Nat
  OBVIOUS
<1> DEFINE a == SubSeq(s, 1, i - 1)
           b == SubSeq(s, i, Len(s))
           c == a \o <<e>>
<1>1. a \in Seq(S) /\ Len(a) = i - 1 /\ \A j \in 1 .. i - 1 : a[j] = s[j]
  OBVIOUS
<1>2. /\ b \in Seq(S) /\ Len(b) = Len(s) - i + 1
      /\ \A j \in 1 .. Len(s) - i + 1 : b[j] = s[i + j - 1]
  OBVIOUS
<1> HIDE DEF a, b
<1>3. c \in Seq(S) /\ Len(c) = i /\ c[i] = e /\ \A j \in 1 .. i - 1 : c[j] = a[j]
  BY <1>1
<1> HIDE DEF c
<1>4. /\ c \o b \in Seq(S) /\ Len(c \o b) = Len(s) + 1
      /\ \A j \in 1 .. Len(s) + 1 : (c \o b)[j] = IF j <= i THEN c[j] ELSE b[j - i]
  BY <1>2, <1>3
<1>5. InsertAt(s, i, e) = c \o b
  BY DEF InsertAt, a, b, c
<1>6. ASSUME NEW j \in 1 .. Len(s) + 1
      PROVE  (c \o b)[j] = IF j < i THEN s[j] ELSE IF j = i THEN e ELSE s[j - 1]
  <2>1. CASE j <= i
    BY <1>1, <1>3, <1>4, <2>1
  <2>2. CASE j > i
    <3>1. j - i \in 1 .. Len(s) - i + 1 /\ i + (j - i) - 1 = j - 1
      BY <2>2
    <3> QED BY <1>2, <1>4, <2>2, <3>1
  <2>3. j <= i \/ j > i
    BY <1>0
  <2> QED BY <2>1, <2>2, <2>3
<1> QED BY <1>4, <1>5, <1>6 DEF IsInsertion

(* Overwriting one element of a sequence.                                   *)
LEMMA ReplaceProperties ==
  ASSUME NEW S, NEW s \in Seq(S), NEW i \in 1 .. Len(s), NEW e \in S
  PROVE  /\ [s EXCEPT ![i] = e] \in Seq(S)
         /\ Len([s EXCEPT ![i] = e]) = Len(s)
         /\ \A j \in 1 .. Len(s) : [s EXCEPT ![i] = e][j] = IF j = i THEN e ELSE s[j]
  OBVIOUS

(* A sequence over a set is one over any larger set.                        *)
LEMMA SeqWider ==
  ASSUME NEW S, NEW T, S \subseteq T, NEW s \in Seq(S)
  PROVE  s \in Seq(T)
  OBVIOUS

(* The two halves of free_list_.back() and pop_back().                      *)
LEMMA LastFrontProperties ==
  ASSUME NEW S, NEW s \in Seq(S), s # <<>>
  PROVE  Last(s) \in S /\ Front(s) \in Seq(S)
  BY DEF Last, Front

-----------------------------------------------------------------------------
(* The pool                                                                 *)

PoolOK(p) ==
  /\ p = [nodes |-> p.nodes, free_list |-> p.free_list]
  /\ p.nodes \in Seq(Node(RestingOrder, 0 .. Len(p.nodes)))
  /\ Len(p.nodes) <= Capacity
  /\ p.free_list \in Seq(1 .. Len(p.nodes))

(* Assigning to a live slot's fields keeps the pool well formed.            *)
LEMMA SetNextOK ==
  ASSUME NEW p, PoolOK(p), NEW i \in 1 .. Len(p.nodes), NEW n \in 0 .. Len(p.nodes)
  PROVE  PoolOK(set_next(p, i, n)) /\ Len(set_next(p, i, n).nodes) = Len(p.nodes)
<1>0. p.nodes[i] \in Node(RestingOrder, 0 .. Len(p.nodes))
  BY DEF PoolOK
<1>1. [p.nodes[i] EXCEPT !.next = n] \in Node(RestingOrder, 0 .. Len(p.nodes))
  BY <1>0 DEF Node
<1> QED BY <1>1, ReplaceProperties DEF PoolOK, set_next

(* The same for the prev link.                                              *)
LEMMA SetPrevOK ==
  ASSUME NEW p, PoolOK(p), NEW i \in 1 .. Len(p.nodes), NEW n \in 0 .. Len(p.nodes)
  PROVE  PoolOK(set_prev(p, i, n)) /\ Len(set_prev(p, i, n).nodes) = Len(p.nodes)
<1>0. p.nodes[i] \in Node(RestingOrder, 0 .. Len(p.nodes))
  BY DEF PoolOK
<1>1. [p.nodes[i] EXCEPT !.prev = n] \in Node(RestingOrder, 0 .. Len(p.nodes))
  BY <1>0 DEF Node
<1> QED BY <1>1, ReplaceProperties DEF PoolOK, set_prev

(* The same for the order a node holds.                                     *)
LEMMA SetValueOK ==
  ASSUME NEW p, PoolOK(p), NEW i \in 1 .. Len(p.nodes), NEW v \in RestingOrder
  PROVE  PoolOK(set_value(p, i, v)) /\ Len(set_value(p, i, v).nodes) = Len(p.nodes)
<1>0. p.nodes[i] \in Node(RestingOrder, 0 .. Len(p.nodes))
  BY DEF PoolOK
<1>1. [p.nodes[i] EXCEPT !.value = v] \in Node(RestingOrder, 0 .. Len(p.nodes))
  BY <1>0 DEF Node
<1> QED BY <1>1, ReplaceProperties DEF PoolOK, set_value

(* Returning a slot keeps the pool well formed.                             *)
LEMMA DeallocateOK ==
  ASSUME NEW p, PoolOK(p), NEW i \in 1 .. Len(p.nodes)
  PROVE  PoolOK(deallocate(p, i)) /\ Len(deallocate(p, i).nodes) = Len(p.nodes)
  BY DEF PoolOK, deallocate, Node

(* allocate returns a slot of the pool it leaves behind, which has not      *)
(* shrunk and still fits the capacity.                                      *)
LEMMA AllocateOK ==
  ASSUME NEW p, PoolOK(p), ~Exhausted(p), NEW v \in RestingOrder
  PROVE  /\ PoolOK(allocate(p, v))
         /\ AllocatedIndex(p) \in 1 .. Len(allocate(p, v).nodes)
         /\ Len(p.nodes) \in Nat
         /\ Len(allocate(p, v).nodes) \in Nat
         /\ Len(p.nodes) <= Len(allocate(p, v).nodes)
<1> DEFINE n == Len(p.nodes)
           node == [value |-> v, next |-> 0, prev |-> 0]
<1>0. n \in Nat
  BY DEF PoolOK
<1>1. CASE p.free_list # <<>>
  <2>1. Last(p.free_list) \in 1 .. n /\ Front(p.free_list) \in Seq(1 .. n)
    BY <1>1, LastFrontProperties DEF PoolOK
  <2>2. node \in Node(RestingOrder, 0 .. n)
    BY <1>0 DEF Node
  <2> QED BY <1>0, <1>1, <2>1, <2>2 DEF PoolOK, allocate, AllocatedIndex
<1>2. CASE p.free_list = <<>>
  <2>1. allocate(p, v) = [nodes |-> Append(p.nodes, node), free_list |-> p.free_list]
    BY <1>2 DEF allocate
  <2>2. /\ p.nodes \in Seq(Node(RestingOrder, 0 .. n + 1))
        /\ node \in Node(RestingOrder, 0 .. n + 1)
        /\ p.free_list \in Seq(1 .. n + 1)
    <3>1. Node(RestingOrder, 0 .. n) \subseteq Node(RestingOrder, 0 .. n + 1)
      BY <1>0 DEF Node
    <3>2. p.nodes \in Seq(Node(RestingOrder, 0 .. n + 1))
      BY <3>1, SeqWider DEF PoolOK
    <3>3. node \in Node(RestingOrder, 0 .. n + 1)
      BY <1>0 DEF Node
    <3> QED BY <1>2, <3>2, <3>3
  <2>3. /\ Append(p.nodes, node) \in Seq(Node(RestingOrder, 0 .. n + 1))
        /\ Len(Append(p.nodes, node)) = n + 1
    BY <2>2
  <2>4. n < Capacity
    BY <1>0, <1>2, CapacityAssumption DEF Exhausted
  <2> QED BY <1>0, <1>2, <2>1, <2>2, <2>3, <2>4, CapacityAssumption
          DEF PoolOK, AllocatedIndex
<1> QED BY <1>1, <1>2

-----------------------------------------------------------------------------
(* The book                                                                 *)

LevelType(n) == [price : Prices, total_volume : Int, head : 0 .. n, tail : 0 .. n]
LocationType(n) == [side : Sides, price : Prices, node : 1 .. n]

LevelsOK(levels, n) == levels \in [Sides -> Seq(LevelType(n))]

IndexOK(index, n) ==
  /\ DOMAIN index \subseteq OrderIds \ {kAnonymous}
  /\ \A id \in DOMAIN index : index[id] \in LocationType(n)

(* BookOK by parts, over the number of slots in the pool.                   *)
LEMMA BookParts ==
  ASSUME NEW b
  PROVE  BookOK(b) <=>
           /\ b = [pool |-> b.pool, levels |-> b.levels, index |-> b.index]
           /\ PoolOK(b.pool)
           /\ LevelsOK(b.levels, Len(b.pool.nodes))
           /\ IndexOK(b.index, Len(b.pool.nodes))
<1> DEFINE n == Len(b.pool.nodes)
<1>1. CASE b.pool.nodes \in Seq(Node(RestingOrder, 0 .. n))
  <2>1. n \in Nat
    BY <1>1
  <2>2. Index(b) = 0 .. n /\ Index(b) \ {kNull} = 1 .. n
    BY <2>1 DEF Index
  <2>3. Level(b) = LevelType(n) /\ Location(b) = LocationType(n)
    BY <2>2 DEF Level, LevelType, Location, LocationType
  <2> QED BY <2>2, <2>3 DEF BookOK, PoolOK, LevelsOK, IndexOK
<1>2. CASE ~(b.pool.nodes \in Seq(Node(RestingOrder, 0 .. n)))
  BY <1>2 DEF BookOK, PoolOK, Index
<1> QED BY <1>1, <1>2

(* The larger the pool, the more a level or a location may refer to.        *)
LEMMA TypesGrow ==
  ASSUME NEW m \in Nat, NEW n \in Nat, m <= n
  PROVE  /\ \A levels : LevelsOK(levels, m) => LevelsOK(levels, n)
         /\ \A index : IndexOK(index, m) => IndexOK(index, n)
<1>1. LevelType(m) \subseteq LevelType(n) /\ LocationType(m) \subseteq LocationType(n)
  BY DEF LevelType, LocationType
<1>2. Seq(LevelType(m)) \subseteq Seq(LevelType(n))
  BY <1>1, SeqWider
<1> QED BY <1>1, <1>2 DEF LevelsOK, IndexOK

(* Forgetting an id keeps the index well formed.                            *)
LEMMA EraseOK ==
  ASSUME NEW n \in Nat, NEW index, IndexOK(index, n), NEW id
  PROVE  IndexOK(Erase(index, id), n)
  BY DEF IndexOK, Erase

(* Recording the location of an order keeps the index well formed.          *)
LEMMA BindOK ==
  ASSUME NEW n \in Nat, NEW index, IndexOK(index, n), NEW id \in OrderIds,
         id # kAnonymous, NEW loc \in LocationType(n)
  PROVE  IndexOK(Bind(index, id, loc), n)
  BY DEF IndexOK, Bind

(* m is levels, except that the level at it of side may have new contents:  *)
(* same prices, same order.                                                 *)
SamePrices(levels, m, side, it) ==
  \A s \in Sides :
    /\ Len(m[s]) = Len(levels[s])
    /\ \A i \in 1 .. Len(levels[s]) :
         /\ m[s][i].price = levels[s][i].price
         /\ s # side \/ i # it => m[s][i] = levels[s][i]

PutLevel(levels, side, it, L) == [levels EXCEPT ![side][it] = L]

(* Overwriting a level with one of the same price keeps the sides well      *)
(* formed.                                                                  *)
LEMMA LevelUpdate ==
  ASSUME NEW n, NEW levels, LevelsOK(levels, n), NEW side \in Sides,
         NEW it \in 1 .. Len(levels[side]), NEW L \in LevelType(n),
         L.price = levels[side][it].price
  PROVE  /\ LevelsOK(PutLevel(levels, side, it, L), n)
         /\ SamePrices(levels, PutLevel(levels, side, it, L), side, it)
         /\ PutLevel(levels, side, it, L)[side][it] = L
<1> DEFINE T == LevelType(n)
           q == [levels[side] EXCEPT ![it] = L]
<1>0. levels \in [Sides -> Seq(T)]
  BY DEF LevelsOK
<1> HIDE DEF T
<1>1. /\ q \in Seq(T) /\ Len(q) = Len(levels[side])
      /\ \A j \in 1 .. Len(levels[side]) : q[j] = IF j = it THEN L ELSE levels[side][j]
  BY <1>0, ReplaceProperties DEF T
<1>2. PutLevel(levels, side, it, L) = [levels EXCEPT ![side] = q]
  BY <1>0 DEF PutLevel
<1> HIDE DEF q
<1>3. [levels EXCEPT ![side] = q] \in [Sides -> Seq(T)]
  BY <1>0, <1>1
<1>4. SamePrices(levels, [levels EXCEPT ![side] = q], side, it)
  BY <1>0, <1>1 DEF SamePrices
<1>5. [levels EXCEPT ![side] = q][side][it] = L
  BY <1>0, <1>1
<1> QED BY <1>2, <1>3, <1>4, <1>5 DEF LevelsOK, T

(* What the members of a well formed book are.                              *)
LEMMA BookFields ==
  ASSUME NEW b, BookOK(b)
  PROVE  /\ Len(b.pool.nodes) \in Nat
         /\ PoolOK(b.pool)
         /\ LevelsOK(b.levels, Len(b.pool.nodes))
         /\ IndexOK(b.index, Len(b.pool.nodes))
         /\ \A i \in 1 .. Len(b.pool.nodes) :
              /\ b.pool.nodes[i].next \in 0 .. Len(b.pool.nodes)
              /\ b.pool.nodes[i].prev \in 0 .. Len(b.pool.nodes)
              /\ b.pool.nodes[i].value \in RestingOrder
<1>1. /\ PoolOK(b.pool)
      /\ LevelsOK(b.levels, Len(b.pool.nodes))
      /\ IndexOK(b.index, Len(b.pool.nodes))
  BY BookParts
<1>2. Len(b.pool.nodes) \in Nat
  BY <1>1 DEF PoolOK
<1>3. ASSUME NEW i \in 1 .. Len(b.pool.nodes)
      PROVE  b.pool.nodes[i] \in Node(RestingOrder, 0 .. Len(b.pool.nodes))
  BY <1>1 DEF PoolOK
<1> QED BY <1>1, <1>2, <1>3 DEF Node

(* The fields of a level have their types.                                  *)
LEMMA LevelFields ==
  ASSUME NEW b, BookOK(b), NEW side \in Sides, NEW it \in 1 .. Len(b.levels[side])
  PROVE  /\ b.levels[side][it].price \in Prices
         /\ b.levels[side][it].total_volume \in Int
         /\ b.levels[side][it].head \in 0 .. Len(b.pool.nodes)
         /\ b.levels[side][it].tail \in 0 .. Len(b.pool.nodes)
<1>1. b.levels[side] \in Seq(LevelType(Len(b.pool.nodes)))
  BY BookFields DEF LevelsOK
<1>2. b.levels[side][it] \in LevelType(Len(b.pool.nodes))
  BY <1>1
<1> QED BY <1>2 DEF LevelType

Updated(b, side, it, p, total, head, tail, index) ==
  [pool   |-> p,
   levels |-> [b.levels EXCEPT ![side][it] =
                [price |-> b.levels[side][it].price, total_volume |-> total,
                 head |-> head, tail |-> tail]],
   index  |-> index]

(* c is well formed, has the slots and the prices of b, and differs from it *)
(* in no level but the one at it, whose head is now head.                   *)
UpdateOK(b, side, it, c, head) ==
  /\ BookOK(c)
  /\ SamePrices(b.levels, c.levels, side, it)
  /\ c.levels[side][it].head = head
  /\ Len(c.pool.nodes) = Len(b.pool.nodes)

(* A book whose pool kept its slots and one of whose levels was assigned.   *)
LEMMA BookUpdate ==
  ASSUME NEW b, BookOK(b), NEW side \in Sides, NEW it \in 1 .. Len(b.levels[side]),
         NEW p, PoolOK(p), Len(p.nodes) = Len(b.pool.nodes),
         NEW total \in Int, NEW head \in 0 .. Len(b.pool.nodes),
         NEW tail \in 0 .. Len(b.pool.nodes),
         NEW index, IndexOK(index, Len(b.pool.nodes))
  PROVE  UpdateOK(b, side, it, Updated(b, side, it, p, total, head, tail, index), head)
<1> DEFINE c == Updated(b, side, it, p, total, head, tail, index)
           n == Len(b.pool.nodes)
           L == [price |-> b.levels[side][it].price, total_volume |-> total,
                 head |-> head, tail |-> tail]
<1>1. L \in LevelType(n) /\ L.price = b.levels[side][it].price
  BY LevelFields DEF LevelType
<1>2. LevelsOK(b.levels, n)
  BY BookFields
<1> HIDE DEF L, n, c
<1>3. /\ LevelsOK(PutLevel(b.levels, side, it, L), n)
      /\ SamePrices(b.levels, PutLevel(b.levels, side, it, L), side, it)
      /\ PutLevel(b.levels, side, it, L)[side][it] = L
  BY <1>1, <1>2, LevelUpdate
<1>4. c = [pool |-> p, levels |-> PutLevel(b.levels, side, it, L), index |-> index]
  BY DEF L, PutLevel, Updated, c
<1>5. BookOK(c)
  <2>1. /\ c.pool = p /\ c.index = index
        /\ c.levels = PutLevel(b.levels, side, it, L)
        /\ c = [pool |-> c.pool, levels |-> c.levels, index |-> c.index]
    BY <1>4
  <2>2. /\ PoolOK(c.pool) /\ LevelsOK(c.levels, Len(c.pool.nodes))
        /\ IndexOK(c.index, Len(c.pool.nodes))
    BY <1>3, <2>1 DEF n
  <2> QED BY <2>1, <2>2, BookParts
<1>6. c.levels[side][it].head = head
  BY <1>3, <1>4 DEF L
<1>7. SamePrices(b.levels, c.levels, side, it) /\ Len(c.pool.nodes) = Len(b.pool.nodes)
  BY <1>3, <1>4
<1>8. UpdateOK(b, side, it, c, head)
  BY <1>5, <1>6, <1>7 DEF UpdateOK
<1> QED BY <1>8 DEF c

(* pop_front keeps the book well formed, its prices and its other levels.   *)
LEMMA PopFrontOK ==
  ASSUME NEW b, BookOK(b), NEW side \in Sides, NEW it \in 1 .. Len(b.levels[side]),
         b.levels[side][it].head # kNull
  PROVE  UpdateOK(b, side, it, pop_front(b, side, it),
                  b.pool.nodes[b.levels[side][it].head].next)
<1> DEFINE n == Len(b.pool.nodes)
           lvl == b.levels[side][it]
           next == b.pool.nodes[lvl.head].next
           p == IF next # kNull THEN set_prev(b.pool, next, kNull) ELSE b.pool
           index == unindex(b, lvl.head)
           tail == IF next # kNull THEN lvl.tail ELSE kNull
<1>1. n \in Nat /\ PoolOK(b.pool) /\ IndexOK(b.index, n)
  BY BookFields
<1>2. lvl.head \in 1 .. n /\ lvl.tail \in 0 .. n /\ lvl.total_volume \in Int
  BY <1>1, LevelFields
<1>3. next \in 0 .. n
  BY <1>2, BookFields
<1>4. tail \in 0 .. n
  BY <1>1, <1>2
<1>5. IndexOK(index, n)
  BY <1>1, EraseOK DEF unindex
<1>6. pop_front(b, side, it) =
        Updated(b, side, it, deallocate(p, lvl.head), lvl.total_volume, next, tail, index)
  BY DEF pop_front, Updated
<1> HIDE DEF next
<1>7. PoolOK(p) /\ Len(p.nodes) = n
  <2>1. CASE next # kNull
    <3>1. next \in 1 .. n /\ kNull \in 0 .. n
      BY <1>1, <1>3, <2>1
    <3> QED BY <1>1, <2>1, <3>1, SetPrevOK
  <2>2. CASE next = kNull
    BY <1>1, <2>2
  <2> QED BY <2>1, <2>2
<1> HIDE DEF p, index, tail
<1>8. PoolOK(deallocate(p, lvl.head)) /\ Len(deallocate(p, lvl.head).nodes) = n
  BY <1>2, <1>7, DeallocateOK
<1>9. UpdateOK(b, side, it, Updated(b, side, it, deallocate(p, lvl.head),
                                   lvl.total_volume, next, tail, index), next)
  <2> HIDE DEF lvl
  <2> QED BY <1>2, <1>3, <1>4, <1>5, <1>8, BookUpdate
<1> QED BY <1>6, <1>9 DEF next

(* Two updates in a row that keep the prices keep the prices.               *)
LEMMA SamePricesTransitive ==
  ASSUME NEW l, NEW m, NEW o, NEW side, NEW it,
         SamePrices(l, m, side, it), SamePrices(m, o, side, it)
  PROVE  SamePrices(l, o, side, it)
  BY DEF SamePrices

(* Two updates of the same level in a row are one update.                   *)
LEMMA UpdateTransitive ==
  ASSUME NEW b, NEW c, NEW d, NEW side, NEW it, NEW h, NEW g,
         UpdateOK(b, side, it, c, h), UpdateOK(c, side, it, d, g)
  PROVE  UpdateOK(b, side, it, d, g)
  BY SamePricesTransitive DEF UpdateOK

(* What a fill leaves of an order is an order.                              *)
LEMMA VolumeLeftOK ==
  ASSUME NEW r \in RestingOrder, NEW amount \in Int
  PROVE  [id |-> r.id, volume |-> r.volume - amount] \in RestingOrder
  BY DEF RestingOrder

(* take keeps the book well formed, its prices and its other levels.        *)
LEMMA TakeOK ==
  ASSUME NEW b, BookOK(b), NEW side \in Sides, NEW it \in 1 .. Len(b.levels[side]),
         b.levels[side][it].head # kNull, NEW amount \in Int
  PROVE  \E head : UpdateOK(b, side, it, take(b, side, it, amount), head)
<1> DEFINE n == Len(b.pool.nodes)
           lvl == b.levels[side][it]
           r == b.pool.nodes[lvl.head].value
           left == r.volume - amount
           p == set_value(b.pool, lvl.head, [id |-> r.id, volume |-> left])
           b1 == Updated(b, side, it, p, lvl.total_volume - amount,
                         lvl.head, lvl.tail, b.index)
<1>1. n \in Nat /\ PoolOK(b.pool) /\ IndexOK(b.index, n)
  BY BookFields
<1>2. /\ lvl.head \in 1 .. n /\ lvl.head \in 0 .. n /\ lvl.tail \in 0 .. n
      /\ lvl.total_volume \in Int
  BY <1>1, LevelFields
<1>3. r \in RestingOrder
  BY <1>2, BookFields
<1>4. [id |-> r.id, volume |-> left] \in RestingOrder
  BY <1>3, VolumeLeftOK
<1>5. take(b, side, it, amount) = IF left = 0 THEN pop_front(b1, side, it) ELSE b1
  BY DEF take, Updated
<1>6. lvl.total_volume - amount \in Int
  BY <1>2
<1>7. PoolOK(p) /\ Len(p.nodes) = n
  BY <1>1, <1>2, <1>4, SetValueOK
<1>8. UpdateOK(b, side, it, b1, lvl.head)
  <2> HIDE DEF p, lvl
  <2> QED BY <1>1, <1>2, <1>6, <1>7, BookUpdate
<1> HIDE DEF b1
<1>9. /\ BookOK(b1) /\ it \in 1 .. Len(b1.levels[side])
      /\ b1.levels[side][it].head # kNull
  BY <1>8 DEF UpdateOK, SamePrices
<1>10. PICK g : UpdateOK(b1, side, it, pop_front(b1, side, it), g)
  BY <1>9, PopFrontOK
<1> DEFINE d == pop_front(b1, side, it)
<1> HIDE DEF lvl, d
<1>11. UpdateOK(b, side, it, d, g)
  BY <1>8, <1>10, UpdateTransitive DEF d
<1> USE DEF d
<1> QED BY <1>5, <1>8, <1>11

(* unlink keeps the book well formed, its prices and its other levels.      *)
LEMMA UnlinkOK ==
  ASSUME NEW b, BookOK(b), NEW side \in Sides, NEW it \in 1 .. Len(b.levels[side]),
         NEW node \in 1 .. Len(b.pool.nodes)
  PROVE  /\ \E head : UpdateOK(b, side, it, unlink(b, side, it, node), head)
         /\ unlink(b, side, it, node).index = b.index
<1> DEFINE n == Len(b.pool.nodes)
           lvl == b.levels[side][it]
           prev == b.pool.nodes[node].prev
           next == b.pool.nodes[node].next
           p1 == IF prev # kNull THEN set_next(b.pool, prev, next) ELSE b.pool
           p2 == IF next # kNull THEN set_prev(p1, next, prev) ELSE p1
           head == IF prev # kNull THEN lvl.head ELSE next
           tail == IF next # kNull THEN lvl.tail ELSE prev
<1>1. n \in Nat /\ PoolOK(b.pool) /\ IndexOK(b.index, n)
  BY BookFields
<1>2. lvl.head \in 0 .. n /\ lvl.tail \in 0 .. n /\ lvl.total_volume \in Int
  BY LevelFields
<1>3. prev \in 0 .. n /\ next \in 0 .. n
  BY BookFields
<1>4. unlink(b, side, it, node) =
        Updated(b, side, it, p2, lvl.total_volume, head, tail, b.index)
  BY DEF unlink, Updated
<1>5. head \in 0 .. n /\ tail \in 0 .. n
  BY <1>2, <1>3
<1> HIDE DEF prev, next, head, tail
<1>6. PoolOK(p1) /\ Len(p1.nodes) = n
  <2>1. CASE prev # kNull
    <3>1. prev \in 1 .. n
      BY <1>1, <1>3, <2>1
    <3> QED BY <1>1, <1>3, <2>1, <3>1, SetNextOK
  <2>2. CASE prev = kNull
    BY <1>1, <2>2
  <2> QED BY <2>1, <2>2
<1> HIDE DEF p1
<1>7. PoolOK(p2) /\ Len(p2.nodes) = n
  <2>1. CASE next # kNull
    <3>1. next \in 1 .. Len(p1.nodes) /\ prev \in 0 .. Len(p1.nodes)
      BY <1>1, <1>3, <1>6, <2>1
    <3> QED BY <1>6, <2>1, <3>1, SetPrevOK
  <2>2. CASE next = kNull
    BY <1>6, <2>2
  <2> QED BY <2>1, <2>2
<1> HIDE DEF p2
<1>8. UpdateOK(b, side, it,
               Updated(b, side, it, p2, lvl.total_volume, head, tail, b.index), head)
  <2> HIDE DEF lvl
  <2> QED BY <1>1, <1>2, <1>5, <1>7, BookUpdate
<1>9. Updated(b, side, it, p2, lvl.total_volume, head, tail, b.index).index = b.index
  BY DEF Updated
<1> QED BY <1>4, <1>8, <1>9
-----------------------------------------------------------------------------
(* What the sides of a book promise                                         *)

Sorted(levels) == \A s \in Sides : SortedSide(levels[s], s)

Uncrossed(levels) ==
  \A i \in DOMAIN levels["BID"], j \in DOMAIN levels["ASK"] :
    levels["BID"][i].price < levels["ASK"][j].price

(* Every level has an order, but for the one at it of side.                 *)
OccupiedBut(levels, side, it) ==
  \A s \in Sides : \A i \in 1 .. Len(levels[s]) :
    s # side \/ i # it => levels[s][i].head # kNull

Occupied(levels) ==
  \A s \in Sides : \A i \in 1 .. Len(levels[s]) : levels[s][i].head # kNull

(* What well-formed sides say of each side, in the provers' terms.          *)
LEMMA LevelsFacts ==
  ASSUME NEW n, NEW levels, LevelsOK(levels, n), NEW s \in Sides
  PROVE  /\ Len(levels[s]) \in Nat
         /\ DOMAIN levels[s] = 1 .. Len(levels[s])
         /\ levels[s] \in Seq(LevelType(n))
         /\ \A i \in 1 .. Len(levels[s]) : levels[s][i].price \in Nat
<1>1. levels[s] \in Seq(LevelType(n))
  BY DEF LevelsOK
<1>2. \A i \in 1 .. Len(levels[s]) : levels[s][i] \in LevelType(n)
  BY <1>1
<1>3. \A i \in 1 .. Len(levels[s]) : levels[s][i].price \in Nat
  BY <1>2, BookAssumption DEF LevelType
<1> QED BY <1>1, <1>3

(* All three depend on no more than prices and heads.                       *)
LEMMA SamePricesKeep ==
  ASSUME NEW n, NEW l, NEW m, LevelsOK(l, n), LevelsOK(m, n),
         NEW side, NEW it, SamePrices(l, m, side, it)
  PROVE  /\ Sorted(l) => Sorted(m)
         /\ Uncrossed(l) => Uncrossed(m)
         /\ OccupiedBut(l, side, it) => OccupiedBut(m, side, it)
<1>1. /\ \A s \in Sides : DOMAIN l[s] = 1 .. Len(l[s])
      /\ \A s \in Sides : DOMAIN m[s] = 1 .. Len(m[s])
  BY LevelsFacts
<1>2. \A s \in Sides : DOMAIN m[s] = DOMAIN l[s]
  BY <1>1 DEF SamePrices
<1>3. \A s \in Sides : \A i \in DOMAIN l[s] : m[s][i].price = l[s][i].price
  BY <1>1 DEF SamePrices
<1>4. Sorted(l) => Sorted(m)
  BY <1>2, <1>3 DEF Sorted, SortedSide
<1>5. Uncrossed(l) => Uncrossed(m)
  <2>1. "BID" \in Sides /\ "ASK" \in Sides
    BY DEF Sides
  <2> QED BY <1>2, <1>3, <2>1 DEF Uncrossed
<1>6. OccupiedBut(l, side, it) => OccupiedBut(m, side, it)
  BY DEF SamePrices, OccupiedBut
<1> QED BY <1>4, <1>5, <1>6

(* levels without the level at it of side.                                  *)
Without(levels, side, it) == [levels EXCEPT ![side] = RemoveAt(levels[side], it)]

(* Erasing a level shifts the worse levels up and changes nothing else.     *)
LEMMA WithoutFacts ==
  ASSUME NEW n, NEW levels, LevelsOK(levels, n), NEW side \in Sides,
         NEW it \in 1 .. Len(levels[side])
  PROVE  /\ LevelsOK(Without(levels, side, it), n)
         /\ \A s \in Sides \ {side} : Without(levels, side, it)[s] = levels[s]
         /\ Len(Without(levels, side, it)[side]) = Len(levels[side]) - 1
         /\ \A j \in 1 .. Len(levels[side]) - 1 :
              Without(levels, side, it)[side][j] =
                IF j < it THEN levels[side][j] ELSE levels[side][j + 1]
<1> DEFINE T == LevelType(n)
           q == RemoveAt(levels[side], it)
<1>1. levels \in [Sides -> Seq(T)]
  BY DEF LevelsOK
<1>2. levels[side] \in Seq(T)
  BY <1>1
<1> HIDE DEF T
<1>3. /\ q \in Seq(T) /\ Len(q) = Len(levels[side]) - 1
      /\ \A j \in 1 .. Len(levels[side]) - 1 :
           q[j] = IF j < it THEN levels[side][j] ELSE levels[side][j + 1]
  BY <1>2, RemoveAtProperties
<1>4. Without(levels, side, it) = [levels EXCEPT ![side] = q]
  BY DEF Without
<1> HIDE DEF q
<1>5. /\ [levels EXCEPT ![side] = q] \in [Sides -> Seq(T)]
      /\ [levels EXCEPT ![side] = q][side] = q
      /\ \A s \in Sides \ {side} : [levels EXCEPT ![side] = q][s] = levels[s]
  BY <1>1, <1>3
<1>6. LevelsOK(Without(levels, side, it), n)
  BY <1>4, <1>5 DEF LevelsOK, T
<1> QED BY <1>3, <1>4, <1>5, <1>6

(* Erasing a level keeps the sides sorted and uncrossed, and may remove the *)
(* one empty level.                                                         *)
LEMMA WithoutKeeps ==
  ASSUME NEW n, NEW levels, LevelsOK(levels, n), NEW side \in Sides,
         NEW it \in 1 .. Len(levels[side])
  PROVE  /\ Sorted(levels) => Sorted(Without(levels, side, it))
         /\ Uncrossed(levels) => Uncrossed(Without(levels, side, it))
         /\ OccupiedBut(levels, side, it) => Occupied(Without(levels, side, it))
<1> DEFINE m == Without(levels, side, it)
           old(s, j) == IF s = side /\ j >= it THEN j + 1 ELSE j
<1>1. /\ LevelsOK(m, n)
      /\ \A s \in Sides \ {side} : m[s] = levels[s]
      /\ Len(m[side]) = Len(levels[side]) - 1
      /\ \A j \in 1 .. Len(levels[side]) - 1 :
           m[side][j] = IF j < it THEN levels[side][j] ELSE levels[side][j + 1]
  BY WithoutFacts
<1> HIDE DEF m
<1>2. /\ \A s \in Sides : Len(levels[s]) \in Nat /\ DOMAIN levels[s] = 1 .. Len(levels[s])
      /\ \A s \in Sides : Len(m[s]) \in Nat /\ DOMAIN m[s] = 1 .. Len(m[s])
  BY <1>1, LevelsFacts
<1>3. ASSUME NEW s \in Sides, NEW j \in 1 .. Len(m[s])
      PROVE  /\ old(s, j) \in 1 .. Len(levels[s])
             /\ s # side \/ old(s, j) # it
             /\ m[s][j] = levels[s][old(s, j)]
  <2>1. CASE s # side
    BY <1>1, <2>1
  <2>2. CASE s = side
    <3>1. j \in Nat /\ it \in Nat /\ j \in 1 .. Len(levels[side]) - 1
      BY <1>1, <2>2
    <3>2. m[side][j] = IF j < it THEN levels[side][j] ELSE levels[side][j + 1]
      BY <1>1, <3>1
    <3>3. j < it <=> ~(j >= it)
      BY <3>1
    <3> QED BY <1>2, <2>2, <3>1, <3>2, <3>3
  <2> QED BY <2>1, <2>2
<1>4. ASSUME NEW s \in Sides, NEW i \in 1 .. Len(m[s]), NEW j \in 1 .. Len(m[s]), i < j
      PROVE  old(s, i) < old(s, j)
  BY <1>2, <1>4
<1> HIDE DEF old
<1>5. Sorted(levels) => Sorted(m)
  <2> SUFFICES ASSUME Sorted(levels), NEW s \in Sides,
                      NEW i \in 1 .. Len(m[s]), NEW j \in 1 .. Len(m[s]), i < j
               PROVE  Better(s, m[s][i].price, m[s][j].price)
    BY <1>2 DEF Sorted, SortedSide
  <2>1. old(s, i) < old(s, j)
    BY <1>4
  <2>2. /\ old(s, i) \in DOMAIN levels[s] /\ m[s][i] = levels[s][old(s, i)]
        /\ old(s, j) \in DOMAIN levels[s] /\ m[s][j] = levels[s][old(s, j)]
    BY <1>2, <1>3
  <2> QED BY <2>1, <2>2 DEF Sorted, SortedSide
<1>6. Uncrossed(levels) => Uncrossed(m)
  <2>1. "BID" \in Sides /\ "ASK" \in Sides
    BY DEF Sides
  <2> SUFFICES ASSUME Uncrossed(levels),
                      NEW i \in 1 .. Len(m["BID"]), NEW j \in 1 .. Len(m["ASK"])
               PROVE  m["BID"][i].price < m["ASK"][j].price
    BY <1>2, <2>1 DEF Uncrossed
  <2>2. /\ old("BID", i) \in DOMAIN levels["BID"]
        /\ m["BID"][i] = levels["BID"][old("BID", i)]
    BY <1>2, <1>3, <2>1
  <2>3. /\ old("ASK", j) \in DOMAIN levels["ASK"]
        /\ m["ASK"][j] = levels["ASK"][old("ASK", j)]
    BY <1>2, <1>3, <2>1
  <2> QED BY <2>2, <2>3 DEF Uncrossed
<1>7. OccupiedBut(levels, side, it) => Occupied(m)
  BY <1>3 DEF OccupiedBut, Occupied
<1> QED BY <1>5, <1>6, <1>7 DEF m

(* c keeps what the sides of b promise, with every level occupied.          *)
Keeps(b, side, it, c) ==
  /\ BookOK(c)
  /\ Len(c.pool.nodes) = Len(b.pool.nodes)
  /\ Sorted(b.levels) => Sorted(c.levels)
  /\ Uncrossed(b.levels) => Uncrossed(c.levels)
  /\ OccupiedBut(b.levels, side, it) => Occupied(c.levels)

(* erase_if_empty keeps everything and leaves no empty level.               *)
LEMMA EraseIfEmptyOK ==
  ASSUME NEW b, BookOK(b), NEW side \in Sides, NEW it \in 1 .. Len(b.levels[side])
  PROVE  Keeps(b, side, it, erase_if_empty(b, side, it))
<1> DEFINE n == Len(b.pool.nodes)
           c == erase_if_empty(b, side, it)
<1>1. PoolOK(b.pool) /\ LevelsOK(b.levels, n) /\ IndexOK(b.index, n)
  BY BookFields
<1>2. CASE b.levels[side][it].head = kNull
  <2>1. c = [pool |-> b.pool, levels |-> Without(b.levels, side, it), index |-> b.index]
    BY <1>2 DEF erase_if_empty, Without
  <2> HIDE DEF c
  <2>2. LevelsOK(Without(b.levels, side, it), n)
    BY <1>1, WithoutFacts
  <2>3. /\ c.pool = b.pool /\ c.levels = Without(b.levels, side, it) /\ c.index = b.index
        /\ c = [pool |-> c.pool, levels |-> c.levels, index |-> c.index]
    BY <2>1
  <2>4. BookOK(c)
    BY <1>1, <2>2, <2>3, BookParts
  <2>5. /\ Sorted(b.levels) => Sorted(c.levels)
        /\ Uncrossed(b.levels) => Uncrossed(c.levels)
        /\ OccupiedBut(b.levels, side, it) => Occupied(c.levels)
    BY <1>1, <2>3, WithoutKeeps
  <2>6. Keeps(b, side, it, c)
    BY <2>3, <2>4, <2>5 DEF Keeps
  <2> QED BY <2>6 DEF c
<1>3. CASE b.levels[side][it].head # kNull
  <2>1. c = b
    BY <1>3 DEF erase_if_empty
  <2>2. OccupiedBut(b.levels, side, it) => Occupied(b.levels)
    BY <1>3 DEF OccupiedBut, Occupied
  <2> QED BY <2>1, <2>2 DEF Keeps
<1> QED BY <1>2, <1>3
(* An update of the level at it of a book b, seen from b.                   *)
LEMMA UpdateKeeps ==
  ASSUME NEW b, BookOK(b), NEW side \in Sides, NEW it \in 1 .. Len(b.levels[side]),
         NEW c, NEW head, UpdateOK(b, side, it, c, head)
  PROVE  /\ BookOK(c) /\ it \in 1 .. Len(c.levels[side])
         /\ Len(c.pool.nodes) = Len(b.pool.nodes)
         /\ Len(c.levels[side]) = Len(b.levels[side])
         /\ Sorted(b.levels) => Sorted(c.levels)
         /\ Uncrossed(b.levels) => Uncrossed(c.levels)
         /\ OccupiedBut(b.levels, side, it) => OccupiedBut(c.levels, side, it)
         /\ OccupiedBut(b.levels, side, it) /\ head # kNull => Occupied(c.levels)
<1>1. BookOK(c) /\ SamePrices(b.levels, c.levels, side, it)
  BY DEF UpdateOK
<1>2. Len(c.pool.nodes) = Len(b.pool.nodes) /\ c.levels[side][it].head = head
  BY DEF UpdateOK
<1>3. LevelsOK(b.levels, Len(b.pool.nodes)) /\ LevelsOK(c.levels, Len(b.pool.nodes))
  BY <1>1, <1>2, BookFields
<1>4. Len(c.levels[side]) = Len(b.levels[side])
  BY <1>1 DEF SamePrices
<1>5. /\ Sorted(b.levels) => Sorted(c.levels)
      /\ Uncrossed(b.levels) => Uncrossed(c.levels)
      /\ OccupiedBut(b.levels, side, it) => OccupiedBut(c.levels, side, it)
  BY <1>1, <1>3, SamePricesKeep
<1>6. OccupiedBut(c.levels, side, it) /\ head # kNull => Occupied(c.levels)
  BY <1>2 DEF OccupiedBut, Occupied
<1> QED BY <1>1, <1>2, <1>4, <1>5, <1>6

(* So does an update of a level followed by erase_if_empty: the end of      *)
(* match, cancel_order and delete_order.                                    *)
LEMMA UpdateThenErase ==
  ASSUME NEW b, BookOK(b), NEW side \in Sides, NEW it \in 1 .. Len(b.levels[side]),
         NEW c, NEW head, UpdateOK(b, side, it, c, head)
  PROVE  Keeps(b, side, it, erase_if_empty(c, side, it))
<1>1. /\ BookOK(c) /\ it \in 1 .. Len(c.levels[side])
      /\ Len(c.pool.nodes) = Len(b.pool.nodes)
      /\ Sorted(b.levels) => Sorted(c.levels)
      /\ Uncrossed(b.levels) => Uncrossed(c.levels)
      /\ OccupiedBut(b.levels, side, it) => OccupiedBut(c.levels, side, it)
  BY UpdateKeeps
<1>2. Keeps(c, side, it, erase_if_empty(c, side, it))
  BY <1>1, EraseIfEmptyOK
<1> QED BY <1>1, <1>2 DEF Keeps

(* cancel_order of an indexed order keeps the book well formed, and what    *)
(* its sides promise.                                                       *)
LEMMA CancelledOK ==
  ASSUME NEW b, BookOK(b), NEW id \in DOMAIN b.index, NEW it,
         it \in 1 .. Len(b.levels[b.index[id].side])
  PROVE  Keeps(b, b.index[id].side, it, cancelled(b, it, id))
<1> DEFINE n == Len(b.pool.nodes)
           side == b.index[id].side
           node == b.index[id].node
           remaining == b.pool.nodes[node].value.volume
           b1 == unlink(b, side, it, node)
           lvl == b1.levels[side][it]
           b2 == Updated(b1, side, it, deallocate(b1.pool, node),
                         lvl.total_volume - remaining, lvl.head, lvl.tail,
                         Erase(b1.index, id))
<1>1. n \in Nat /\ IndexOK(b.index, n)
  BY BookFields
<1>2. side \in Sides /\ node \in 1 .. n
  BY <1>1 DEF IndexOK, LocationType
<1>3. remaining \in Int
  <2>1. b.pool.nodes[node].value \in RestingOrder
    BY <1>2, BookFields
  <2> QED BY <2>1 DEF RestingOrder
<1>4. cancelled(b, it, id) = erase_if_empty(b2, side, it)
  BY DEF cancelled, Updated
<1> HIDE DEF side, node, remaining
<1>5. PICK h : UpdateOK(b, side, it, b1, h)
  BY <1>2, UnlinkOK DEF side
<1>6. b1.index = b.index
  BY <1>2, UnlinkOK DEF side
<1> HIDE DEF b1
<1>7. BookOK(b1) /\ Len(b1.pool.nodes) = n /\ it \in 1 .. Len(b1.levels[side])
  BY <1>2, <1>5 DEF UpdateOK, SamePrices, side
<1>8. /\ PoolOK(deallocate(b1.pool, node))
      /\ Len(deallocate(b1.pool, node).nodes) = Len(b1.pool.nodes)
  <2>1. PoolOK(b1.pool)
    BY <1>7, BookFields
  <2> QED BY <1>2, <1>7, <2>1, DeallocateOK
<1>9. lvl.head \in 0 .. n /\ lvl.tail \in 0 .. n /\ lvl.total_volume - remaining \in Int
  BY <1>2, <1>3, <1>7, LevelFields
<1>10. IndexOK(Erase(b1.index, id), n)
  BY <1>1, <1>6, EraseOK
<1>11. UpdateOK(b1, side, it, b2, lvl.head)
  <2> HIDE DEF lvl
  <2> QED BY <1>2, <1>7, <1>8, <1>9, <1>10, BookUpdate
<1> HIDE DEF b2, lvl
<1>12. UpdateOK(b, side, it, b2, lvl.head)
  BY <1>5, <1>11, UpdateTransitive
<1>13. Keeps(b, side, it, erase_if_empty(b2, side, it))
  BY <1>2, <1>12, UpdateThenErase DEF side
<1> QED BY <1>4, <1>13 DEF side
(* The comparator of a side is transitive.                                  *)
LEMMA BetterTransitive ==
  ASSUME NEW s \in Sides, NEW p \in Nat, NEW q \in Nat, NEW r \in Nat
  PROVE  /\ Better(s, p, q) /\ Better(s, q, r) => Better(s, p, r)
         /\ ~Better(s, q, p) /\ p # q => Better(s, p, q)
  BY DEF Better, Sides

NewLevel(price) == [price |-> price, total_volume |-> 0, head |-> kNull, tail |-> kNull]

(* The side rest appends to: the level at it exists or has been inserted.   *)
WithLevel(q, it, price) ==
  IF Exists(q, it, price) THEN q ELSE InsertAt(q, it, NewLevel(price))

(* Its level at it has the price; the side is still sorted; an empty level  *)
(* can only be the new one, which has no tail.                              *)
WithLevelOK(q, r, side, it, price, n) ==
  /\ r \in Seq(LevelType(n)) /\ Len(r) \in Nat
  /\ it \in 1 .. Len(r)
  /\ r[it].price = price
  /\ \A i \in 1 .. Len(r), j \in 1 .. Len(r) :
       i < j => Better(side, r[i].price, r[j].price)
  /\ \A i \in 1 .. Len(r) : r[i].head = kNull => i = it /\ r[i].tail = kNull
  /\ \A i \in 1 .. Len(r) :
       r[i].price = price \/ \E j \in 1 .. Len(q) : r[i].price = q[j].price

(* A level inserted where find_level points keeps the side sorted (rest,    *)
(* set_level).                                                              *)
LEMMA FindLevelInserts ==
  ASSUME NEW n \in Nat, NEW q \in Seq(LevelType(n)), NEW side \in Sides,
         NEW price \in Prices, NEW it \in find_level(q, side, price),
         SortedSide(q, side), \A i \in 1 .. Len(q) : q[i].head # kNull
  PROVE  WithLevelOK(q, WithLevel(q, it, price), side, it, price, n)
<1> DEFINE r == WithLevel(q, it, price)
<1>0. /\ Len(q) \in Nat /\ DOMAIN q = 1 .. Len(q) /\ price \in Nat
      /\ \A i \in 1 .. Len(q) : q[i] \in LevelType(n)
  BY BookAssumption
<1>1. \A i \in 1 .. Len(q) : q[i].price \in Nat
  BY <1>0, BookAssumption DEF LevelType
<1>2. /\ it \in 1 .. Len(q) + 1 /\ it \in Nat
      /\ \A j \in 1 .. it - 1 : Better(side, q[j].price, price)
      /\ \A j \in it .. Len(q) : ~Better(side, q[j].price, price)
  BY DEF find_level
<1>3. \A i \in 1 .. Len(q), j \in 1 .. Len(q) :
        i < j => Better(side, q[i].price, q[j].price)
  BY <1>0 DEF SortedSide
<1>4. CASE Exists(q, it, price)
  <2>1. r = q
    BY <1>4 DEF WithLevel
  <2>2. it \in 1 .. Len(q) /\ q[it].price = price
    BY <1>0, <1>2, <1>4 DEF Exists
  <2>3. WithLevelOK(q, q, side, it, price, n)
    BY <1>0, <1>3, <2>2 DEF WithLevelOK
  <2> QED BY <2>1, <2>3
<1>5. CASE ~Exists(q, it, price)
  <2> DEFINE e == NewLevel(price)
             old(j) == IF j < it THEN j ELSE j - 1
  <2>1. r = InsertAt(q, it, e)
    BY <1>5 DEF WithLevel
  <2>2. e \in LevelType(n) /\ e.price = price /\ e.head = kNull /\ e.tail = kNull
    BY DEF NewLevel, LevelType
  <2> HIDE DEF e, r
  <2>3. /\ r \in Seq(LevelType(n)) /\ Len(r) = Len(q) + 1
        /\ \A j \in 1 .. Len(q) + 1 :
             r[j] = IF j < it THEN q[j] ELSE IF j = it THEN e ELSE q[j - 1]
    <3> DEFINE T == LevelType(n)
    <3>1. q \in Seq(T) /\ e \in T /\ it \in 1 .. Len(q) + 1
      BY <1>2, <2>2
    <3> HIDE DEF T
    <3>2. /\ InsertAt(q, it, e) \in Seq(T)
          /\ IsInsertion(InsertAt(q, it, e), q, it, e)
      BY <3>1, InsertAtProperties, Zenon
    <3> QED BY <2>1, <3>2 DEF T, IsInsertion
  <2>4. Len(r) \in Nat /\ it \in 1 .. Len(r) /\ r[it] = e
    BY <1>0, <1>2, <2>3
  <2>5. ASSUME NEW j \in 1 .. Len(r), j # it
        PROVE  /\ old(j) \in 1 .. Len(q) /\ r[j] = q[old(j)]
               /\ j < it => old(j) \in 1 .. it - 1
               /\ j > it => old(j) \in it .. Len(q)
    <3>1. j \in Nat /\ j \in 1 .. Len(q) + 1
      BY <2>3
    <3>2. r[j] = IF j < it THEN q[j] ELSE q[j - 1]
      BY <2>3, <2>5, <3>1
    <3> QED BY <1>0, <1>2, <2>5, <3>1, <3>2
  <2>6. ASSUME NEW i \in 1 .. Len(r), NEW j \in 1 .. Len(r), i < j, i # it, j # it
        PROVE  old(i) < old(j)
    BY <1>2, <2>4, <2>6
  <2>7. \A j \in it .. Len(q) : Better(side, price, q[j].price)
    <3> SUFFICES ASSUME NEW j \in it .. Len(q)
                 PROVE  Better(side, price, q[j].price)
      OBVIOUS
    <3>1. /\ it \in 1 .. Len(q) /\ j \in 1 .. Len(q) /\ j \in Nat
          /\ it \in it .. Len(q)
      BY <1>0, <1>2
    <3>2. q[it].price # price
      BY <1>0, <1>5, <3>1 DEF Exists
    <3>3. Better(side, price, q[it].price)
      BY <1>0, <1>1, <1>2, <3>1, <3>2, BetterTransitive
    <3>4. CASE j = it
      BY <3>3, <3>4
    <3>5. CASE it < j
      <4>1. Better(side, q[it].price, q[j].price)
        BY <1>3, <3>1, <3>5
      <4> QED BY <1>0, <1>1, <3>1, <3>3, <4>1, BetterTransitive
    <3>6. j = it \/ it < j
      BY <3>1
    <3> QED BY <3>4, <3>5, <3>6
  <2> HIDE DEF old
  <2>8. ASSUME NEW i \in 1 .. Len(r), NEW j \in 1 .. Len(r), i < j
        PROVE  Better(side, r[i].price, r[j].price)
    <3>1. CASE i = it
      <4>1. j > it /\ j # it
        BY <3>1, <2>8, <2>4
      <4>2. old(j) \in it .. Len(q) /\ r[j] = q[old(j)]
        BY <2>5, <4>1
      <4> QED BY <2>2, <2>4, <2>7, <3>1, <4>2
    <3>2. CASE j = it
      <4>1. i < it /\ i # it
        BY <3>2, <2>8, <2>4
      <4>2. old(i) \in 1 .. it - 1 /\ r[i] = q[old(i)]
        BY <2>5, <4>1
      <4> QED BY <1>2, <2>2, <2>4, <3>2, <4>2
    <3>3. CASE i # it /\ j # it
      BY <1>3, <2>5, <2>6, <2>8, <3>3
    <3> QED BY <3>1, <3>2, <3>3
  <2>9. ASSUME NEW i \in 1 .. Len(r)
        PROVE  /\ r[i].head = kNull => i = it /\ r[i].tail = kNull
               /\ r[i].price = price \/ \E j \in 1 .. Len(q) : r[i].price = q[j].price
    <3>1. CASE i = it
      BY <2>2, <2>4, <3>1
    <3>2. CASE i # it
      BY <2>5, <3>2
    <3> QED BY <3>1, <3>2
  <2>10. WithLevelOK(q, r, side, it, price, n)
    BY <2>2, <2>3, <2>4, <2>8, <2>9 DEF WithLevelOK
  <2> QED BY <2>10 DEF r
<1> QED BY <1>4, <1>5
(* rest keeps the book well formed, sorted and occupied, touches no other   *)
(* side, and brings no price but the order's to its own.                    *)
LEMMA RestOK ==
  ASSUME NEW b, BookOK(b), ~Exhausted(b.pool), Sorted(b.levels), Occupied(b.levels),
         NEW id \in OrderIds, NEW side \in Sides, NEW price \in Prices,
         NEW volume \in Int, NEW it \in find_level(b.levels[side], side, price)
  PROVE  LET c == rest(b, it, id, side, price, volume) IN
         /\ BookOK(c) /\ Sorted(c.levels) /\ Occupied(c.levels)
         /\ \A s \in Sides \ {side} : c.levels[s] = b.levels[s]
         /\ \A i \in 1 .. Len(c.levels[side]) :
              \/ c.levels[side][i].price = price
              \/ \E j \in 1 .. Len(b.levels[side]) :
                   c.levels[side][i].price = b.levels[side][j].price
<1> DEFINE c == rest(b, it, id, side, price, volume)
           m == Len(b.pool.nodes)
           v == [id |-> id, volume |-> volume]
           pool == allocate(b.pool, v)
           n == Len(pool.nodes)
           node == AllocatedIndex(b.pool)
           r == WithLevel(b.levels[side], it, price)
           lvl == r[it]
           p == IF lvl.tail = kNull THEN pool
                ELSE set_prev(set_next(pool, lvl.tail, node), node, lvl.tail)
           L == [price |-> lvl.price, total_volume |-> lvl.total_volume + volume,
                 head |-> IF lvl.tail = kNull THEN node ELSE lvl.head, tail |-> node]
           t == [r EXCEPT ![it] = L]
           loc == [side |-> side, price |-> price, node |-> node]
           index == IF id = kAnonymous THEN b.index ELSE Bind(b.index, id, loc)
<1>1. m \in Nat /\ PoolOK(b.pool) /\ LevelsOK(b.levels, m) /\ IndexOK(b.index, m)
  BY BookFields
<1>2. v \in RestingOrder
  BY DEF RestingOrder
<1>3. c = [pool |-> p, levels |-> [b.levels EXCEPT ![side] = t], index |-> index]
  BY DEF rest, WithLevel, NewLevel
<1> HIDE DEF c, v
<1>4. PoolOK(pool) /\ node \in 1 .. n /\ n \in Nat /\ m <= n
  BY <1>1, <1>2, AllocateOK
<1> HIDE DEF pool, node, n
<1>5. LevelsOK(b.levels, n) /\ IndexOK(b.index, n)
  BY <1>1, <1>4, TypesGrow
<1>6. WithLevelOK(b.levels[side], r, side, it, price, n)
  <2>1. b.levels[side] \in Seq(LevelType(n))
    BY <1>5, LevelsFacts
  <2>2. SortedSide(b.levels[side], side)
    BY DEF Sorted
  <2>3. \A i \in 1 .. Len(b.levels[side]) : b.levels[side][i].head # kNull
    BY DEF Occupied
  <2> QED BY <1>4, <2>1, <2>2, <2>3, FindLevelInserts
<1> HIDE DEF r
<1>7. /\ lvl \in LevelType(n)
      /\ lvl.price = price /\ lvl.price \in Prices /\ lvl.total_volume \in Int
      /\ lvl.head \in 0 .. n /\ lvl.tail \in 0 .. n
      /\ lvl.head = kNull => lvl.tail = kNull
  <2>1. lvl \in LevelType(n)
    BY <1>6 DEF WithLevelOK
  <2>2. lvl.price = price /\ (lvl.head = kNull => lvl.tail = kNull)
    BY <1>6 DEF WithLevelOK
  <2>3. lvl.price \in Prices /\ lvl.total_volume \in Int
        /\ lvl.head \in 0 .. n /\ lvl.tail \in 0 .. n
    <3> HIDE DEF lvl
    <3> QED BY <2>1 DEF LevelType
  <2> QED BY <2>1, <2>2, <2>3
<1> HIDE DEF lvl
<1>8. PoolOK(p) /\ Len(p.nodes) = n
  <2>1. CASE lvl.tail = kNull
    BY <1>4, <2>1 DEF n
  <2>2. CASE lvl.tail # kNull
    <3>1. lvl.tail \in 1 .. Len(pool.nodes) /\ node \in 0 .. Len(pool.nodes)
      BY <1>4, <1>7, <2>2 DEF n
    <3>2. /\ PoolOK(set_next(pool, lvl.tail, node))
          /\ Len(set_next(pool, lvl.tail, node).nodes) = n
      BY <1>4, <3>1, SetNextOK DEF n
    <3>3. /\ PoolOK(set_prev(set_next(pool, lvl.tail, node), node, lvl.tail))
          /\ Len(set_prev(set_next(pool, lvl.tail, node), node, lvl.tail).nodes) = n
      BY <1>4, <1>7, <3>2, SetPrevOK
    <3> QED BY <2>2, <3>3
  <2> QED BY <2>1, <2>2
<1> HIDE DEF p
<1>9. L \in LevelType(n) /\ L.price = price /\ L.head # kNull
  <2>1. /\ (IF lvl.tail = kNull THEN node ELSE lvl.head) \in 0 .. n
        /\ (IF lvl.tail = kNull THEN node ELSE lvl.head) # kNull
        /\ node \in 0 .. n
    BY <1>4, <1>7
  <2> QED BY <1>7, <2>1 DEF LevelType
<1> HIDE DEF L
<1>10. IndexOK(index, n)
  <2>1. loc \in LocationType(n)
    BY <1>4 DEF LocationType
  <2> QED BY <1>4, <1>5, <2>1, BindOK
<1> HIDE DEF index
<1>11. /\ t \in Seq(LevelType(n)) /\ Len(t) = Len(r) /\ Len(t) \in Nat
       /\ DOMAIN t = 1 .. Len(t)
       /\ \A i \in 1 .. Len(t) : t[i].price = r[i].price /\ t[i].head # kNull
  <2> DEFINE T == LevelType(n)
  <2>1. r \in Seq(T) /\ it \in 1 .. Len(r) /\ L \in T /\ Len(r) \in Nat
    BY <1>6, <1>9 DEF WithLevelOK
  <2> HIDE DEF T
  <2>2. /\ t \in Seq(T) /\ Len(t) = Len(r)
        /\ \A j \in 1 .. Len(r) : t[j] = IF j = it THEN L ELSE r[j]
    BY <2>1, ReplaceProperties
  <2>3. /\ r[it].price = price
        /\ \A i \in 1 .. Len(r) : i # it => r[i].head # kNull
    BY <1>6 DEF WithLevelOK
  <2>4. DOMAIN t = 1 .. Len(t)
    BY <2>2
  <2> HIDE DEF t
  <2> QED BY <1>9, <2>1, <2>2, <2>3, <2>4 DEF T
<1> HIDE DEF t
<1>12. /\ \A i \in 1 .. Len(t), j \in 1 .. Len(t) :
            i < j => Better(side, t[i].price, t[j].price)
       /\ \A i \in 1 .. Len(t) :
            \/ t[i].price = price
            \/ \E j \in 1 .. Len(b.levels[side]) : t[i].price = b.levels[side][j].price
  BY <1>6, <1>11 DEF WithLevelOK
<1>13. /\ LevelsOK([b.levels EXCEPT ![side] = t], n)
       /\ [b.levels EXCEPT ![side] = t][side] = t
       /\ \A s \in Sides \ {side} : [b.levels EXCEPT ![side] = t][s] = b.levels[s]
  BY <1>5, <1>11 DEF LevelsOK
<1>14. /\ c.pool = p /\ c.index = index /\ c.levels[side] = t /\ LevelsOK(c.levels, n)
       /\ \A s \in Sides \ {side} : c.levels[s] = b.levels[s]
       /\ c = [pool |-> c.pool, levels |-> c.levels, index |-> c.index]
  BY <1>3, <1>13
<1>15. BookOK(c)
  BY <1>8, <1>10, <1>14, BookParts
<1>16. Sorted(c.levels)
  <2>1. SortedSide(t, side)
    BY <1>11, <1>12 DEF SortedSide
  <2> QED BY <1>14, <2>1 DEF Sorted
<1>17. Occupied(c.levels)
  BY <1>11, <1>14 DEF Occupied
<1>18. \A i \in 1 .. Len(c.levels[side]) :
         \/ c.levels[side][i].price = price
         \/ \E j \in 1 .. Len(b.levels[side]) :
              c.levels[side][i].price = b.levels[side][j].price
  BY <1>12, <1>14
<1> QED BY <1>14, <1>15, <1>16, <1>17, <1>18 DEF c
-----------------------------------------------------------------------------
(* The inductive invariant.  TypeOK is not inductive by itself: set_level   *)
(* reads a level's head before it tests it, and only because no level is    *)
(* ever empty between two operations is that head a node.  The side that    *)
(* rest inserts into must be sorted for the insertion to keep it so.        *)

NoLevelEmpty ==
  IF call.op \in {"delete_order", "clear_level"}
    THEN OccupiedBut(book.levels, call.side, call.it)
    ELSE Occupied(book.levels)

Inv == TypeOK /\ SidesSorted /\ NoLevelEmpty

(* A call that has ended is told apart by its op.                           *)
LEMMA Records ==
  /\ Idle.op = "idle"
  /\ Aborted.op = "aborted"
  BY DEF Idle, Aborted

(* The invariant, restated for the levels of a book.                        *)
LEMMA SortedIsSidesSorted == SidesSorted <=> Sorted(book.levels)
  BY DEF SidesSorted, Sorted

(* The same for the crossed book.                                           *)
LEMMA UncrossedIsNeverCrossed == NeverCrossed <=> Uncrossed(book.levels)
  BY DEF NeverCrossed, Uncrossed

(* After a return or an abort only the book matters.                        *)
LEMMA ReturnOK ==
  ASSUME BookOK(book)', Sorted(book.levels)', Occupied(book.levels)',
         call' = Idle \/ call' = Aborted
  PROVE  Inv'
<1>1. call'.op \notin {"delete_order", "clear_level", "collapse_level"}
  BY Records
<1>2. CallOK' /\ IteratorOK'
  BY <1>1 DEF CallOK, IteratorOK
<1>3. NoLevelEmpty'
  BY <1>1 DEF NoLevelEmpty
<1> QED BY <1>2, <1>3, SortedIsSidesSorted DEF Inv, TypeOK, SidesSorted, Sorted

(* What the invariant says of each running function.                        *)
LEMMA InvFacts ==
  ASSUME Inv
  PROVE  /\ BookOK(book) /\ Sorted(book.levels)
         /\ call = Idle => Occupied(book.levels)
         /\ call.op = "match" =>
              /\ Occupied(book.levels)
              /\ call \in [op : {"match"}, order : Orders, volume : Int, trades : Seq(Trade)]
         /\ call.op = "delete_order" =>
              /\ OccupiedBut(book.levels, call.side, call.it)
              /\ call \in [op : {"delete_order"}, side : Sides, it : Nat, volume : Int]
              /\ call.side \in Sides
              /\ call.it \in 1 .. Len(book.levels[call.side])
         /\ call.op = "clear_level" =>
              /\ OccupiedBut(book.levels, call.side, call.it)
              /\ call \in [op : {"clear_level"}, side : Sides, it : Nat]
              /\ call.side \in Sides
              /\ call.it \in 1 .. Len(book.levels[call.side])
         /\ call.op = "collapse_level" =>
              /\ Occupied(book.levels)
              /\ call \in [op : {"collapse_level"}, side : Sides, it : Nat, volume : Int,
                           node : Index(book)]
              /\ call.side \in Sides
              /\ call.it \in 1 .. Len(book.levels[call.side])
<1>1. BookOK(book) /\ Sorted(book.levels) /\ CallOK /\ IteratorOK /\ NoLevelEmpty
  BY SortedIsSidesSorted DEF Inv, TypeOK
<1>2. \A s \in Sides : DOMAIN book.levels[s] = 1 .. Len(book.levels[s])
  BY <1>1, BookFields, LevelsFacts
<1>3. call = Idle => Occupied(book.levels)
  BY <1>1, Records DEF NoLevelEmpty
<1>4. ASSUME call.op = "match"
      PROVE  /\ Occupied(book.levels)
             /\ call \in [op : {"match"}, order : Orders, volume : Int, trades : Seq(Trade)]
  BY <1>1, <1>4, Records DEF NoLevelEmpty, CallOK
<1>5. ASSUME call.op = "delete_order"
      PROVE  /\ OccupiedBut(book.levels, call.side, call.it)
             /\ call \in [op : {"delete_order"}, side : Sides, it : Nat, volume : Int]
             /\ call.side \in Sides
             /\ call.it \in 1 .. Len(book.levels[call.side])
  <2>1. call \in [op : {"delete_order"}, side : Sides, it : Nat, volume : Int]
    BY <1>1, <1>5, Records DEF CallOK
  <2>2. call.side \in Sides
    BY <2>1
  <2> QED BY <1>1, <1>2, <1>5, <2>1, <2>2 DEF NoLevelEmpty, IteratorOK
<1>6. ASSUME call.op = "clear_level"
      PROVE  /\ OccupiedBut(book.levels, call.side, call.it)
             /\ call \in [op : {"clear_level"}, side : Sides, it : Nat]
             /\ call.side \in Sides
             /\ call.it \in 1 .. Len(book.levels[call.side])
  <2>1. call \in [op : {"clear_level"}, side : Sides, it : Nat]
    BY <1>1, <1>6, Records DEF CallOK
  <2>2. call.side \in Sides
    BY <2>1
  <2> QED BY <1>1, <1>2, <1>6, <2>1, <2>2 DEF NoLevelEmpty, IteratorOK
<1>7. ASSUME call.op = "collapse_level"
      PROVE  /\ Occupied(book.levels)
             /\ call \in [op : {"collapse_level"}, side : Sides, it : Nat, volume : Int,
                          node : Index(book)]
             /\ call.side \in Sides
             /\ call.it \in 1 .. Len(book.levels[call.side])
  <2>1. call \in [op : {"collapse_level"}, side : Sides, it : Nat, volume : Int,
                  node : Index(book)]
    BY <1>1, <1>7, Records DEF CallOK
  <2>2. call.side \in Sides
    BY <2>1
  <2> QED BY <1>1, <1>2, <1>7, <2>1, <2>2 DEF NoLevelEmpty, IteratorOK
<1> QED BY <1>1, <1>3, <1>4, <1>5, <1>6, <1>7

(* A book without an empty level has none outside any given level.          *)
LEMMA OccupiedIsMore ==
  ASSUME NEW levels, NEW side, NEW it, Occupied(levels)
  PROVE  OccupiedBut(levels, side, it)
  BY DEF Occupied, OccupiedBut

(* Resting the remainder of an order, or an anonymous one.                  *)
LEMMA RestAndReturnOK ==
  ASSUME BookOK(book), Sorted(book.levels), Occupied(book.levels),
         NEW id \in OrderIds, NEW side \in Sides, NEW price \in Prices,
         NEW volume \in Int, RestAndReturn(id, side, price, volume)
  PROVE  /\ Inv'
         /\ \A s \in Sides \ {side} : book'.levels[s] = book.levels[s]
         /\ \A i \in 1 .. Len(book'.levels[side]) :
              \/ book'.levels[side][i].price = price
              \/ \E j \in 1 .. Len(book.levels[side]) :
                   book'.levels[side][i].price = book.levels[side][j].price
<1>1. CASE Exhausted(book.pool)
  <2>1. call' = Aborted /\ book' = book
    BY <1>1 DEF RestAndReturn
  <2> QED BY <2>1, ReturnOK
<1>2. CASE ~Exhausted(book.pool)
  <2>1. PICK it \in find_level(book.levels[side], side, price) :
          book' = rest(book, it, id, side, price, volume)
    BY <1>2 DEF RestAndReturn
  <2>2. call' = Idle
    BY <1>2 DEF RestAndReturn
  <2> DEFINE c == rest(book, it, id, side, price, volume)
  <2>3. /\ BookOK(c) /\ Sorted(c.levels) /\ Occupied(c.levels)
        /\ \A s \in Sides \ {side} : c.levels[s] = book.levels[s]
        /\ \A i \in 1 .. Len(c.levels[side]) :
             \/ c.levels[side][i].price = price
             \/ \E j \in 1 .. Len(book.levels[side]) :
                  c.levels[side][i].price = book.levels[side][j].price
    BY <1>2, RestOK
  <2> HIDE DEF c
  <2>4. book' = c
    BY <2>1 DEF c
  <2>5. Inv'
    BY <2>2, <2>3, <2>4, ReturnOK
  <2> QED BY <2>3, <2>4, <2>5
<1> QED BY <1>1, <1>2
-----------------------------------------------------------------------------
(* One lemma per action: the invariant is kept, and, by every action that   *)
(* adds no price the matching loop has not compared, so is the spread.      *)

(* place_order up to the loop of match.                                    *)
LEMMA PlaceOrderOK ==
  ASSUME Inv, NEW o \in Orders, PlaceOrder(o)
  PROVE  Inv' /\ (NeverCrossed => NeverCrossed')
<1>1. BookOK(book) /\ Sorted(book.levels) /\ Occupied(book.levels) /\ book' = book
  BY InvFacts DEF PlaceOrder
<1> DEFINE started == [op |-> "match", order |-> o, volume |-> o.volume, trades |-> <<>>]
<1>2. call' = started \/ call' = Idle
  BY DEF PlaceOrder
<1>3. CASE call' = Idle
  BY <1>1, <1>3, ReturnOK DEF NeverCrossed
<1>4. CASE call' = started
  <2>1. o.volume \in Int
    BY BookAssumption
  <2>2. <<>> \in Seq(Trade)
    OBVIOUS
  <2>3. started \in [op : {"match"}, order : Orders, volume : Int, trades : Seq(Trade)]
        /\ started.op = "match"
    BY <2>1, <2>2
  <2>4. CallOK' /\ IteratorOK' /\ NoLevelEmpty'
    BY <1>1, <1>4, <2>3 DEF CallOK, IteratorOK, NoLevelEmpty
  <2> QED BY <1>1, <2>4, SortedIsSidesSorted DEF Inv, TypeOK, SidesSorted, NeverCrossed
<1> QED BY <1>2, <1>3, <1>4

(* cancel_order preserves the invariant.                                    *)
LEMMA CancelOrderOK ==
  ASSUME Inv, NEW id \in OrderIds, CancelOrder(id)
  PROVE  Inv' /\ (NeverCrossed => NeverCrossed')
<1>1. BookOK(book) /\ Sorted(book.levels) /\ Occupied(book.levels) /\ call = Idle
  BY InvFacts DEF CancelOrder
<1>2. CASE book' = book /\ (call' = Idle \/ call' = Aborted)
  BY <1>1, <1>2, ReturnOK DEF NeverCrossed
<1>3. CASE id \in DOMAIN book.index /\ ~(book' = book)
  <2> DEFINE side == book.index[id].side
             price == book.index[id].price
  <2>1. side \in Sides
    BY <1>1, <1>3, BookFields DEF IndexOK, LocationType
  <2>2. PICK it \in find_level(book.levels[side], side, price) :
          /\ Exists(book.levels[side], it, price)
          /\ book' = cancelled(book, it, id) /\ call' = call
    BY <1>3 DEF CancelOrder
  <2>3. it \in 1 .. Len(book.levels[side])
    <3>1. Len(book.levels[side]) \in Nat
      BY <1>1, <2>1, BookFields, LevelsFacts
    <3> QED BY <2>2, <3>1 DEF find_level, Exists
  <2>4. Keeps(book, side, it, book')
    BY <1>1, <1>3, <2>2, <2>3, CancelledOK
  <2>5. OccupiedBut(book.levels, side, it)
    BY <1>1, OccupiedIsMore
  <2>6. /\ BookOK(book') /\ Sorted(book'.levels) /\ Occupied(book'.levels)
        /\ Uncrossed(book.levels) => Uncrossed(book'.levels)
    BY <1>1, <2>4, <2>5 DEF Keeps
  <2>7. Inv'
    BY <1>1, <2>2, <2>6, ReturnOK
  <2> QED BY <2>6, <2>7, UncrossedIsNeverCrossed DEF NeverCrossed, Uncrossed
<1>4. \/ book' = book /\ (call' = Idle \/ call' = Aborted)
      \/ id \in DOMAIN book.index /\ ~(book' = book)
  BY <1>1 DEF CancelOrder, vars
<1> QED BY <1>2, <1>3, <1>4

(* add_order preserves the invariant.                                       *)
LEMMA AddOrderOK ==
  ASSUME Inv, NEW side \in Sides, NEW price \in Prices, NEW volume \in Volumes,
         AddOrder(side, price, volume)
  PROVE  Inv'
<1>1. /\ BookOK(book) /\ Sorted(book.levels) /\ Occupied(book.levels) /\ call = Idle
      /\ volume \in Int /\ kAnonymous \in OrderIds
  BY InvFacts, BookAssumption DEF AddOrder
<1>2. CASE UNCHANGED vars
  BY <1>1, <1>2, ReturnOK DEF vars
<1>3. CASE RestAndReturn(kAnonymous, side, price, volume)
  BY <1>1, <1>3, RestAndReturnOK
<1> QED BY <1>2, <1>3 DEF AddOrder

(* Entering delete_order preserves the invariant.                           *)
LEMMA DeleteOrderOK ==
  ASSUME Inv, NEW side \in Sides, NEW price \in Prices, NEW volume \in Volumes,
         DeleteOrder(side, price, volume)
  PROVE  Inv' /\ (NeverCrossed => NeverCrossed')
<1>1. /\ BookOK(book) /\ Sorted(book.levels) /\ Occupied(book.levels) /\ book' = book
      /\ volume \in Int
  BY InvFacts, BookAssumption DEF DeleteOrder
<1>2. PICK it \in find_level(book.levels[side], side, price) :
        call' = IF Exists(book.levels[side], it, price)
                  THEN [op |-> "delete_order", side |-> side, it |-> it,
                        volume |-> volume]
                  ELSE Idle
  BY DEF DeleteOrder
<1>3. CASE ~Exists(book.levels[side], it, price)
  BY <1>1, <1>2, <1>3, ReturnOK DEF NeverCrossed
<1>4. CASE Exists(book.levels[side], it, price)
  <2>1. /\ it \in 1 .. Len(book.levels[side]) /\ it \in Nat
        /\ DOMAIN book.levels[side] = 1 .. Len(book.levels[side])
    <3>1. /\ Len(book.levels[side]) \in Nat
          /\ DOMAIN book.levels[side] = 1 .. Len(book.levels[side])
      BY <1>1, BookFields, LevelsFacts
    <3> QED BY <1>4, <3>1 DEF find_level, Exists
  <2> DEFINE started == [op |-> "delete_order", side |-> side, it |-> it, volume |-> volume]
  <2>2. /\ started \in [op : {"delete_order"}, side : Sides, it : Nat, volume : Int]
        /\ started.op = "delete_order" /\ started.side = side /\ started.it = it
    BY <1>1, <2>1
  <2>3. call' = started
    BY <1>2, <1>4
  <2> HIDE DEF started
  <2>4. OccupiedBut(book.levels, side, it)
    BY <1>1, OccupiedIsMore
  <2>5. CallOK' /\ IteratorOK' /\ NoLevelEmpty'
    BY <1>1, <2>1, <2>2, <2>3, <2>4 DEF CallOK, IteratorOK, NoLevelEmpty
  <2> QED BY <1>1, <2>5, SortedIsSidesSorted DEF Inv, TypeOK, SidesSorted, NeverCrossed
<1> QED BY <1>3, <1>4

(* Entering set_level preserves the invariant.                              *)
LEMMA SetLevelOK ==
  ASSUME Inv, NEW side \in Sides, NEW price \in Prices, NEW volume \in Volumes,
         SetLevel(side, price, volume)
  PROVE  Inv'
<1>1. /\ BookOK(book) /\ Sorted(book.levels) /\ Occupied(book.levels)
      /\ volume \in Int /\ kAnonymous \in OrderIds
  BY InvFacts, BookAssumption DEF SetLevel
<1>2. /\ Len(book.levels[side]) \in Nat
      /\ DOMAIN book.levels[side] = 1 .. Len(book.levels[side])
  BY <1>1, BookFields, LevelsFacts
<1> DEFINE clear(it) == [op |-> "clear_level", side |-> side, it |-> it]
           next(it) == book.pool.nodes[book.levels[side][it].head].next
           collapse(it) == [op |-> "collapse_level", side |-> side, it |-> it,
                            volume |-> volume, node |-> next(it)]
<1>3. PICK it \in find_level(book.levels[side], side, price) :
        \/ call' = Idle /\ book' = book
        \/ RestAndReturn(kAnonymous, side, price, volume)
        \/ Exists(book.levels[side], it, price) /\ call' = clear(it) /\ book' = book
        \/ Exists(book.levels[side], it, price) /\ call' = collapse(it) /\ book' = book
  BY DEF SetLevel
<1>4. CASE call' = Idle /\ book' = book
  BY <1>1, <1>4, ReturnOK
<1>5. CASE RestAndReturn(kAnonymous, side, price, volume)
  BY <1>1, <1>5, RestAndReturnOK
<1>6. ASSUME Exists(book.levels[side], it, price)
      PROVE  it \in 1 .. Len(book.levels[side]) /\ it \in Nat
  BY <1>2, <1>6 DEF find_level, Exists
<1>7. OccupiedBut(book.levels, side, it)
  BY <1>1, OccupiedIsMore
<1>8. CASE Exists(book.levels[side], it, price) /\ call' = clear(it) /\ book' = book
  <2>1. /\ clear(it) \in [op : {"clear_level"}, side : Sides, it : Nat]
        /\ clear(it).op = "clear_level" /\ clear(it).side = side /\ clear(it).it = it
    BY <1>6, <1>8
  <2> HIDE DEF clear
  <2>2. CallOK' /\ IteratorOK' /\ NoLevelEmpty'
    BY <1>1, <1>2, <1>6, <1>7, <1>8, <2>1 DEF CallOK, IteratorOK, NoLevelEmpty
  <2> QED BY <1>1, <1>8, <2>2, SortedIsSidesSorted DEF Inv, TypeOK, SidesSorted
<1>9. CASE Exists(book.levels[side], it, price) /\ call' = collapse(it) /\ book' = book
  <2>1. book.levels[side][it].head \in 1 .. Len(book.pool.nodes)
    <3>1. book.levels[side][it].head \in 0 .. Len(book.pool.nodes)
      BY <1>1, <1>6, <1>9, LevelFields
    <3>2. book.levels[side][it].head # kNull
      BY <1>1, <1>6, <1>9 DEF Occupied
    <3>3. Len(book.pool.nodes) \in Nat
      BY <1>1, BookFields
    <3> QED BY <3>1, <3>2, <3>3
  <2>2. next(it) \in Index(book)
    BY <1>1, <2>1, BookFields DEF Index
  <2> HIDE DEF next
  <2>3. /\ collapse(it) \in [op : {"collapse_level"}, side : Sides, it : Nat, volume : Int,
                             node : Index(book)]
        /\ collapse(it).op = "collapse_level"
        /\ collapse(it).side = side /\ collapse(it).it = it
    BY <1>1, <1>6, <1>9, <2>2
  <2> HIDE DEF collapse
  <2>4. Index(book)' = Index(book)
    BY <1>9 DEF Index
  <2>5. CallOK' /\ IteratorOK' /\ NoLevelEmpty'
    BY <1>1, <1>2, <1>6, <1>9, <2>3, <2>4 DEF CallOK, IteratorOK, NoLevelEmpty
  <2> QED BY <1>1, <1>9, <2>5, SortedIsSidesSorted DEF Inv, TypeOK, SidesSorted
<1> QED BY <1>3, <1>4, <1>5, <1>8, <1>9
(* One fill preserves the invariant and does not cross the book.            *)
LEMMA MatchStepOK ==
  ASSUME Inv, MatchStep
  PROVE  Inv' /\ (NeverCrossed => NeverCrossed')
<1> DEFINE side == opposed(call.order.side)
           lvl == book.levels[side][1]
           r == book.pool.nodes[lvl.head].value
           fill == Lesser(call.volume, r.volume)
           trade == [aggressor |-> call.order.id, resting |-> r.id,
                     price |-> lvl.price, volume |-> fill]
           MatchCall == [op : {"match"}, order : Orders, volume : Int, trades : Seq(Trade)]
<1>1. /\ BookOK(book) /\ Sorted(book.levels) /\ Occupied(book.levels)
      /\ call.op = "match" /\ call \in MatchCall
  BY InvFacts DEF MatchStep
<1>2. side \in Sides /\ call.order.id \in OrderIds /\ call.volume \in Int
      /\ call.trades \in Seq(Trade)
  <2>1. call.order \in Orders
    BY <1>1
  <2>2. call.order.side \in Sides /\ call.order.id \in OrderIds
    BY <2>1, BookAssumption
  <2> QED BY <1>1, <2>2 DEF opposed, Sides
<1>3. 1 \in 1 .. Len(book.levels[side])
  <2>1. book.levels[side] \in Seq(LevelType(Len(book.pool.nodes)))
    BY <1>1, <1>2, BookFields, LevelsFacts
  <2>2. book.levels[side] # <<>>
    BY DEF MatchStep, Crossing
  <2> QED BY <2>1, <2>2
<1>4. lvl.head # kNull /\ lvl.head \in 1 .. Len(book.pool.nodes) /\ lvl.price \in Prices
  <2>1. lvl.head \in 0 .. Len(book.pool.nodes) /\ lvl.price \in Prices
    BY <1>1, <1>2, <1>3, LevelFields
  <2>2. lvl.head # kNull
    BY DEF MatchStep
  <2>3. Len(book.pool.nodes) \in Nat
    BY <1>1, BookFields
  <2> QED BY <2>1, <2>2, <2>3
<1>5. r \in RestingOrder
  BY <1>1, <1>4, BookFields
<1>6. fill \in Int /\ r.id \in OrderIds
  BY <1>2, <1>5 DEF RestingOrder, Lesser
<1>7. /\ book' = erase_if_empty(take(book, side, 1, fill), side, 1)
      /\ call' = [call EXCEPT !.volume = @ - fill, !.trades = Append(@, trade)]
  BY DEF MatchStep
<1> HIDE DEF side, r, fill
<1>8. PICK h : UpdateOK(book, side, 1, take(book, side, 1, fill), h)
  BY <1>1, <1>2, <1>3, <1>4, <1>6, TakeOK
<1>9. Keeps(book, side, 1, book')
  BY <1>1, <1>2, <1>3, <1>7, <1>8, UpdateThenErase
<1>10. OccupiedBut(book.levels, side, 1)
  BY <1>1, OccupiedIsMore
<1>11. /\ BookOK(book') /\ Sorted(book'.levels) /\ Occupied(book'.levels)
       /\ Uncrossed(book.levels) => Uncrossed(book'.levels)
  BY <1>1, <1>9, <1>10 DEF Keeps
<1>12. call' \in MatchCall /\ call'.op = "match"
  <2>1. trade \in Trade
    BY <1>2, <1>4, <1>6 DEF Trade
  <2> HIDE DEF trade
  <2>2. Append(call.trades, trade) \in Seq(Trade) /\ call.volume - fill \in Int
    BY <1>2, <1>6, <2>1
  <2> QED BY <1>1, <1>7, <2>2
<1>13. CallOK' /\ IteratorOK' /\ NoLevelEmpty'
  BY <1>11, <1>12 DEF CallOK, IteratorOK, NoLevelEmpty
<1>14. Inv'
  BY <1>11, <1>13 DEF Inv, TypeOK, SidesSorted, Sorted
<1> QED BY <1>11, <1>14 DEF NeverCrossed, Uncrossed

(* A limit that does not reach a price does not reach a worse one.          *)
LEMMA WorseStillDoesNotCross ==
  ASSUME NEW s \in Sides, NEW p \in Nat, NEW q \in Nat, NEW r \in Nat,
         ~crosses(s, p, q), Better(opposed(s), q, r)
  PROVE  ~crosses(s, p, r)
  BY DEF crosses, Better, opposed, Sides

(* The remainder that rests does not cross: match stopped at the best price *)
(* of the other side, and every other price there is worse.                 *)
LEMMA MatchReturnOK ==
  ASSUME Inv, MatchReturn
  PROVE  Inv' /\ (NeverCrossed => NeverCrossed')
<1> DEFINE o == call.order
           other == opposed(o.side)
<1>1. /\ BookOK(book) /\ Sorted(book.levels) /\ Occupied(book.levels)
      /\ o \in Orders /\ call.volume \in Int
  BY InvFacts DEF MatchReturn
<1>2. /\ o.id \in OrderIds /\ o.side \in Sides /\ o.price \in Prices /\ o.price \in Nat
  BY <1>1, BookAssumption
<1>3. CASE call' = Idle /\ book' = book
  BY <1>1, <1>3, ReturnOK DEF NeverCrossed
<1>4. CASE /\ call.volume > 0
           /\ RestAndReturn(o.id, o.side, o.price, call.volume)
  <2>1. /\ Inv'
        /\ \A s \in Sides \ {o.side} : book'.levels[s] = book.levels[s]
        /\ \A i \in 1 .. Len(book'.levels[o.side]) :
             \/ book'.levels[o.side][i].price = o.price
             \/ \E j \in 1 .. Len(book.levels[o.side]) :
                  book'.levels[o.side][i].price = book.levels[o.side][j].price
    BY <1>1, <1>2, <1>4, RestAndReturnOK
  <2>2. other \in Sides /\ other # o.side
    BY <1>2 DEF opposed, Sides
  <2>3. /\ Len(book.levels[other]) \in Nat
        /\ DOMAIN book.levels[other] = 1 .. Len(book.levels[other])
        /\ \A j \in 1 .. Len(book.levels[other]) : book.levels[other][j].price \in Nat
        /\ book.levels[other] \in Seq(LevelType(Len(book.pool.nodes)))
    BY <1>1, <2>2, BookFields, LevelsFacts
  <2>4. ASSUME NEW j \in 1 .. Len(book.levels[other])
        PROVE  ~crosses(o.side, o.price, book.levels[other][j].price)
    <3>1. 1 \in 1 .. Len(book.levels[other]) /\ book.levels[other] # <<>>
      BY <2>3
    <3>2. ~crosses(o.side, o.price, book.levels[other][1].price)
      BY <1>4, <3>1 DEF MatchReturn, Crossing
    <3>3. CASE j = 1
      BY <3>2, <3>3
    <3>4. CASE 1 < j
      <4>1. Better(other, book.levels[other][1].price, book.levels[other][j].price)
        BY <1>1, <2>2, <2>3, <3>1, <3>4 DEF Sorted, SortedSide
      <4>2. /\ book.levels[other][1].price \in Nat
            /\ book.levels[other][j].price \in Nat
        BY <2>3, <3>1
      <4> QED BY <1>2, <3>2, <4>1, <4>2, WorseStillDoesNotCross
    <3>5. j = 1 \/ 1 < j
      BY <2>3
    <3> QED BY <3>3, <3>4, <3>5
  <2>5. book'.levels[other] = book.levels[other]
    BY <2>1, <2>2
  <2>6. Len(book'.levels[o.side]) \in Nat
        /\ DOMAIN book'.levels[o.side] = 1 .. Len(book'.levels[o.side])
        /\ DOMAIN book.levels[o.side] = 1 .. Len(book.levels[o.side])
    <3>1. BookOK(book')
      BY <2>1 DEF Inv, TypeOK
    <3>2. LevelsOK(book'.levels, Len(book'.pool.nodes))
      BY <3>1, BookFields
    <3>3. LevelsOK(book.levels, Len(book.pool.nodes))
      BY <1>1, BookFields
    <3> QED BY <1>2, <3>2, <3>3, LevelsFacts
  <2>7. ASSUME NeverCrossed
        PROVE  NeverCrossed'
    <3>1. CASE o.side = "BID"
      <4>1. other = "ASK"
        BY <3>1 DEF opposed
      <4> SUFFICES ASSUME NEW i \in DOMAIN book'.levels["BID"],
                          NEW j \in DOMAIN book'.levels["ASK"]
                   PROVE  book'.levels["BID"][i].price < book'.levels["ASK"][j].price
        BY DEF NeverCrossed
      <4>2. j \in DOMAIN book.levels["ASK"] /\ book'.levels["ASK"][j] = book.levels["ASK"][j]
        BY <2>5, <4>1
      <4>3. CASE book'.levels["BID"][i].price = o.price
        <5>1. ~crosses("BID", o.price, book.levels["ASK"][j].price)
          BY <2>3, <2>4, <3>1, <4>1, <4>2
        <5> QED BY <1>2, <2>3, <4>1, <4>2, <4>3, <5>1 DEF crosses
      <4>4. CASE \E k \in 1 .. Len(book.levels["BID"]) :
                   book'.levels["BID"][i].price = book.levels["BID"][k].price
        BY <2>6, <2>7, <3>1, <4>2, <4>4 DEF NeverCrossed
      <4>5. \/ book'.levels["BID"][i].price = o.price
            \/ \E k \in 1 .. Len(book.levels["BID"]) :
                 book'.levels["BID"][i].price = book.levels["BID"][k].price
        BY <2>1, <2>6, <3>1
      <4> QED BY <4>3, <4>4, <4>5
    <3>2. CASE o.side = "ASK"
      <4>1. other = "BID"
        BY <3>2 DEF opposed
      <4> SUFFICES ASSUME NEW i \in DOMAIN book'.levels["BID"],
                          NEW j \in DOMAIN book'.levels["ASK"]
                   PROVE  book'.levels["BID"][i].price < book'.levels["ASK"][j].price
        BY DEF NeverCrossed
      <4>2. i \in DOMAIN book.levels["BID"] /\ book'.levels["BID"][i] = book.levels["BID"][i]
        BY <2>5, <4>1
      <4>3. CASE book'.levels["ASK"][j].price = o.price
        <5>1. ~crosses("ASK", o.price, book.levels["BID"][i].price)
          BY <2>3, <2>4, <3>2, <4>1, <4>2
        <5> QED BY <1>2, <2>3, <4>1, <4>2, <4>3, <5>1 DEF crosses
      <4>4. CASE \E k \in 1 .. Len(book.levels["ASK"]) :
                   book'.levels["ASK"][j].price = book.levels["ASK"][k].price
        BY <2>6, <2>7, <3>2, <4>2, <4>4 DEF NeverCrossed
      <4>5. \/ book'.levels["ASK"][j].price = o.price
            \/ \E k \in 1 .. Len(book.levels["ASK"]) :
                 book'.levels["ASK"][j].price = book.levels["ASK"][k].price
        BY <2>1, <2>6, <3>2
      <4> QED BY <4>3, <4>4, <4>5
    <3> QED BY <1>2, <3>1, <3>2 DEF Sides
  <2> QED BY <2>1, <2>7
<1> QED BY <1>3, <1>4 DEF MatchReturn
(* The inner loops: only the level the running function holds may empty.    *)
LEMMA DrainStepOK ==
  ASSUME Inv, call.op \in {"delete_order", "clear_level"}, CallOK',
         call'.op = call.op, call'.side = call.side, call'.it = call.it,
         NEW h, UpdateOK(book, call.side, call.it, book', h)
  PROVE  Inv' /\ (NeverCrossed => NeverCrossed')
<1>1. /\ BookOK(book) /\ Sorted(book.levels)
      /\ OccupiedBut(book.levels, call.side, call.it)
      /\ call.side \in Sides /\ call.it \in 1 .. Len(book.levels[call.side])
  BY InvFacts
<1> DEFINE side == call.side
           it == call.it
           c == book'
<1> HIDE DEF side, it, c
<1>2. /\ BookOK(c) /\ it \in 1 .. Len(c.levels[side])
      /\ Sorted(book.levels) => Sorted(c.levels)
      /\ Uncrossed(book.levels) => Uncrossed(c.levels)
      /\ OccupiedBut(book.levels, side, it) => OccupiedBut(c.levels, side, it)
  BY <1>1, UpdateKeeps DEF side, it, c
<1>3. DOMAIN c.levels[side] = 1 .. Len(c.levels[side])
  <2>1. LevelsOK(c.levels, Len(c.pool.nodes))
    BY <1>2, BookFields
  <2> QED BY <1>1, <2>1, LevelsFacts DEF side
<1>4. IteratorOK' /\ NoLevelEmpty'
  BY <1>1, <1>2, <1>3 DEF IteratorOK, NoLevelEmpty, side, it, c
<1>5. Inv'
  BY <1>1, <1>2, <1>4 DEF Inv, TypeOK, SidesSorted, Sorted, c
<1> QED BY <1>2, <1>5 DEF NeverCrossed, Uncrossed, c

(* One iteration of delete_order preserves the invariant.                   *)
LEMMA DeleteStepOK ==
  ASSUME Inv, DeleteStep
  PROVE  Inv' /\ (NeverCrossed => NeverCrossed')
<1> DEFINE side == call.side
           it == call.it
           head == book.levels[side][it].head
           amount == Lesser(call.volume, book.pool.nodes[head].value.volume)
<1>1. /\ BookOK(book) /\ call.op = "delete_order"
      /\ call \in [op : {"delete_order"}, side : Sides, it : Nat, volume : Int]
      /\ side \in Sides /\ it \in 1 .. Len(book.levels[side])
  BY InvFacts DEF DeleteStep
<1>2. head # kNull /\ book' = take(book, side, it, amount)
      /\ call' = [call EXCEPT !.volume = @ - amount]
  BY DEF DeleteStep, CalledLevel
<1>3. amount \in Int
  <2>1. head \in 1 .. Len(book.pool.nodes)
    <3>1. head \in 0 .. Len(book.pool.nodes) /\ Len(book.pool.nodes) \in Nat
      BY <1>1, LevelFields, BookFields
    <3> HIDE DEF head
    <3> QED BY <1>2, <3>1
  <2>2. book.pool.nodes[head].value \in RestingOrder
    BY <1>1, <2>1, BookFields
  <2> HIDE DEF head
  <2> QED BY <1>1, <2>2 DEF RestingOrder, Lesser
<1> HIDE DEF amount
<1>4. PICK h : UpdateOK(book, side, it, take(book, side, it, amount), h)
  BY <1>1, <1>2, <1>3, TakeOK
<1>5. /\ call' \in [op : {"delete_order"}, side : Sides, it : Nat, volume : Int]
      /\ call'.op = call.op /\ call'.side = call.side /\ call'.it = call.it
  BY <1>1, <1>2, <1>3
<1>6. CallOK'
  BY <1>5 DEF CallOK
<1> QED BY <1>1, <1>2, <1>4, <1>5, <1>6, DrainStepOK

(* One pop of a removed level preserves the invariant.                      *)
LEMMA ClearStepOK ==
  ASSUME Inv, ClearStep
  PROVE  Inv' /\ (NeverCrossed => NeverCrossed')
<1>1. /\ BookOK(book) /\ call.op = "clear_level"
      /\ call \in [op : {"clear_level"}, side : Sides, it : Nat]
      /\ call.side \in Sides /\ call.it \in 1 .. Len(book.levels[call.side])
  BY InvFacts DEF ClearStep
<1>2. /\ book.levels[call.side][call.it].head # kNull
      /\ book' = pop_front(book, call.side, call.it) /\ call' = call
  BY DEF ClearStep, CalledLevel
<1>3. PICK h : UpdateOK(book, call.side, call.it, book', h)
  BY <1>1, <1>2, PopFrontOK
<1>4. CallOK'
  BY <1>1, <1>2 DEF CallOK
<1> QED BY <1>1, <1>2, <1>3, <1>4, DrainStepOK

(* The ends of the inner loops: the level is erased if it was drained.      *)
LEMMA DrainReturnOK ==
  ASSUME Inv, DeleteReturn \/ ClearReturn
  PROVE  Inv' /\ (NeverCrossed => NeverCrossed')
<1>1. /\ BookOK(book) /\ Sorted(book.levels)
      /\ OccupiedBut(book.levels, call.side, call.it)
      /\ call.side \in Sides /\ call.it \in 1 .. Len(book.levels[call.side])
  BY InvFacts DEF DeleteReturn, ClearReturn
<1>2. book' = erase_if_empty(book, call.side, call.it) /\ call' = Idle
  BY DEF DeleteReturn, ClearReturn
<1>3. Keeps(book, call.side, call.it, book')
  BY <1>1, <1>2, EraseIfEmptyOK
<1>4. /\ BookOK(book') /\ Sorted(book'.levels) /\ Occupied(book'.levels)
      /\ Uncrossed(book.levels) => Uncrossed(book'.levels)
  BY <1>1, <1>3 DEF Keeps
<1>5. Inv'
  BY <1>2, <1>4, ReturnOK
<1> QED BY <1>4, <1>5 DEF NeverCrossed, Uncrossed

(* Freeing one node behind the head preserves the invariant.                *)
LEMMA CollapseStepOK ==
  ASSUME Inv, CollapseStep
  PROVE  Inv' /\ (NeverCrossed => NeverCrossed')
<1> DEFINE n == Len(book.pool.nodes)
<1>1. /\ BookOK(book) /\ Sorted(book.levels) /\ Occupied(book.levels)
      /\ call.op = "collapse_level"
      /\ call \in [op : {"collapse_level"}, side : Sides, it : Nat, volume : Int,
                   node : Index(book)]
      /\ call.side \in Sides /\ call.it \in 1 .. Len(book.levels[call.side])
  BY InvFacts DEF CollapseStep
<1>2. PoolOK(book.pool) /\ LevelsOK(book.levels, n) /\ IndexOK(book.index, n) /\ n \in Nat
  BY <1>1, BookFields
<1>3. call.node \in 1 .. n
  BY <1>1, <1>2 DEF CollapseStep, Index
<1>4. book.pool.nodes[call.node].next \in 0 .. n
  BY <1>1, <1>3, BookFields
<1>5. /\ PoolOK(deallocate(book.pool, call.node))
      /\ Len(deallocate(book.pool, call.node).nodes) = n
  BY <1>2, <1>3, DeallocateOK
<1>6. /\ book' = [pool   |-> deallocate(book.pool, call.node),
                  levels |-> book.levels,
                  index  |-> book.index]
      /\ call' = [call EXCEPT !.node = book.pool.nodes[call.node].next]
  BY DEF CollapseStep
<1>7. /\ book'.pool = deallocate(book.pool, call.node)
      /\ book'.levels = book.levels /\ book'.index = book.index
      /\ book' = [pool |-> book'.pool, levels |-> book'.levels, index |-> book'.index]
  BY <1>6
<1>8. BookOK(book')
  BY <1>2, <1>5, <1>7, BookParts
<1>9. Index(book)' = Index(book)
  BY <1>5, <1>7 DEF Index
<1>10. /\ call' \in [op : {"collapse_level"}, side : Sides, it : Nat, volume : Int,
                     node : Index(book)]
       /\ call'.op = call.op /\ call'.side = call.side /\ call'.it = call.it
  BY <1>1, <1>4, <1>6 DEF Index
<1>11. DOMAIN book.levels[call.side] = 1 .. Len(book.levels[call.side])
  BY <1>1, <1>2, LevelsFacts
<1>12. CallOK' /\ IteratorOK' /\ NoLevelEmpty'
  BY <1>1, <1>7, <1>9, <1>10, <1>11 DEF CallOK, IteratorOK, NoLevelEmpty
<1>13. Inv'
  BY <1>1, <1>7, <1>8, <1>12 DEF Inv, TypeOK, SidesSorted, Sorted
<1> QED BY <1>7, <1>13 DEF NeverCrossed

(* Overwriting the head of a collapsed level preserves the invariant.       *)
LEMMA CollapseReturnOK ==
  ASSUME Inv, CollapseReturn
  PROVE  Inv' /\ (NeverCrossed => NeverCrossed')
<1> DEFINE side == call.side
           it == call.it
           n == Len(book.pool.nodes)
           head == book.levels[side][it].head
           id == book.pool.nodes[head].value.id
           v == [id |-> id, volume |-> call.volume]
           p == set_value(set_next(book.pool, head, kNull), head, v)
<1>1. /\ BookOK(book) /\ Sorted(book.levels) /\ Occupied(book.levels)
      /\ call \in [op : {"collapse_level"}, side : Sides, it : Nat, volume : Int,
                   node : Index(book)]
      /\ side \in Sides /\ it \in 1 .. Len(book.levels[side])
  BY InvFacts DEF CollapseReturn
<1>2. PoolOK(book.pool) /\ IndexOK(book.index, n) /\ n \in Nat /\ call.volume \in Int
  BY <1>1, BookFields
<1>3. head # kNull /\ head \in 1 .. n /\ head \in 0 .. n
  <2>1. head \in 0 .. n
    BY <1>1, LevelFields
  <2>2. head # kNull
    BY <1>1 DEF Occupied
  <2> QED BY <1>2, <2>1, <2>2
<1>4. v \in RestingOrder
  <2>1. book.pool.nodes[head].value \in RestingOrder
    BY <1>1, <1>3, BookFields
  <2>2. id \in OrderIds
    <3> DEFINE w == book.pool.nodes[head].value
    <3> HIDE DEF head, w
    <3>1. w.id \in OrderIds
      BY <2>1 DEF RestingOrder, w
    <3> QED BY <3>1 DEF w
  <2> HIDE DEF id
  <2> QED BY <1>2, <2>2 DEF RestingOrder
<1>5. /\ book' = Updated(book, side, it, p, call.volume, head, head, book.index)
      /\ call' = Idle
  BY DEF CollapseReturn, CalledLevel, Updated
<1> HIDE DEF v
<1>6. PoolOK(p) /\ Len(p.nodes) = n
  <2>1. /\ PoolOK(set_next(book.pool, head, kNull))
        /\ Len(set_next(book.pool, head, kNull).nodes) = n
    <3>1. kNull \in 0 .. n
      BY <1>2
    <3> QED BY <1>2, <1>3, <3>1, SetNextOK
  <2> HIDE DEF head
  <2> QED BY <1>3, <1>4, <2>1, SetValueOK
<1>7. UpdateOK(book, side, it, book', head)
  <2> HIDE DEF p, head
  <2> QED BY <1>1, <1>2, <1>3, <1>5, <1>6, BookUpdate
<1>8. OccupiedBut(book.levels, side, it)
  BY <1>1, OccupiedIsMore
<1>9. /\ BookOK(book') /\ Sorted(book'.levels) /\ Occupied(book'.levels)
      /\ Uncrossed(book.levels) => Uncrossed(book'.levels)
  <2> HIDE DEF head, side, it
  <2> QED BY <1>1, <1>3, <1>7, <1>8, UpdateKeeps
<1>10. Inv'
  BY <1>5, <1>9, ReturnOK
<1> QED BY <1>9, <1>10 DEF NeverCrossed, Uncrossed
-----------------------------------------------------------------------------
(* The theorems                                                             *)

(* The empty book.                                                         *)
LEMMA InitOK == Init => Inv /\ NeverCrossed
<1> SUFFICES ASSUME Init
             PROVE  Inv /\ NeverCrossed
  OBVIOUS
<1>1. /\ book.pool = EmptyPool /\ book.index = <<>>
      /\ \A s \in Sides : book.levels[s] = <<>>
      /\ book = [pool |-> book.pool, levels |-> book.levels, index |-> book.index]
      /\ call = Idle
  BY DEF Init
<1>2. PoolOK(book.pool) /\ Len(book.pool.nodes) = 0
  BY <1>1, CapacityAssumption DEF PoolOK, EmptyPool
<1>3. LevelsOK(book.levels, 0)
  BY DEF LevelsOK, Init
<1>4. IndexOK(book.index, 0)
  BY <1>1 DEF IndexOK
<1>5. BookOK(book)
  BY <1>1, <1>2, <1>3, <1>4, BookParts
<1>6. CallOK /\ IteratorOK
  BY <1>1, Records DEF CallOK, IteratorOK
<1>7. SidesSorted /\ NoLevelEmpty
  BY <1>1, Records DEF SidesSorted, SortedSide, NoLevelEmpty, Occupied
<1>8. NeverCrossed
  <2>1. "BID" \in Sides
    BY DEF Sides
  <2> QED BY <1>1, <2>1 DEF NeverCrossed
<1> QED BY <1>5, <1>6, <1>7, <1>8 DEF Inv, TypeOK

(* So every step of a running function preserves it.                        *)
LEMMA RunningOK ==
  ASSUME Inv, Running
  PROVE  Inv' /\ (NeverCrossed => NeverCrossed')
  BY MatchStepOK, MatchReturnOK, DeleteStepOK, ClearStepOK, DrainReturnOK,
     CollapseStepOK, CollapseReturnOK DEF Running

(* Steps that change nothing preserve it.                                   *)
LEMMA StutterOK ==
  ASSUME Inv, UNCHANGED vars
  PROVE  Inv' /\ (NeverCrossed => NeverCrossed')
<1>1. BookOK(book)' <=> BookOK(book)
  BY DEF vars
<1>2. (CallOK /\ IteratorOK)' <=> CallOK /\ IteratorOK
  BY DEF vars, CallOK, IteratorOK, Index
<1>3. (SidesSorted /\ NoLevelEmpty)' <=> SidesSorted /\ NoLevelEmpty
  BY DEF vars, SidesSorted, NoLevelEmpty
<1>4. NeverCrossed' <=> NeverCrossed
  BY DEF vars, NeverCrossed
<1> QED BY <1>1, <1>2, <1>3, <1>4 DEF Inv, TypeOK

(* The invariant is inductive.                                              *)
LEMMA StepOK ==
  ASSUME Inv, [Next]_vars
  PROVE  Inv'
<1>1. CASE Running
  BY <1>1, RunningOK
<1>2. CASE UNCHANGED vars
  BY <1>2, StutterOK
<1>3. CASE Halted
  BY <1>3, StutterOK DEF Halted
<1>4. CASE Calling
  BY <1>4, PlaceOrderOK, CancelOrderOK, AddOrderOK, DeleteOrderOK, SetLevelOK
     DEF Calling
<1> QED BY <1>1, <1>2, <1>3, <1>4 DEF Next

(* No link, head, tail, indexed node or iterator of the engine is ever out  *)
(* of the range of the object pool or of its vector of levels.              *)
THEOREM TypeCorrect == Spec => []TypeOK
<1>1. Init => Inv
  BY InitOK
<1>2. Inv /\ [Next]_vars => Inv'
  BY StepOK
<1>3. Inv => TypeOK
  BY DEF Inv
<1> QED BY <1>1, <1>2, <1>3, PTL DEF Spec

(* Both vectors of levels stay strictly sorted, best price first, under     *)
(* every entry point: the precondition of find_level and of front().        *)
THEOREM StaysSorted == Spec => []SidesSorted
<1>1. Init => Inv
  BY InitOK
<1>2. Inv /\ [Next]_vars => Inv'
  BY StepOK
<1>3. Inv => SidesSorted
  BY DEF Inv
<1> QED BY <1>1, <1>2, <1>3, PTL DEF Spec

(* A book driven by place_order, cancel_order and delete_order is never     *)
(* crossed, in the middle of a match either.  add_order and set_level put   *)
(* a price into the book without comparing it with the other side.          *)
THEOREM StaysUncrossed ==
  ASSUME Ops \subseteq {"place_order", "cancel_order", "delete_order"}
  PROVE  Spec => []NeverCrossed
<1> DEFINE CInv == Inv /\ NeverCrossed
<1>1. Init => CInv
  BY InitOK
<1>2. CInv /\ [Next]_vars => CInv'
  <2> SUFFICES ASSUME Inv, NeverCrossed, [Next]_vars
               PROVE  Inv' /\ NeverCrossed'
    OBVIOUS
  <2>1. CASE Running
    BY <2>1, RunningOK
  <2>2. CASE UNCHANGED vars \/ Halted
    BY <2>2, StutterOK DEF Halted
  <2>3. CASE Calling
    <3>1. "add_order" \notin Ops /\ "set_level" \notin Ops
      OBVIOUS
    <3> QED BY <2>3, <3>1, PlaceOrderOK, CancelOrderOK, DeleteOrderOK DEF Calling
  <2> QED BY <2>1, <2>2, <2>3 DEF Next
<1>3. CInv => NeverCrossed
  OBVIOUS
<1> QED BY <1>1, <1>2, <1>3, PTL DEF Spec

-----------------------------------------------------------------------------
(***************************************************************************)
(* The lists of the order book.  The links of a level's orders are indices *)
(* into the pool, and nothing in the book says how long a list is or where *)
(* in it a node stands; an invariant about next and prev alone is not      *)
(* inductive.  The proofs add two ghosts that describe a book: place[n] =  *)
(* [key, rank, sum] says for every slot in which level's list it stands,   *)
(* at which rank, and what the volumes up to it sum to; ends[key] = [head, *)
(* tail] are the ends of the list of a level.                              *)
(*                                                                         *)
(* Layout says that the links agree with the places.  The lemmas show for  *)
(* each way the code changes links (splicing a node out, appending one,    *)
(* changing the volume of the oldest) how the places change, and then for  *)
(* each member function that it is one of these ways.  No step follows a   *)
(* list from end to end.                                                   *)
(***************************************************************************)

-----------------------------------------------------------------------------
(* Where an order stands                                                    *)

(* The keys of the lists: a level is a side and a price.  A free slot has  *)
(* no key.                                                                 *)
Keys == Sides \X Prices
NoKey == <<>>

(* No two slots have the same place in the same list.                      *)
Distinct(N, place) ==
  \A n, m \in 1 .. N :
    /\ place[n].key \in Keys
    /\ place[m].key = place[n].key
    /\ place[m].rank = place[n].rank
    => m = n

(* A list is empty and its ends are null, or it has a head and a tail.     *)
Ends(N, ends, place) ==
  \A k \in Keys :
    \/ ends[k].head = 0 /\ ends[k].tail = 0 /\ \A n \in 1 .. N : place[n].key # k
    \/ /\ ends[k].head \in 1 .. N /\ place[ends[k].head].key = k
       /\ ends[k].tail \in 1 .. N /\ place[ends[k].tail].key = k

(* In a list prev leads one rank down and next one rank up, from the head  *)
(* at rank 1 to the tail at the highest.                                   *)
Linked(N, nodes, ends, place) ==
  \A n \in 1 .. N : \A k \in Keys : place[n].key = k =>
    /\ place[n].rank \in Int
    /\ 1 <= place[n].rank /\ place[n].rank <= place[ends[k].tail].rank
    /\ IF n = ends[k].head
         THEN nodes[n].prev = 0 /\ place[n].rank = 1
         ELSE /\ nodes[n].prev \in 1 .. N /\ place[nodes[n].prev].key = k
              /\ place[nodes[n].prev].rank = place[n].rank - 1
    /\ IF n = ends[k].tail
         THEN nodes[n].next = 0
         ELSE /\ nodes[n].next \in 1 .. N /\ place[nodes[n].next].key = k
              /\ place[nodes[n].next].rank = place[n].rank + 1

(* Every order has volume left, and its sum is that of the volumes up to   *)
(* it.                                                                     *)
Summed(N, nodes, ends, place) ==
  \A n \in 1 .. N : \A k \in Keys : place[n].key = k =>
    /\ place[n].sum \in Int
    /\ nodes[n].value.volume \in Int /\ nodes[n].value.volume > 0
    /\ place[n].sum = nodes[n].value.volume
                      + IF n = ends[k].head THEN 0 ELSE place[nodes[n].prev].sum

(* The N nodes form lists with these ends, every slot at its place.        *)
Layout(N, nodes, ends, place) ==
  /\ Distinct(N, place)
  /\ Ends(N, ends, place)
  /\ Linked(N, nodes, ends, place)
  /\ Summed(N, nodes, ends, place)

(* The neighbours of d are linked to each other; nothing else changes but  *)
(* d.                                                                      *)
SplicedNodes(N, nodes, nodes2, d) ==
  \A m \in 1 .. N : m # d =>
    /\ nodes2[m].next = IF m = nodes[d].prev THEN nodes[d].next ELSE nodes[m].next
    /\ nodes2[m].prev = IF m = nodes[d].next THEN nodes[d].prev ELSE nodes[m].prev
    /\ nodes2[m].value = nodes[m].value

(* The same with the ends of the list of d, as unlink and pop_front leave  *)
(* it.                                                                     *)
Spliced(N, nodes, nodes2, ends, ends2, key, d) ==
  /\ SplicedNodes(N, nodes, nodes2, d)
  /\ \A k \in Keys : k # key => ends2[k].head = ends[k].head /\ ends2[k].tail = ends[k].tail
  /\ ends2[key].head = IF nodes[d].prev = 0 THEN nodes[d].next ELSE ends[key].head
  /\ ends2[key].tail = IF nodes[d].next = 0 THEN nodes[d].prev ELSE ends[key].tail

(* The places after d has left: those behind it move up by one.            *)
Vacated(N, nodes, place, d) ==
  [m \in 1 .. N |->
     IF m = d THEN [key |-> NoKey, rank |-> 0, sum |-> 0]
     ELSE IF place[m].key = place[d].key /\ place[m].rank > place[d].rank
     THEN [key |-> place[m].key, rank |-> place[m].rank - 1,
           sum |-> place[m].sum - nodes[d].value.volume]
     ELSE place[m]]

(* The place of a slot other than d, field by field.                       *)
LEMMA VacatedFields ==
  ASSUME NEW N \in Nat, NEW nodes, NEW place, NEW d \in 1 .. N, NEW m \in 1 .. N, m # d
  PROVE  LET v == Vacated(N, nodes, place, d)
             later == place[m].key = place[d].key /\ place[m].rank > place[d].rank
         IN  /\ v[m].key = place[m].key
             /\ v[m].rank = IF later THEN place[m].rank - 1 ELSE place[m].rank
             /\ v[m].sum = IF later THEN place[m].sum - nodes[d].value.volume
                                    ELSE place[m].sum
  BY DEF Vacated

(* A free slot is in no list.                                              *)
LEMMA NoKeyIsNone == NoKey \notin Keys
  BY DEF NoKey, Keys

(* Splicing a node out of its list leaves proper lists: the places move    *)
(* up. The interesting cases are the neighbours of d and the ends of its   *)
(* list.                                                                   *)
LEMMA SpliceKeeps ==
  ASSUME NEW N \in Nat, NEW nodes, NEW ends, NEW place, Layout(N, nodes, ends, place),
         NEW d \in 1 .. N, NEW key \in Keys, place[d].key = key,
         NEW nodes2, NEW ends2,
         Spliced(N, nodes, nodes2, ends, ends2, key, d)
  PROVE  Layout(N, nodes2, ends2, Vacated(N, nodes, place, d))
<1> DEFINE v == Vacated(N, nodes, place, d)
<1>0. v[d].key = NoKey /\ \A k \in Keys : NoKey # k
  BY NoKeyIsNone DEF Vacated
<1>1. \A m \in 1 .. N : m # d =>
        /\ v[m].key = place[m].key
        /\ v[m].rank = IF place[m].key = key /\ place[m].rank > place[d].rank
                         THEN place[m].rank - 1 ELSE place[m].rank
        /\ v[m].sum = IF place[m].key = key /\ place[m].rank > place[d].rank
                        THEN place[m].sum - nodes[d].value.volume ELSE place[m].sum
  BY VacatedFields
<1> HIDE DEF v
<1>2. Distinct(N, v)
  BY <1>0, <1>1 DEF Layout, Distinct, Linked
<1> DEFINE before == nodes[d].prev
           after == nodes[d].next
           head == ends[key].head
           tail == ends[key].tail
<1>3. /\ head \in 1 .. N /\ tail \in 1 .. N
      /\ place[head].key = key /\ place[tail].key = key
  BY DEF Layout, Ends
<1>4. /\ place[d].rank \in Int
      /\ \A n \in 1 .. N : place[n].key = key =>
           /\ place[n].rank \in Int /\ 1 <= place[n].rank
           /\ place[n].rank <= place[tail].rank
           /\ n # d => place[n].rank # place[d].rank
           /\ n # head => place[n].rank # 1
  BY <1>3 DEF Layout, Linked, Distinct
<1>5. \/ d = head /\ before = 0 /\ place[d].rank = 1
      \/ /\ d # head /\ before \in 1 .. N /\ before # d /\ before # 0
         /\ place[before].key = key /\ place[before].rank = place[d].rank - 1
  BY DEF Layout, Linked
<1>6. \/ d = tail /\ after = 0
      \/ /\ d # tail /\ after \in 1 .. N /\ after # d /\ after # 0
         /\ place[after].key = key /\ place[after].rank = place[d].rank + 1
  BY DEF Layout, Linked
<1>7. /\ ends2[key].head = IF before = 0 THEN after ELSE head
      /\ ends2[key].tail = IF after = 0 THEN before ELSE tail
      /\ \A k \in Keys : k # key => ends2[k].head = ends[k].head /\ ends2[k].tail = ends[k].tail
      /\ \A m \in 1 .. N : m # d =>
           /\ nodes2[m].next = IF m = before THEN after ELSE nodes[m].next
           /\ nodes2[m].prev = IF m = after THEN before ELSE nodes[m].prev
           /\ nodes2[m].value = nodes[m].value
  BY DEF Spliced, SplicedNodes
<1>8. ASSUME NEW n \in 1 .. N, place[n].key = key, n # d
      PROVE  /\ IF n = head THEN nodes[n].prev = 0 /\ place[n].rank = 1
                 ELSE /\ nodes[n].prev \in 1 .. N /\ place[nodes[n].prev].key = key
                      /\ place[nodes[n].prev].rank = place[n].rank - 1
             /\ IF n = tail THEN nodes[n].next = 0
                 ELSE /\ nodes[n].next \in 1 .. N /\ place[nodes[n].next].key = key
                      /\ place[nodes[n].next].rank = place[n].rank + 1
             /\ n = after <=> nodes[n].prev = d
             /\ n = before <=> nodes[n].next = d
             /\ n = after => place[n].rank = place[d].rank + 1
             /\ n = before => place[n].rank = place[d].rank - 1
  <2>1. /\ IF n = head THEN nodes[n].prev = 0 /\ place[n].rank = 1
            ELSE /\ nodes[n].prev \in 1 .. N /\ place[nodes[n].prev].key = key
                 /\ place[nodes[n].prev].rank = place[n].rank - 1
        /\ IF n = tail THEN nodes[n].next = 0
            ELSE /\ nodes[n].next \in 1 .. N /\ place[nodes[n].next].key = key
                 /\ place[nodes[n].next].rank = place[n].rank + 1
    BY <1>8 DEF Layout, Linked
  <2>2. \A m \in 1 .. N : place[m].key = key /\ place[m].rank = place[n].rank => m = n
    BY <1>8 DEF Layout, Distinct
  <2>3. \A m \in 1 .. N : place[m].key = key /\ place[m].rank = place[d].rank => m = d
    BY <1>8 DEF Layout, Distinct
  <2>4. n = after => nodes[n].prev = d
    BY <1>3, <1>4, <1>6, <1>8, <2>1, <2>3
  <2>5. nodes[n].prev = d => n = after
    BY <1>3, <1>4, <1>6, <1>8, <2>1, <2>2
  <2>6. n = before => nodes[n].next = d
    BY <1>3, <1>4, <1>5, <1>8, <2>1, <2>3
  <2>7. nodes[n].next = d => n = before
    BY <1>3, <1>4, <1>5, <1>8, <2>1, <2>2
  <2> QED BY <1>5, <1>6, <2>1, <2>4, <2>5, <2>6, <2>7
<1>9. ASSUME NEW k \in Keys, k # key, NEW n \in 1 .. N, place[n].key = k
      PROVE  /\ n # d /\ n # before /\ n # after
             /\ v[n].key = k /\ v[n].rank = place[n].rank /\ v[n].sum = place[n].sum
             /\ nodes2[n].next = nodes[n].next /\ nodes2[n].prev = nodes[n].prev
             /\ nodes2[n].value = nodes[n].value
  BY <1>1, <1>5, <1>6, <1>7, <1>9
<1> HIDE DEF before, after, head, tail
<1>10. Ends(N, ends2, v)
  <2> SUFFICES ASSUME NEW k \in Keys
               PROVE  \/ /\ ends2[k].head = 0 /\ ends2[k].tail = 0
                         /\ \A n \in 1 .. N : v[n].key # k
                      \/ /\ ends2[k].head \in 1 .. N /\ v[ends2[k].head].key = k
                         /\ ends2[k].tail \in 1 .. N /\ v[ends2[k].tail].key = k
    BY DEF Ends
  <2>1. CASE k # key
    <3>1. \A n \in 1 .. N : v[n].key = k <=> place[n].key = k
      BY <1>0, <1>1, <2>1
    <3>2. ends2[k].head = ends[k].head /\ ends2[k].tail = ends[k].tail
      BY <1>7, <2>1
    <3>3. \/ ends[k].head = 0 /\ ends[k].tail = 0 /\ \A n \in 1 .. N : place[n].key # k
          \/ /\ ends[k].head \in 1 .. N /\ place[ends[k].head].key = k
             /\ ends[k].tail \in 1 .. N /\ place[ends[k].tail].key = k
      BY DEF Layout, Ends
    <3> QED BY <3>1, <3>2, <3>3
  <2>2. CASE k = key
    <3>1. CASE before = 0 /\ after = 0
      <4>1. \A n \in 1 .. N : place[n].key = key => n = d
        BY <1>3, <1>4, <1>5, <1>6, <3>1
      <4> QED BY <1>0, <1>1, <1>7, <2>2, <3>1, <4>1
    <3>2. CASE ~(before = 0 /\ after = 0)
      BY <1>1, <1>3, <1>5, <1>6, <1>7, <2>2, <3>2
    <3> QED BY <3>1, <3>2
  <2> QED BY <2>1, <2>2
<1>11. Linked(N, nodes2, ends2, v)
  <2> SUFFICES ASSUME NEW n \in 1 .. N, NEW k \in Keys, v[n].key = k
               PROVE  /\ v[n].rank \in Int
                      /\ 1 <= v[n].rank /\ v[n].rank <= v[ends2[k].tail].rank
                      /\ IF n = ends2[k].head
                           THEN nodes2[n].prev = 0 /\ v[n].rank = 1
                           ELSE /\ nodes2[n].prev \in 1 .. N /\ v[nodes2[n].prev].key = k
                                /\ v[nodes2[n].prev].rank = v[n].rank - 1
                      /\ IF n = ends2[k].tail
                           THEN nodes2[n].next = 0
                           ELSE /\ nodes2[n].next \in 1 .. N /\ v[nodes2[n].next].key = k
                                /\ v[nodes2[n].next].rank = v[n].rank + 1
    BY DEF Linked
  <2>1. n # d /\ place[n].key = k
    BY <1>0, <1>1
  <2>2. CASE k # key
    <3>1. /\ place[n].rank \in Int
          /\ 1 <= place[n].rank /\ place[n].rank <= place[ends[k].tail].rank
          /\ IF n = ends[k].head
               THEN nodes[n].prev = 0 /\ place[n].rank = 1
               ELSE /\ nodes[n].prev \in 1 .. N /\ place[nodes[n].prev].key = k
                    /\ place[nodes[n].prev].rank = place[n].rank - 1
          /\ IF n = ends[k].tail
               THEN nodes[n].next = 0
               ELSE /\ nodes[n].next \in 1 .. N /\ place[nodes[n].next].key = k
                    /\ place[nodes[n].next].rank = place[n].rank + 1
      BY <2>1 DEF Layout, Linked
    <3>2. ends[k].tail \in 1 .. N /\ place[ends[k].tail].key = k
      BY <2>1 DEF Layout, Ends
    <3>3. ends2[k].head = ends[k].head /\ ends2[k].tail = ends[k].tail
      BY <1>7, <2>2
    <3> QED BY <1>9, <2>1, <2>2, <3>1, <3>2, <3>3
  <2>3. CASE k = key
    <3>1. v[n].rank \in Int /\ 1 <= v[n].rank
      BY <1>1, <1>4, <2>1, <2>3
    <3>2. v[n].rank <= v[ends2[k].tail].rank
      <4>1. CASE after = 0
        BY <1>1, <1>3, <1>4, <1>5, <1>6, <1>7, <2>1, <2>3, <4>1
      <4>2. CASE after # 0
        BY <1>1, <1>3, <1>4, <1>5, <1>6, <1>7, <2>1, <2>3, <4>2
      <4> QED BY <4>1, <4>2
    <3>3. IF n = ends2[k].head
           THEN nodes2[n].prev = 0 /\ v[n].rank = 1
           ELSE /\ nodes2[n].prev \in 1 .. N /\ v[nodes2[n].prev].key = k
                /\ v[nodes2[n].prev].rank = v[n].rank - 1
      <4>1. CASE n = after
        <5>1. /\ nodes2[n].prev = before /\ v[n].rank = place[d].rank
              /\ place[n].rank = place[d].rank + 1
          BY <1>1, <1>4, <1>7, <1>8, <2>1, <2>3, <4>1
        <5>2. CASE before = 0
          BY <1>5, <1>7, <2>3, <4>1, <5>1, <5>2
        <5>3. CASE before # 0
          <6>1. /\ before \in 1 .. N /\ before # d /\ place[before].key = key
                /\ place[before].rank = place[d].rank - 1
            BY <1>5, <5>3
          <6>2. v[before].key = key /\ v[before].rank = place[d].rank - 1
            BY <1>1, <1>4, <6>1
          <6>3. n # head
            BY <1>4, <1>8, <2>1, <2>3, <5>1, <6>1
          <6> QED BY <1>7, <2>3, <5>1, <5>3, <6>1, <6>2, <6>3
        <5> QED BY <5>2, <5>3
      <4>2. CASE n # after /\ n = head
        BY <1>1, <1>3, <1>4, <1>5, <1>6, <1>7, <1>8, <2>1, <2>3, <4>2
      <4>3. CASE n # after /\ n # head
        <5>1. nodes2[n].prev = nodes[n].prev /\ n # ends2[k].head
          BY <1>5, <1>6, <1>7, <2>1, <2>3, <4>3
        <5>2. /\ nodes[n].prev \in 1 .. N /\ place[nodes[n].prev].key = key
              /\ place[nodes[n].prev].rank = place[n].rank - 1 /\ nodes[n].prev # d
          BY <1>8, <2>1, <2>3, <4>3
        <5> DEFINE m == nodes[n].prev
        <5> HIDE DEF m
        <5>3. v[m].key = key /\ v[m].rank = v[n].rank - 1
          BY <1>1, <1>4, <2>1, <2>3, <5>2 DEF m
        <5> QED BY <2>3, <5>1, <5>2, <5>3 DEF m
      <4> QED BY <4>1, <4>2, <4>3
    <3>4. IF n = ends2[k].tail
           THEN nodes2[n].next = 0
           ELSE /\ nodes2[n].next \in 1 .. N /\ v[nodes2[n].next].key = k
                /\ v[nodes2[n].next].rank = v[n].rank + 1
      <4>1. CASE n = before
        BY <1>1, <1>3, <1>4, <1>5, <1>6, <1>7, <1>8, <2>1, <2>3, <4>1
      <4>2. CASE n # before
        BY <1>1, <1>3, <1>4, <1>5, <1>6, <1>7, <1>8, <2>1, <2>3, <4>2
      <4> QED BY <4>1, <4>2
    <3> QED BY <3>1, <3>2, <3>3, <3>4
  <2> QED BY <2>2, <2>3
<1>12. Summed(N, nodes2, ends2, v)
  <2> SUFFICES ASSUME NEW n \in 1 .. N, NEW k \in Keys, v[n].key = k
               PROVE  /\ v[n].sum \in Int
                      /\ nodes2[n].value.volume \in Int /\ nodes2[n].value.volume > 0
                      /\ v[n].sum = nodes2[n].value.volume
                           + IF n = ends2[k].head THEN 0 ELSE v[nodes2[n].prev].sum
    BY DEF Summed
  <2>1. n # d /\ place[n].key = k
    BY <1>0, <1>1
  <2>2. \A m \in 1 .. N : place[m].key = k =>
          /\ place[m].sum \in Int
          /\ nodes[m].value.volume \in Int /\ nodes[m].value.volume > 0
          /\ place[m].sum = nodes[m].value.volume
                            + IF m = ends[k].head THEN 0 ELSE place[nodes[m].prev].sum
    BY DEF Layout, Summed
  <2>3. CASE k # key
    <3>1. n # ends[k].head => nodes[n].prev \in 1 .. N /\ place[nodes[n].prev].key = k
      BY <2>1 DEF Layout, Linked
    <3>2. ends2[k].head = ends[k].head
      BY <1>7, <2>3
    <3> QED BY <1>9, <2>1, <2>2, <2>3, <3>1, <3>2
  <2>4. CASE k = key
    <3>1. nodes[d].value.volume \in Int
      BY <2>2, <2>4
    <3>2. /\ v[n].sum \in Int
          /\ nodes2[n].value.volume \in Int /\ nodes2[n].value.volume > 0
      BY <1>1, <1>7, <2>1, <2>2, <2>4, <3>1
    <3>3. CASE n = after
      <4>1. /\ nodes2[n].prev = before /\ place[n].rank = place[d].rank + 1
            /\ nodes[n].prev = d /\ nodes2[n].value = nodes[n].value /\ n # head
        BY <1>3, <1>4, <1>7, <1>8, <2>1, <2>4, <3>3
      <4>2. /\ place[n].sum = nodes[n].value.volume + place[d].sum
            /\ place[d].sum = nodes[d].value.volume
                              + IF d = head THEN 0 ELSE place[before].sum
            /\ nodes[n].value.volume \in Int /\ place[d].sum \in Int
        BY <2>1, <2>2, <2>4, <4>1 DEF head, before
      <4>3. v[n].sum = place[n].sum - nodes[d].value.volume
        BY <1>1, <1>4, <2>1, <2>4, <4>1
      <4>4. CASE before = 0
        BY <1>5, <1>7, <2>4, <3>1, <3>2, <3>3, <4>1, <4>2, <4>3, <4>4
      <4>5. CASE before # 0
        <5>1. /\ before \in 1 .. N /\ before # d /\ place[before].key = key /\ d # head
              /\ place[before].rank = place[d].rank - 1
          BY <1>5, <4>5
        <5>2. v[before].sum = place[before].sum /\ place[before].sum \in Int
          BY <1>1, <1>4, <2>2, <2>4, <5>1
        <5>3. n # ends2[k].head
          BY <1>7, <2>4, <4>1, <4>5
        <5> QED BY <3>1, <3>2, <4>1, <4>2, <4>3, <5>1, <5>2, <5>3
      <4> QED BY <4>4, <4>5
    <3>4. CASE n # after /\ n = head
      BY <1>1, <1>3, <1>4, <1>5, <1>6, <1>7, <1>8, <2>1, <2>2, <2>4, <3>1, <3>4
         DEF head
    <3>5. CASE n # after /\ n # head
      <4>1. nodes2[n].prev = nodes[n].prev /\ n # ends2[k].head
        BY <1>5, <1>6, <1>7, <2>1, <2>4, <3>5
      <4>2. /\ nodes[n].prev \in 1 .. N /\ place[nodes[n].prev].key = key
            /\ place[nodes[n].prev].rank = place[n].rank - 1 /\ nodes[n].prev # d
        BY <1>8, <2>1, <2>4, <3>5
      <4> DEFINE m == nodes[n].prev
      <4>3. place[n].sum = nodes[n].value.volume + place[m].sum
        BY <2>1, <2>2, <2>4, <3>5 DEF head
      <4>4. place[m].sum \in Int /\ nodes[n].value.volume \in Int
        BY <2>1, <2>2, <2>4, <4>2
      <4> HIDE DEF m
      <4>5. v[n].sum = nodes[n].value.volume + v[m].sum
        BY <1>1, <1>4, <2>1, <2>4, <3>1, <4>2, <4>3, <4>4 DEF m
      <4>6. nodes2[n].value = nodes[n].value
        BY <1>7, <2>1
      <4> QED BY <3>2, <4>1, <4>5, <4>6 DEF m
    <3> QED BY <3>2, <3>3, <3>4, <3>5
  <2> QED BY <2>3, <2>4
<1> QED BY <1>2, <1>10, <1>11, <1>12 DEF Layout, v

(* What the orders of a list sum to: the running sum at its tail.           *)
TailSum(ends, place, k) == IF ends[k].head = 0 THEN 0 ELSE place[ends[k].tail].sum

(* From one layout to another the sum of the list of key moves by delta.    *)
SumMoves(ends, place, ends2, place2, key, delta) ==
  \A k \in Keys : TailSum(ends2, place2, k) =
                    TailSum(ends, place, k) + IF k = key THEN delta ELSE 0

(* Splicing a node out takes its volume from the sum of its list, and from *)
(* no other.                                                               *)
LEMMA SpliceSum ==
  ASSUME NEW N \in Nat, NEW nodes, NEW ends, NEW place, Layout(N, nodes, ends, place),
         NEW d \in 1 .. N, NEW key \in Keys, place[d].key = key,
         NEW nodes2, NEW ends2,
         Spliced(N, nodes, nodes2, ends, ends2, key, d)
  PROVE  SumMoves(ends, place, ends2, Vacated(N, nodes, place, d),
                  key, 0 - nodes[d].value.volume)
<1> DEFINE v == Vacated(N, nodes, place, d)
           before == nodes[d].prev
           after == nodes[d].next
           head == ends[key].head
           tail == ends[key].tail
<1>1. \A m \in 1 .. N : m # d =>
        v[m].sum = IF place[m].key = key /\ place[m].rank > place[d].rank
                     THEN place[m].sum - nodes[d].value.volume ELSE place[m].sum
  BY VacatedFields
<1> HIDE DEF v
<1>2. /\ head \in 1 .. N /\ tail \in 1 .. N /\ head # 0
      /\ place[head].key = key /\ place[tail].key = key
  BY DEF Layout, Ends
<1>3. /\ place[d].rank \in Int /\ place[tail].rank \in Int
      /\ place[d].rank <= place[tail].rank
      /\ d # tail => place[d].rank # place[tail].rank
  BY <1>2 DEF Layout, Linked, Distinct
<1>4. \/ d = head /\ before = 0
      \/ /\ d # head /\ before \in 1 .. N /\ before # d /\ before # 0
         /\ place[before].key = key /\ place[before].rank = place[d].rank - 1
  BY DEF Layout, Linked
<1>5. \/ d = tail /\ after = 0
      \/ d # tail /\ after \in 1 .. N /\ after # 0
  BY DEF Layout, Linked
<1>6. /\ ends2[key].head = IF before = 0 THEN after ELSE head
      /\ ends2[key].tail = IF after = 0 THEN before ELSE tail
      /\ \A k \in Keys : k # key => ends2[k].head = ends[k].head /\ ends2[k].tail = ends[k].tail
  BY DEF Spliced
<1>7. /\ place[d].sum = nodes[d].value.volume + IF d = head THEN 0 ELSE place[before].sum
      /\ nodes[d].value.volume \in Int
      /\ \A m \in 1 .. N : \A k \in Keys : place[m].key = k => place[m].sum \in Int
  BY DEF Layout, Summed
<1> SUFFICES ASSUME NEW k \in Keys
             PROVE  TailSum(ends2, v, k) = TailSum(ends, place, k)
                      + IF k = key THEN 0 - nodes[d].value.volume ELSE 0
  BY DEF SumMoves, v
<1> HIDE DEF before, after, head, tail
<1>8. CASE k = key
  <2>1. TailSum(ends, place, k) = place[tail].sum /\ place[tail].sum \in Int
    BY <1>2, <1>7, <1>8 DEF TailSum, head, tail
  <2>2. CASE after # 0
    BY <1>1, <1>2, <1>3, <1>5, <1>6, <1>7, <1>8, <2>1, <2>2 DEF TailSum
  <2>3. CASE after = 0 /\ before # 0
    <3>1. TailSum(ends2, v, k) = place[before].sum /\ place[before].sum \in Int
      BY <1>1, <1>2, <1>3, <1>4, <1>6, <1>7, <1>8, <2>3 DEF TailSum
    <3> QED BY <1>4, <1>5, <1>7, <1>8, <2>1, <2>3, <3>1
  <2>4. CASE after = 0 /\ before = 0
    BY <1>4, <1>5, <1>6, <1>7, <1>8, <2>1, <2>4 DEF TailSum
  <2> QED BY <2>2, <2>3, <2>4
<1>9. CASE k # key
  <2>1. ends[k].head # 0 => ends[k].tail \in 1 .. N /\ place[ends[k].tail].key = k
    BY DEF Layout, Ends
  <2>2. ends[k].head # 0 => v[ends[k].tail].sum = place[ends[k].tail].sum
                            /\ place[ends[k].tail].sum \in Int
    BY <1>1, <1>7, <1>9, <2>1
  <2> QED BY <1>6, <1>9, <2>2 DEF TailSum
<1> QED BY <1>8, <1>9

-----------------------------------------------------------------------------
(* Changing the volume of the oldest order                                  *)

(* The order in slot h has volume w; the links are as they were.           *)
Revalued(N, nodes, nodes2, h, w) ==
  /\ \A m \in 1 .. N :
       /\ nodes2[m].next = nodes[m].next
       /\ nodes2[m].prev = nodes[m].prev
       /\ m # h => nodes2[m].value = nodes[m].value
  /\ nodes2[h].value.volume = w

(* All running sums of the list of h move by delta.                         *)
Shifted(N, place, h, delta) ==
  [m \in 1 .. N |->
     IF place[m].key = place[h].key
       THEN [key |-> place[m].key, rank |-> place[m].rank, sum |-> place[m].sum + delta]
       ELSE place[m]]

(* A new positive volume for the oldest order keeps the lists and moves    *)
(* the sum of its list by the difference.                                  *)
LEMMA RevalueKeeps ==
  ASSUME NEW N \in Nat, NEW nodes, NEW ends, NEW place, Layout(N, nodes, ends, place),
         NEW key \in Keys, NEW h \in 1 .. N, h = ends[key].head,
         NEW w \in Int, w > 0, NEW nodes2, Revalued(N, nodes, nodes2, h, w)
  PROVE  LET v == Shifted(N, place, h, w - nodes[h].value.volume) IN
         /\ Layout(N, nodes2, ends, v)
         /\ SumMoves(ends, place, ends, v, key, w - nodes[h].value.volume)
<1> DEFINE delta == w - nodes[h].value.volume
           v == Shifted(N, place, h, delta)
<1>1. place[h].key = key
  BY DEF Layout, Ends
<1>2. \A m \in 1 .. N :
        /\ v[m].key = place[m].key /\ v[m].rank = place[m].rank
        /\ v[m].sum = IF place[m].key = key THEN place[m].sum + delta ELSE place[m].sum
  BY <1>1 DEF Shifted
<1>3. nodes[h].value.volume \in Int /\ delta \in Int
  BY <1>1 DEF Layout, Summed
<1>4. \A n \in 1 .. N : \A k \in Keys : place[n].key = k =>
        /\ place[n].sum \in Int
        /\ nodes[n].value.volume \in Int /\ nodes[n].value.volume > 0
        /\ place[n].sum = nodes[n].value.volume
                          + IF n = ends[k].head THEN 0 ELSE place[nodes[n].prev].sum
        /\ n # ends[k].head => nodes[n].prev \in 1 .. N /\ place[nodes[n].prev].key = k
  BY DEF Layout, Summed, Linked
<1>d. delta + nodes[h].value.volume = w
  BY <1>3
<1> HIDE DEF v, delta
<1>5. Distinct(N, v)
  BY <1>2 DEF Layout, Distinct
<1>6. Ends(N, ends, v)
  BY <1>2 DEF Layout, Ends
<1>7. Linked(N, nodes2, ends, v)
  <2> SUFFICES ASSUME NEW n \in 1 .. N, NEW k \in Keys, v[n].key = k
               PROVE  /\ v[n].rank \in Int
                      /\ 1 <= v[n].rank /\ v[n].rank <= v[ends[k].tail].rank
                      /\ IF n = ends[k].head
                           THEN nodes2[n].prev = 0 /\ v[n].rank = 1
                           ELSE /\ nodes2[n].prev \in 1 .. N /\ v[nodes2[n].prev].key = k
                                /\ v[nodes2[n].prev].rank = v[n].rank - 1
                      /\ IF n = ends[k].tail
                           THEN nodes2[n].next = 0
                           ELSE /\ nodes2[n].next \in 1 .. N /\ v[nodes2[n].next].key = k
                                /\ v[nodes2[n].next].rank = v[n].rank + 1
    BY DEF Linked
  <2>1. place[n].key = k /\ ends[k].tail \in 1 .. N
    BY <1>2 DEF Layout, Ends
  <2>2. nodes2[n].next = nodes[n].next /\ nodes2[n].prev = nodes[n].prev
    BY DEF Revalued
  <2>3. /\ place[n].rank \in Int
        /\ 1 <= place[n].rank /\ place[n].rank <= place[ends[k].tail].rank
        /\ IF n = ends[k].head
             THEN nodes[n].prev = 0 /\ place[n].rank = 1
             ELSE /\ nodes[n].prev \in 1 .. N /\ place[nodes[n].prev].key = k
                  /\ place[nodes[n].prev].rank = place[n].rank - 1
        /\ IF n = ends[k].tail
             THEN nodes[n].next = 0
             ELSE /\ nodes[n].next \in 1 .. N /\ place[nodes[n].next].key = k
                  /\ place[nodes[n].next].rank = place[n].rank + 1
    BY <2>1 DEF Layout, Linked
  <2> HIDE DEF v
  <2> QED BY <1>2, <2>1, <2>2, <2>3
<1>8. Summed(N, nodes2, ends, v)
  <2> SUFFICES ASSUME NEW n \in 1 .. N, NEW k \in Keys, v[n].key = k
               PROVE  /\ v[n].sum \in Int
                      /\ nodes2[n].value.volume \in Int /\ nodes2[n].value.volume > 0
                      /\ v[n].sum = nodes2[n].value.volume
                           + IF n = ends[k].head THEN 0 ELSE v[nodes2[n].prev].sum
    BY DEF Summed
  <2>1. place[n].key = k /\ nodes2[n].prev = nodes[n].prev
    BY <1>2 DEF Revalued
  <2>2. CASE n = h
    <3>1. k = key /\ nodes2[n].value.volume = w /\ n = ends[k].head
      BY <1>1, <2>1, <2>2 DEF Revalued
    <3> QED BY <1>2, <1>3, <1>4, <1>d, <2>1, <2>2, <3>1
  <2>3. CASE n # h
    <3>1. nodes2[n].value = nodes[n].value
      BY <2>3 DEF Revalued
    <3>2. CASE k = key
      BY <1>2, <1>3, <1>4, <2>1, <2>3, <3>1, <3>2
    <3>3. CASE k # key
      BY <1>2, <1>4, <2>1, <3>1, <3>3
    <3> QED BY <3>2, <3>3
  <2> QED BY <2>2, <2>3
<1>9. ASSUME NEW k \in Keys
      PROVE  TailSum(ends, v, k) = TailSum(ends, place, k) + IF k = key THEN delta ELSE 0
  <2>1. ends[k].head # 0 => ends[k].tail \in 1 .. N /\ place[ends[k].tail].key = k
    BY DEF Layout, Ends
  <2>2. ends[key].head # 0
    OBVIOUS
  <2> QED BY <1>2, <1>3, <1>4, <2>1, <2>2 DEF TailSum
<1> QED BY <1>5, <1>6, <1>7, <1>8, <1>9 DEF Layout, SumMoves, v, delta

-----------------------------------------------------------------------------
(* Appending an order                                                       *)

(* node, with volume w, is linked behind the tail of the list of key.      *)
Appended(N, nodes, nodes2, ends, ends2, key, node, w) ==
  /\ \A m \in 1 .. N : m # node =>
       /\ nodes2[m].next = IF m = ends[key].tail THEN node ELSE nodes[m].next
       /\ nodes2[m].prev = nodes[m].prev
       /\ nodes2[m].value = nodes[m].value
  /\ nodes2[node].next = 0 /\ nodes2[node].prev = ends[key].tail
  /\ nodes2[node].value.volume = w
  /\ \A k \in Keys : k # key => ends2[k].head = ends[k].head /\ ends2[k].tail = ends[k].tail
  /\ ends2[key].head = IF ends[key].tail = 0 THEN node ELSE ends[key].head
  /\ ends2[key].tail = node

(* The places after node has joined the list of key.                       *)
Joined(N, place, ends, key, node, w) ==
  [m \in 1 .. N |->
     IF m = node
       THEN [key  |-> key,
             rank |-> IF ends[key].tail = 0 THEN 1 ELSE place[ends[key].tail].rank + 1,
             sum  |-> w + TailSum(ends, place, key)]
       ELSE place[m]]

(* In v the orders are where they were, and w has joined the list of key.  *)
JoinedBy(N, nodes, place, ends, M, nodes2, v, key, node, w) ==
  /\ N <= M /\ node \in 1 .. M
  /\ \A m \in 1 .. M : m # node => m \in 1 .. N /\ nodes2[m].value = nodes[m].value
  /\ node \in 1 .. N => place[node].key \notin Keys
  /\ nodes2[node].value = w
  /\ v = Joined(M, place, ends, key, node, w.volume)

(* Appending an order in a slot no list uses keeps the lists and adds its  *)
(* volume to the sum of the list it joins.                                 *)
LEMMA AppendKeeps ==
  ASSUME NEW N \in Nat, NEW nodes, NEW ends, NEW place, Layout(N, nodes, ends, place),
         NEW key \in Keys, NEW M \in Nat, NEW node \in 1 .. M,
         N <= M, \A m \in 1 .. M : m # node => m \in 1 .. N,
         node \in 1 .. N => place[node].key \notin Keys,
         NEW w \in Int, w > 0, NEW nodes2, NEW ends2,
         Appended(N, nodes, nodes2, ends, ends2, key, node, w)
  PROVE  LET v == Joined(M, place, ends, key, node, w) IN
         /\ Layout(M, nodes2, ends2, v)
         /\ SumMoves(ends, place, ends2, v, key, w)
<1> DEFINE head == ends[key].head
           tail == ends[key].tail
           v == Joined(M, place, ends, key, node, w)
<1>1. /\ v[node].key = key
      /\ v[node].rank = IF tail = 0 THEN 1 ELSE place[tail].rank + 1
      /\ v[node].sum = w + TailSum(ends, place, key)
      /\ \A m \in 1 .. M : m # node =>
           v[m].key = place[m].key /\ v[m].rank = place[m].rank /\ v[m].sum = place[m].sum
  BY DEF Joined
<1>2. \/ head = 0 /\ tail = 0 /\ \A n \in 1 .. N : place[n].key # key
      \/ /\ head \in 1 .. N /\ place[head].key = key /\ head # node /\ head # 0
         /\ tail \in 1 .. N /\ place[tail].key = key /\ tail # node /\ tail # 0
  BY DEF Layout, Ends
<1>3. \A n \in 1 .. N : place[n].key = key =>
        /\ place[n].rank \in Int /\ 1 <= place[n].rank
        /\ place[n].rank <= place[tail].rank
        /\ place[n].sum \in Int
  BY DEF Layout, Linked, Summed
<1>4. \A m \in 1 .. M : \A k \in Keys : m # node /\ place[m].key = k =>
        /\ m \in 1 .. N
        /\ place[m].rank \in Int /\ 1 <= place[m].rank
        /\ place[m].rank <= place[ends[k].tail].rank
        /\ ends[k].tail \in 1 .. N /\ ends[k].tail # node
        /\ place[ends[k].tail].key = k
        /\ IF m = ends[k].head
             THEN nodes[m].prev = 0 /\ place[m].rank = 1
             ELSE /\ nodes[m].prev \in 1 .. N /\ place[nodes[m].prev].key = k
                  /\ place[nodes[m].prev].rank = place[m].rank - 1
                  /\ nodes[m].prev # node
        /\ IF m = ends[k].tail
             THEN nodes[m].next = 0
             ELSE /\ nodes[m].next \in 1 .. N /\ place[nodes[m].next].key = k
                  /\ place[nodes[m].next].rank = place[m].rank + 1
                  /\ nodes[m].next # node
  <2> SUFFICES ASSUME NEW m \in 1 .. M, NEW k \in Keys, m # node, place[m].key = k
               PROVE  /\ m \in 1 .. N
                      /\ place[m].rank \in Int /\ 1 <= place[m].rank
                      /\ place[m].rank <= place[ends[k].tail].rank
                      /\ ends[k].tail \in 1 .. N /\ ends[k].tail # node
                      /\ place[ends[k].tail].key = k
                      /\ IF m = ends[k].head
                           THEN nodes[m].prev = 0 /\ place[m].rank = 1
                           ELSE /\ nodes[m].prev \in 1 .. N /\ place[nodes[m].prev].key = k
                                /\ place[nodes[m].prev].rank = place[m].rank - 1
                                /\ nodes[m].prev # node
                      /\ IF m = ends[k].tail
                           THEN nodes[m].next = 0
                           ELSE /\ nodes[m].next \in 1 .. N /\ place[nodes[m].next].key = k
                                /\ place[nodes[m].next].rank = place[m].rank + 1
                                /\ nodes[m].next # node
    OBVIOUS
  <2>1. m \in 1 .. N
    OBVIOUS
  <2>2. ends[k].tail \in 1 .. N /\ place[ends[k].tail].key = k /\ ends[k].tail # node
    BY <2>1 DEF Layout, Ends
  <2> QED BY <2>1, <2>2 DEF Layout, Linked
<1>5. /\ \A m \in 1 .. N : m # node =>
           /\ nodes2[m].next = IF m = tail THEN node ELSE nodes[m].next
           /\ nodes2[m].prev = nodes[m].prev
           /\ nodes2[m].value = nodes[m].value
      /\ nodes2[node].next = 0 /\ nodes2[node].prev = tail
      /\ nodes2[node].value.volume = w
      /\ \A k \in Keys : k # key => ends2[k].head = ends[k].head /\ ends2[k].tail = ends[k].tail
      /\ ends2[key].head = IF tail = 0 THEN node ELSE head
      /\ ends2[key].tail = node
  BY DEF Appended
<1>6. TailSum(ends, place, key) \in Int
  BY <1>2, <1>3 DEF TailSum
<1>7. 1 .. N \subseteq 1 .. M
  OBVIOUS
<1> HIDE DEF v
<1>8. Distinct(M, v)
  <2> SUFFICES ASSUME NEW n \in 1 .. M, NEW m \in 1 .. M, v[n].key \in Keys,
                      v[m].key = v[n].key, v[m].rank = v[n].rank
               PROVE  m = n
    BY DEF Distinct
  <2>1. CASE n # node /\ m # node
    BY <1>1, <2>1 DEF Layout, Distinct
  <2>2. CASE n = node /\ m # node
    BY <1>1, <1>2, <1>3, <2>2
  <2>3. CASE n # node /\ m = node
    BY <1>1, <1>2, <1>3, <2>3
  <2> QED BY <2>1, <2>2, <2>3
<1>9. Ends(M, ends2, v)
  <2> SUFFICES ASSUME NEW k \in Keys
               PROVE  \/ /\ ends2[k].head = 0 /\ ends2[k].tail = 0
                         /\ \A n \in 1 .. M : v[n].key # k
                      \/ /\ ends2[k].head \in 1 .. M /\ v[ends2[k].head].key = k
                         /\ ends2[k].tail \in 1 .. M /\ v[ends2[k].tail].key = k
    BY DEF Ends
  <2>1. CASE k = key
    BY <1>1, <1>2, <1>5, <1>7, <2>1
  <2>2. CASE k # key
    <3>1. \/ ends[k].head = 0 /\ ends[k].tail = 0 /\ \A n \in 1 .. N : place[n].key # k
          \/ /\ ends[k].head \in 1 .. N /\ place[ends[k].head].key = k /\ ends[k].head # node
             /\ ends[k].tail \in 1 .. N /\ place[ends[k].tail].key = k /\ ends[k].tail # node
      BY DEF Layout, Ends
    <3> QED BY <1>1, <1>5, <1>7, <2>2, <3>1
  <2> QED BY <2>1, <2>2
<1>10. Linked(M, nodes2, ends2, v)
  <2> SUFFICES ASSUME NEW n \in 1 .. M, NEW k \in Keys, v[n].key = k
               PROVE  /\ v[n].rank \in Int
                      /\ 1 <= v[n].rank /\ v[n].rank <= v[ends2[k].tail].rank
                      /\ IF n = ends2[k].head
                           THEN nodes2[n].prev = 0 /\ v[n].rank = 1
                           ELSE /\ nodes2[n].prev \in 1 .. M /\ v[nodes2[n].prev].key = k
                                /\ v[nodes2[n].prev].rank = v[n].rank - 1
                      /\ IF n = ends2[k].tail
                           THEN nodes2[n].next = 0
                           ELSE /\ nodes2[n].next \in 1 .. M /\ v[nodes2[n].next].key = k
                                /\ v[nodes2[n].next].rank = v[n].rank + 1
    BY DEF Linked
  <2>1. CASE n = node
    BY <1>1, <1>2, <1>3, <1>5, <1>7, <2>1
  <2>2. CASE n # node /\ k # key
    <3>1. n \in 1 .. N /\ place[n].key = k /\ n # tail
      BY <1>1, <1>2, <2>2
    <3>2. /\ nodes2[n].next = nodes[n].next /\ nodes2[n].prev = nodes[n].prev
          /\ ends2[k].head = ends[k].head /\ ends2[k].tail = ends[k].tail
      BY <1>5, <2>2, <3>1
    <3>3. \A m \in 1 .. N : m # node => v[m].key = place[m].key /\ v[m].rank = place[m].rank
      BY <1>1, <1>7
    <3>4. /\ place[n].rank \in Int /\ 1 <= place[n].rank
          /\ place[n].rank <= place[ends[k].tail].rank
          /\ ends[k].tail \in 1 .. N /\ ends[k].tail # node
      BY <1>4, <2>2, <3>1
    <3>5. IF n = ends[k].head
           THEN nodes[n].prev = 0 /\ place[n].rank = 1
           ELSE /\ nodes[n].prev \in 1 .. N /\ place[nodes[n].prev].key = k
                /\ place[nodes[n].prev].rank = place[n].rank - 1
                /\ nodes[n].prev # node
      BY <1>4, <2>2, <3>1
    <3>6. IF n = ends[k].tail
           THEN nodes[n].next = 0
           ELSE /\ nodes[n].next \in 1 .. N /\ place[nodes[n].next].key = k
                /\ place[nodes[n].next].rank = place[n].rank + 1
                /\ nodes[n].next # node
      BY <1>4, <2>2, <3>1
    <3> QED BY <1>7, <2>2, <3>1, <3>2, <3>3, <3>4, <3>5, <3>6
  <2>3. CASE n # node /\ k = key
    <3>1. n \in 1 .. N /\ place[n].key = key
      BY <1>1, <2>3
    <3>2. tail # 0 /\ tail \in 1 .. N /\ tail # node /\ place[tail].key = key
      BY <1>2, <3>1
    <3>3. v[n].rank \in Int /\ 1 <= v[n].rank /\ v[n].rank <= v[ends2[k].tail].rank
      BY <1>1, <1>3, <1>5, <2>3, <3>1, <3>2
    <3>4. IF n = ends2[k].head
           THEN nodes2[n].prev = 0 /\ v[n].rank = 1
           ELSE /\ nodes2[n].prev \in 1 .. M /\ v[nodes2[n].prev].key = k
                /\ v[nodes2[n].prev].rank = v[n].rank - 1
      BY <1>1, <1>4, <1>5, <1>7, <2>3, <3>1, <3>2
    <3>5. n # ends2[k].tail
      BY <1>5, <2>3
    <3>6. CASE n = tail
      BY <1>1, <1>5, <1>7, <2>3, <3>1, <3>2, <3>3, <3>4, <3>5, <3>6
    <3>7. CASE n # tail
      BY <1>1, <1>4, <1>5, <1>7, <2>3, <3>1, <3>3, <3>4, <3>5, <3>7
    <3> QED BY <3>6, <3>7
  <2> QED BY <2>1, <2>2, <2>3
<1>11. \A n \in 1 .. M : \A k \in Keys : n # node /\ place[n].key = k =>
        /\ place[n].sum \in Int
        /\ nodes[n].value.volume \in Int /\ nodes[n].value.volume > 0
        /\ place[n].sum = nodes[n].value.volume
                          + IF n = ends[k].head THEN 0 ELSE place[nodes[n].prev].sum
  BY DEF Layout, Summed
<1>12. Summed(M, nodes2, ends2, v)
  <2> SUFFICES ASSUME NEW n \in 1 .. M, NEW k \in Keys, v[n].key = k
               PROVE  /\ v[n].sum \in Int
                      /\ nodes2[n].value.volume \in Int /\ nodes2[n].value.volume > 0
                      /\ v[n].sum = nodes2[n].value.volume
                           + IF n = ends2[k].head THEN 0 ELSE v[nodes2[n].prev].sum
    BY DEF Summed
  <2>1. CASE n = node
    <3>1. k = key /\ v[n].sum = w + TailSum(ends, place, key) /\ nodes2[n].value.volume = w
      BY <1>1, <1>5, <2>1
    <3>2. CASE tail = 0
      BY <1>2, <1>5, <1>6, <2>1, <3>1, <3>2 DEF TailSum
    <3>3. CASE tail # 0
      <4>1. n # ends2[k].head /\ nodes2[n].prev = tail
        BY <1>2, <1>5, <2>1, <3>1, <3>3
      <4>2. v[tail].sum = TailSum(ends, place, key)
        BY <1>1, <1>2, <1>7, <3>3 DEF TailSum
      <4> QED BY <1>6, <3>1, <4>1, <4>2
    <3> QED BY <3>2, <3>3
  <2>2. CASE n # node
    <3>1. place[n].key = k /\ n \in 1 .. N
      BY <1>1, <2>2
    <3>2. n = ends2[k].head <=> n = ends[k].head
      BY <1>2, <1>5, <2>2, <3>1
    <3> QED BY <1>1, <1>4, <1>5, <1>7, <1>11, <2>2, <3>1, <3>2
  <2> QED BY <2>1, <2>2
<1>13. ASSUME NEW k \in Keys
       PROVE  TailSum(ends2, v, k) = TailSum(ends, place, k) + IF k = key THEN w ELSE 0
  <2>1. CASE k = key
    <3>1. ends2[k].head # 0
      BY <1>2, <1>5, <2>1
    <3> QED BY <1>1, <1>5, <1>6, <2>1, <3>1 DEF TailSum
  <2>2. CASE k # key
    <3>1. ends[k].head # 0 => /\ ends[k].tail \in 1 .. N /\ place[ends[k].tail].key = k
                              /\ ends[k].tail # node
      BY DEF Layout, Ends
    <3> QED BY <1>1, <1>5, <1>7, <1>11, <2>2, <3>1 DEF TailSum
  <2> QED BY <2>1, <2>2
<1> QED BY <1>8, <1>9, <1>10, <1>12, <1>13 DEF Layout, SumMoves, v

-----------------------------------------------------------------------------
(* The book                                                                 *)

(* The ends of the lists are the heads and tails of the levels.             *)
Bound(levels, ends) ==
  \A s \in Sides :
    /\ \A i \in 1 .. Len(levels[s]) :
         /\ ends[<<s, levels[s][i].price>>].head = levels[s][i].head
         /\ ends[<<s, levels[s][i].price>>].tail = levels[s][i].tail
    /\ \A p \in Prices : (\A i \in 1 .. Len(levels[s]) : levels[s][i].price # p)
                          => ends[<<s, p>>].head = 0 /\ ends[<<s, p>>].tail = 0

(* The free list holds every slot without a place, once, and no other.     *)
FreeOK(N, free, place) ==
  /\ IsInjective(free)
  /\ \A n \in 1 .. N : place[n].key \in Keys <=> n \notin ToSet(free)

(* An index entry leads to the order with its id, where it says it rests.  *)
Sound(nodes, index, place) ==
  \A id \in DOMAIN index :
    /\ place[index[id].node].key = <<index[id].side, index[id].price>>
    /\ nodes[index[id].node].value.id = id

(* Every identified order that rests has an index entry.                   *)
Complete(N, nodes, index, place) ==
  \A n \in 1 .. N : \A s \in Sides, p \in Prices :
    place[n].key = <<s, p>> /\ nodes[n].value.id # kAnonymous =>
      /\ nodes[n].value.id \in DOMAIN index
      /\ index[nodes[n].value.id] = [side |-> s, price |-> p, node |-> n]

(* Ghosts: ends and place describe the lists of the book b.                *)
Laid(b, ends, place) ==
  /\ Layout(Len(b.pool.nodes), b.pool.nodes, ends, place)
  /\ Bound(b.levels, ends)
  /\ FreeOK(Len(b.pool.nodes), b.pool.free_list, place)
  /\ Sound(b.pool.nodes, b.index, place)

(* The key of a level.                                                     *)
Key(b, s, i) == <<s, b.levels[s][i].price>>

(* Keys are pairs.                                                         *)
LEMMA KeyFacts ==
  /\ \A s \in Sides, p \in Prices : <<s, p>> \in Keys
  /\ \A s, t, p, q : <<s, p>> = <<t, q>> <=> s = t /\ p = q
  /\ \A k \in Keys : \E s \in Sides, p \in Prices : k = <<s, p>>
  BY DEF Keys

(* Every level has a key.                                                  *)
LEMMA LevelKey ==
  ASSUME NEW b, BookOK(b), NEW s \in Sides, NEW i \in 1 .. Len(b.levels[s])
  PROVE  Key(b, s, i) \in Keys
  BY LevelFields, KeyFacts DEF Key

(* ends, with new ends for the list of key.                                *)
EndsWith(ends, key, h, t) ==
  [k \in Keys |-> IF k = key THEN [head |-> h, tail |-> t] ELSE ends[k]]

(* A price has at most one level, since the sides are strictly sorted.     *)
LEMMA SortedPrices ==
  ASSUME NEW n, NEW levels, LevelsOK(levels, n), Sorted(levels), NEW s \in Sides,
         NEW i \in 1 .. Len(levels[s]), NEW j \in 1 .. Len(levels[s]),
         levels[s][i].price = levels[s][j].price
  PROVE  i = j
<1>1. /\ Len(levels[s]) \in Nat /\ DOMAIN levels[s] = 1 .. Len(levels[s])
      /\ levels[s][i].price \in Nat
  BY LevelsFacts
<1>2. i < j => Better(s, levels[s][i].price, levels[s][j].price)
  BY <1>1 DEF Sorted, SortedSide
<1>3. j < i => Better(s, levels[s][j].price, levels[s][i].price)
  BY <1>1 DEF Sorted, SortedSide
<1>4. ~Better(s, levels[s][i].price, levels[s][i].price)
  BY <1>1 DEF Better
<1> QED BY <1>2, <1>3, <1>4

(* Assigning the head and tail of one level changes the ends of one list.  *)
LEMMA BoundUpdate ==
  ASSUME NEW n, NEW levels, LevelsOK(levels, n), Sorted(levels), NEW ends,
         Bound(levels, ends), NEW side \in Sides, NEW it \in 1 .. Len(levels[side]),
         NEW m, SamePrices(levels, m, side, it)
  PROVE  Bound(m, EndsWith(ends, <<side, levels[side][it].price>>,
                           m[side][it].head, m[side][it].tail))
<1> DEFINE key == <<side, levels[side][it].price>>
           e == EndsWith(ends, key, m[side][it].head, m[side][it].tail)
<1>1. /\ e[key].head = m[side][it].head /\ e[key].tail = m[side][it].tail
      /\ \A k \in Keys : k # key => e[k] = ends[k]
  <2>1. levels[side][it].price \in Prices
    <3>1. levels[side][it] \in LevelType(n)
      BY LevelsFacts
    <3> QED BY <3>1 DEF LevelType
  <2>2. key \in Keys
    BY <2>1, KeyFacts
  <2> HIDE DEF key
  <2> QED BY <2>2 DEF EndsWith
<1>2. \A s \in Sides : \A i \in 1 .. Len(levels[s]) :
        levels[s][i].price \in Prices /\ <<s, levels[s][i].price>> \in Keys
  <2> SUFFICES ASSUME NEW s \in Sides, NEW i \in 1 .. Len(levels[s])
               PROVE  levels[s][i].price \in Prices
    BY KeyFacts
  <2>1. levels[s][i] \in LevelType(n)
    BY LevelsFacts
  <2> QED BY <2>1 DEF LevelType
<1> HIDE DEF e
<1>3. ASSUME NEW s \in Sides, NEW i \in 1 .. Len(m[s])
      PROVE  /\ e[<<s, m[s][i].price>>].head = m[s][i].head
             /\ e[<<s, m[s][i].price>>].tail = m[s][i].tail
  <2>1. i \in 1 .. Len(levels[s]) /\ m[s][i].price = levels[s][i].price
    BY DEF SamePrices
  <2>2. CASE s = side /\ i = it
    BY <1>1, <2>1, <2>2
  <2>3. CASE ~(s = side /\ i = it)
    <3>1. m[s][i] = levels[s][i]
      BY <2>1, <2>3 DEF SamePrices
    <3>2. <<s, levels[s][i].price>> # key
      BY <2>1, <2>3, SortedPrices, KeyFacts
    <3> QED BY <1>1, <1>2, <2>1, <3>1, <3>2 DEF Bound
  <2> QED BY <2>2, <2>3
<1>4. ASSUME NEW s \in Sides, NEW p \in Prices,
             \A i \in 1 .. Len(m[s]) : m[s][i].price # p
      PROVE  e[<<s, p>>].head = 0 /\ e[<<s, p>>].tail = 0
  <2>1. \A i \in 1 .. Len(levels[s]) : levels[s][i].price # p
    BY <1>4 DEF SamePrices
  <2>2. <<s, p>> # key /\ <<s, p>> \in Keys
    BY <2>1, KeyFacts
  <2> QED BY <1>1, <2>1, <2>2 DEF Bound
<1> QED BY <1>3, <1>4 DEF Bound, e

(* Erasing a level that is empty changes no ends.                          *)
LEMMA BoundErase ==
  ASSUME NEW n, NEW levels, LevelsOK(levels, n), NEW ends, Bound(levels, ends),
         NEW side \in Sides, NEW it \in 1 .. Len(levels[side]),
         levels[side][it].head = 0, levels[side][it].tail = 0
  PROVE  Bound(Without(levels, side, it), ends)
<1> DEFINE m == Without(levels, side, it)
<1>1. /\ \A s \in Sides \ {side} : m[s] = levels[s]
      /\ Len(m[side]) = Len(levels[side]) - 1
      /\ \A j \in 1 .. Len(levels[side]) - 1 :
           m[side][j] = IF j < it THEN levels[side][j] ELSE levels[side][j + 1]
      /\ Len(levels[side]) \in Nat
  BY WithoutFacts, LevelsFacts
<1> HIDE DEF m
<1>2. ASSUME NEW s \in Sides, s # side
      PROVE  /\ \A i \in 1 .. Len(m[s]) :
                  /\ ends[<<s, m[s][i].price>>].head = m[s][i].head
                  /\ ends[<<s, m[s][i].price>>].tail = m[s][i].tail
             /\ \A p \in Prices : (\A i \in 1 .. Len(m[s]) : m[s][i].price # p)
                  => ends[<<s, p>>].head = 0 /\ ends[<<s, p>>].tail = 0
  <2>1. m[s] = levels[s]
    BY <1>1, <1>2
  <2> QED BY <2>1 DEF Bound
<1>3. ASSUME NEW i \in 1 .. Len(m[side])
      PROVE  /\ ends[<<side, m[side][i].price>>].head = m[side][i].head
             /\ ends[<<side, m[side][i].price>>].tail = m[side][i].tail
  <2>1. \E j \in 1 .. Len(levels[side]) : m[side][i] = levels[side][j]
    <3>1. i \in 1 .. Len(levels[side]) /\ i + 1 \in 1 .. Len(levels[side])
      BY <1>1
    <3> QED BY <1>1, <3>1
  <2> QED BY <2>1 DEF Bound
<1>4. ASSUME NEW p \in Prices, \A i \in 1 .. Len(m[side]) : m[side][i].price # p
      PROVE  ends[<<side, p>>].head = 0 /\ ends[<<side, p>>].tail = 0
  <2>1. CASE levels[side][it].price = p
    BY <2>1 DEF Bound
  <2>2. CASE levels[side][it].price # p
    <3>1. ASSUME NEW j \in 1 .. Len(levels[side]) PROVE levels[side][j].price # p
      <4>1. CASE j < it
        BY <1>1, <1>4, <4>1
      <4>2. CASE j = it
        BY <2>2, <4>2
      <4>3. CASE j > it
        <5>1. j - 1 \in 1 .. Len(m[side]) /\ ~(j - 1 < it) /\ (j - 1) + 1 = j
          BY <1>1, <4>3
        <5>2. m[side][j - 1] = levels[side][j]
          BY <1>1, <5>1
        <5> QED BY <1>4, <5>1, <5>2
      <4> QED BY <1>1, <4>1, <4>2, <4>3
    <3> QED BY <3>1 DEF Bound
  <2> QED BY <2>1, <2>2
<1> QED BY <1>2, <1>3, <1>4 DEF Bound, m

(* deallocate: the slot of an order that leaves joins the free list.        *)
LEMMA FreeAppend ==
  ASSUME NEW N \in Nat, NEW free \in Seq(1 .. N), NEW place, FreeOK(N, free, place),
         NEW d \in 1 .. N, place[d].key \in Keys,
         NEW v, v[d].key \notin Keys, \A m \in 1 .. N : m # d => v[m].key = place[m].key
  PROVE  FreeOK(N, Append(free, d), v)
<1> DEFINE f == Append(free, d)
<1>1. /\ Len(f) = Len(free) + 1 /\ Len(free) \in Nat /\ DOMAIN f = 1 .. Len(free) + 1
      /\ DOMAIN free = 1 .. Len(free)
      /\ f[Len(free) + 1] = d /\ \A i \in 1 .. Len(free) : f[i] = free[i]
  OBVIOUS
<1> HIDE DEF f
<1>2. \A i \in 1 .. Len(free) : free[i] # d
  BY <1>1 DEF FreeOK, ToSet
<1>3. IsInjective(f)
  <2> SUFFICES ASSUME NEW i \in 1 .. Len(free) + 1, NEW j \in 1 .. Len(free) + 1, f[i] = f[j]
               PROVE  i = j
    BY <1>1 DEF IsInjective
  <2>1. CASE i <= Len(free) /\ j <= Len(free)
    <3>1. i \in 1 .. Len(free) /\ j \in 1 .. Len(free)
      BY <1>1, <2>1
    <3>2. free[i] = free[j]
      BY <1>1, <3>1
    <3>3. \A k, l \in DOMAIN free : free[k] = free[l] => k = l
      BY DEF FreeOK, IsInjective
    <3> QED BY <1>1, <3>1, <3>2, <3>3
  <2>2. CASE i <= Len(free) /\ j = Len(free) + 1
    BY <1>1, <1>2, <2>2
  <2>3. CASE i = Len(free) + 1 /\ j <= Len(free)
    BY <1>1, <1>2, <2>3
  <2> QED BY <1>1, <2>1, <2>2, <2>3
<1>4. ASSUME NEW n \in 1 .. N PROVE v[n].key \in Keys <=> n \notin ToSet(f)
  <2>1. n \in ToSet(f) <=> n = d \/ n \in ToSet(free)
    <3>1. ASSUME n \in ToSet(f) PROVE n = d \/ n \in ToSet(free)
      <4>1. PICK i \in 1 .. Len(free) + 1 : n = f[i]
        BY <1>1, <3>1 DEF ToSet
      <4>2. i = Len(free) + 1 \/ i \in 1 .. Len(free)
        BY <1>1
      <4> QED BY <1>1, <4>1, <4>2 DEF ToSet
    <3>2. ASSUME n \in ToSet(free) PROVE n \in ToSet(f)
      <4>1. PICK i \in 1 .. Len(free) : n = free[i]
        BY <1>1, <3>2 DEF ToSet
      <4>2. i \in DOMAIN f /\ f[i] = n
        BY <1>1, <4>1
      <4> QED BY <4>2 DEF ToSet
    <3>3. d \in ToSet(f)
      <4>1. Len(free) + 1 \in DOMAIN f
        BY <1>1
      <4> QED BY <1>1, <4>1 DEF ToSet
    <3> QED BY <3>1, <3>2, <3>3
  <2> QED BY <2>1 DEF FreeOK
<1> QED BY <1>3, <1>4 DEF FreeOK, f

(* c is b with the order in slot d spliced out of its level and freed.     *)
RemovedFrom(b, c, side, it, d) ==
  /\ Len(c.pool.nodes) = Len(b.pool.nodes)
  /\ SplicedNodes(Len(b.pool.nodes), b.pool.nodes, c.pool.nodes, d)
  /\ c.pool.free_list = Append(b.pool.free_list, d)
  /\ SamePrices(b.levels, c.levels, side, it)
  /\ c.levels[side][it].head = IF b.pool.nodes[d].prev = 0 THEN b.pool.nodes[d].next
                                                         ELSE b.levels[side][it].head
  /\ c.levels[side][it].tail = IF b.pool.nodes[d].next = 0 THEN b.pool.nodes[d].prev
                                                         ELSE b.levels[side][it].tail

(* The index forgets at most the id of d, and keeps no entry for d.         *)
Forgotten(b, c, d) ==
  /\ DOMAIN c.index \subseteq DOMAIN b.index
  /\ \A id \in DOMAIN c.index : c.index[id] = b.index[id] /\ c.index[id].node # d
  /\ \A id \in DOMAIN b.index : id \notin DOMAIN c.index => id = b.pool.nodes[d].value.id

(* Removing an order, from the head or from the middle of its list, keeps  *)
(* the book laid out and takes its volume from the sum of its level.       *)
LEMMA RemoveLaid ==
  ASSUME NEW b, BookOK(b), Sorted(b.levels), NEW ends, NEW place, Laid(b, ends, place),
         NEW side \in Sides, NEW it \in 1 .. Len(b.levels[side]),
         NEW d \in 1 .. Len(b.pool.nodes), place[d].key = Key(b, side, it),
         NEW c, RemovedFrom(b, c, side, it, d), Forgotten(b, c, d)
  PROVE  LET v == Vacated(Len(b.pool.nodes), b.pool.nodes, place, d)
             e == EndsWith(ends, Key(b, side, it),
                           c.levels[side][it].head, c.levels[side][it].tail)
         IN  /\ Laid(c, e, v)
             /\ SumMoves(ends, place, e, v, Key(b, side, it),
                         0 - b.pool.nodes[d].value.volume)
             /\ Complete(Len(b.pool.nodes), b.pool.nodes, b.index, place)
                  => Complete(Len(b.pool.nodes), c.pool.nodes, c.index, v)
<1> DEFINE N == Len(b.pool.nodes)
           nodes == b.pool.nodes
           key == Key(b, side, it)
           v == Vacated(N, nodes, place, d)
           e == EndsWith(ends, key, c.levels[side][it].head, c.levels[side][it].tail)
<1>1. /\ N \in Nat /\ key \in Keys /\ LevelsOK(b.levels, N) /\ IndexOK(b.index, N)
      /\ b.pool.free_list \in Seq(1 .. N)
  BY BookFields, LevelKey DEF PoolOK
<1>2. /\ v[d].key \notin Keys
      /\ \A m \in 1 .. N : m # d => v[m].key = place[m].key
  <2>1. v[d].key = NoKey
    BY DEF Vacated
  <2>2. ASSUME NEW m \in 1 .. N, m # d PROVE v[m].key = place[m].key
    BY <2>2 DEF Vacated
  <2> HIDE DEF v
  <2> QED BY <2>1, <2>2, NoKeyIsNone
<1>3. /\ e[key].head = c.levels[side][it].head /\ e[key].tail = c.levels[side][it].tail
      /\ \A k \in Keys : k # key => e[k] = ends[k]
  <2> HIDE DEF key
  <2> QED BY <1>1 DEF EndsWith
<1>4. ends[key].head = b.levels[side][it].head /\ ends[key].tail = b.levels[side][it].tail
  BY DEF Laid, Bound, Key
<1>5. Spliced(N, nodes, c.pool.nodes, ends, e, key, d)
  <2> HIDE DEF e, key, N, nodes
  <2> QED BY <1>3, <1>4 DEF Spliced, RemovedFrom, N, nodes
<1>6. Layout(N, nodes, ends, place) /\ place[d].key = key
  BY DEF Laid
<1>7. Layout(N, c.pool.nodes, e, v)
  <2> HIDE DEF e, key, N, nodes
  <2> QED BY <1>1, <1>5, <1>6, SpliceKeeps DEF v, N
<1>8. SumMoves(ends, place, e, v, key, 0 - nodes[d].value.volume)
  <2>1. d \in 1 .. N
    OBVIOUS
  <2> HIDE DEF e, key, N, nodes
  <2> QED BY <1>1, <1>5, <1>6, <2>1, SpliceSum DEF v
<1>9. Bound(c.levels, e)
  BY <1>1, BoundUpdate DEF Laid, RemovedFrom, Key
<1>10. FreeOK(N, c.pool.free_list, v)
  <2>1. FreeOK(N, b.pool.free_list, place) /\ c.pool.free_list = Append(b.pool.free_list, d)
    BY DEF Laid, RemovedFrom
  <2> HIDE DEF N, v, key
  <2> QED BY <1>1, <1>2, <1>6, <2>1, FreeAppend DEF N
<1>11. \A id \in DOMAIN b.index : b.index[id].node \in 1 .. N
  BY <1>1 DEF IndexOK, LocationType
<1>12. Sound(c.pool.nodes, c.index, v)
  <2> SUFFICES ASSUME NEW id \in DOMAIN c.index
               PROVE  /\ v[c.index[id].node].key = <<c.index[id].side, c.index[id].price>>
                      /\ c.pool.nodes[c.index[id].node].value.id = id
    BY DEF Sound
  <2>1. /\ id \in DOMAIN b.index /\ c.index[id] = b.index[id] /\ b.index[id].node # d
        /\ b.index[id].node \in 1 .. N
    BY <1>11 DEF Forgotten
  <2>2. /\ place[b.index[id].node].key = <<b.index[id].side, b.index[id].price>>
        /\ nodes[b.index[id].node].value.id = id
    BY <2>1 DEF Laid, Sound
  <2>3. c.pool.nodes[b.index[id].node].value = nodes[b.index[id].node].value
    BY <2>1 DEF RemovedFrom, SplicedNodes
  <2> HIDE DEF N, v, nodes
  <2> QED BY <1>2, <2>1, <2>2, <2>3
<1>13. ASSUME Complete(N, nodes, b.index, place)
       PROVE  Complete(N, c.pool.nodes, c.index, v)
  <2> SUFFICES ASSUME NEW n \in 1 .. N, NEW s \in Sides, NEW p \in Prices,
                      v[n].key = <<s, p>>, c.pool.nodes[n].value.id # kAnonymous
               PROVE  /\ c.pool.nodes[n].value.id \in DOMAIN c.index
                      /\ c.index[c.pool.nodes[n].value.id] = [side |-> s, price |-> p, node |-> n]
    BY DEF Complete
  <2>1. n # d /\ place[n].key = <<s, p>>
    <3>1. <<s, p>> \in Keys
      BY KeyFacts
    <3> HIDE DEF v
    <3> QED BY <1>2, <3>1
  <2>2. c.pool.nodes[n].value = nodes[n].value
    BY <2>1 DEF RemovedFrom, SplicedNodes
  <2> DEFINE id == nodes[n].value.id
  <2>3. id \in DOMAIN b.index /\ b.index[id] = [side |-> s, price |-> p, node |-> n]
    BY <1>13, <2>1, <2>2 DEF Complete
  <2>4. id # nodes[d].value.id
    <3> SUFFICES ASSUME id = nodes[d].value.id PROVE FALSE
      OBVIOUS
    <3>1. PICK t \in Sides, q \in Prices : key = <<t, q>>
      BY <1>1, KeyFacts
    <3>2. b.index[id] = [side |-> t, price |-> q, node |-> d]
      BY <1>6, <1>13, <2>2, <3>1 DEF Complete
    <3> QED BY <2>1, <2>3, <3>2
  <2>5. id \in DOMAIN c.index /\ c.index[id] = b.index[id]
    BY <2>3, <2>4 DEF Forgotten
  <2> QED BY <2>2, <2>3, <2>5
<1>14. Laid(c, e, v)
  <2>1. Len(c.pool.nodes) = N
    BY DEF RemovedFrom
  <2> HIDE DEF N, v, e
  <2> QED BY <1>7, <1>9, <1>10, <1>12, <2>1 DEF Laid
<1> QED BY <1>8, <1>13, <1>14

-----------------------------------------------------------------------------
(* What the member functions do to nodes and levels                         *)

(* set_next changes the next of one node.                                  *)
LEMMA SetNextFields ==
  ASSUME NEW p, PoolOK(p), NEW i \in 1 .. Len(p.nodes), NEW n, NEW m \in 1 .. Len(p.nodes)
  PROVE  /\ set_next(p, i, n).nodes[m].next = IF m = i THEN n ELSE p.nodes[m].next
         /\ set_next(p, i, n).nodes[m].prev = p.nodes[m].prev
         /\ set_next(p, i, n).nodes[m].value = p.nodes[m].value
         /\ set_next(p, i, n).free_list = p.free_list
<1>1. p.nodes[i] \in Node(RestingOrder, 0 .. Len(p.nodes)) /\ DOMAIN p.nodes = 1 .. Len(p.nodes)
  BY DEF PoolOK
<1> QED BY <1>1 DEF set_next, Node

(* set_prev changes the prev of one node.                                  *)
LEMMA SetPrevFields ==
  ASSUME NEW p, PoolOK(p), NEW i \in 1 .. Len(p.nodes), NEW n, NEW m \in 1 .. Len(p.nodes)
  PROVE  /\ set_prev(p, i, n).nodes[m].prev = IF m = i THEN n ELSE p.nodes[m].prev
         /\ set_prev(p, i, n).nodes[m].next = p.nodes[m].next
         /\ set_prev(p, i, n).nodes[m].value = p.nodes[m].value
         /\ set_prev(p, i, n).free_list = p.free_list
<1>1. p.nodes[i] \in Node(RestingOrder, 0 .. Len(p.nodes)) /\ DOMAIN p.nodes = 1 .. Len(p.nodes)
  BY DEF PoolOK
<1> QED BY <1>1 DEF set_prev, Node

(* set_value changes the order of one node.                                *)
LEMMA SetValueFields ==
  ASSUME NEW p, PoolOK(p), NEW i \in 1 .. Len(p.nodes), NEW w, NEW m \in 1 .. Len(p.nodes)
  PROVE  /\ set_value(p, i, w).nodes[m].value = IF m = i THEN w ELSE p.nodes[m].value
         /\ set_value(p, i, w).nodes[m].next = p.nodes[m].next
         /\ set_value(p, i, w).nodes[m].prev = p.nodes[m].prev
         /\ set_value(p, i, w).free_list = p.free_list
<1>1. p.nodes[i] \in Node(RestingOrder, 0 .. Len(p.nodes)) /\ DOMAIN p.nodes = 1 .. Len(p.nodes)
  BY DEF PoolOK
<1> QED BY <1>1 DEF set_value, Node

(* c is b with this pool and this index, and these contents of one level.  *)
Assigned(b, c, side, it, p, total, head, tail, index) ==
  /\ c.pool = p /\ c.index = index
  /\ SamePrices(b.levels, c.levels, side, it)
  /\ c.levels[side][it].head = head /\ c.levels[side][it].tail = tail
  /\ c.levels[side][it].total_volume = total

(* What Updated assigns, field by field.                                   *)
LEMMA UpdatedFields ==
  ASSUME NEW b, BookOK(b), NEW side \in Sides, NEW it \in 1 .. Len(b.levels[side]),
         NEW p, NEW total \in Int, NEW head \in 0 .. Len(b.pool.nodes),
         NEW tail \in 0 .. Len(b.pool.nodes), NEW index
  PROVE  Assigned(b, Updated(b, side, it, p, total, head, tail, index),
                  side, it, p, total, head, tail, index)
<1> DEFINE n == Len(b.pool.nodes)
           L == [price |-> b.levels[side][it].price, total_volume |-> total,
                 head |-> head, tail |-> tail]
           c == Updated(b, side, it, p, total, head, tail, index)
<1>1. c.pool = p /\ c.index = index /\ c.levels = PutLevel(b.levels, side, it, L)
  BY DEF Updated, PutLevel
<1>2. L \in LevelType(n)
  BY LevelFields DEF LevelType
<1>3. LevelsOK(b.levels, n) /\ L.price = b.levels[side][it].price
  BY BookFields
<1>4. L.head = head /\ L.tail = tail /\ L.total_volume = total
  OBVIOUS
<1> HIDE DEF L, n
<1>5. /\ SamePrices(b.levels, PutLevel(b.levels, side, it, L), side, it)
      /\ PutLevel(b.levels, side, it, L)[side][it] = L
  BY <1>2, <1>3, LevelUpdate
<1> HIDE DEF c
<1> QED BY <1>1, <1>4, <1>5 DEF Assigned, c

(* pop_front removes the oldest order of a level, which nothing precedes,  *)
(* and leaves the aggregate alone.                                         *)
LEMMA PopFrontRemoves ==
  ASSUME NEW b, BookOK(b), NEW side \in Sides, NEW it \in 1 .. Len(b.levels[side]),
         NEW h, h = b.levels[side][it].head, h # kNull, b.pool.nodes[h].prev = 0
  PROVE  LET c == pop_front(b, side, it) IN
         /\ RemovedFrom(b, c, side, it, h)
         /\ c.index = unindex(b, h)
         /\ c.levels[side][it].total_volume = b.levels[side][it].total_volume
<1> DEFINE n == Len(b.pool.nodes)
           lvl == b.levels[side][it]
           next == b.pool.nodes[h].next
           p == IF next # kNull THEN set_prev(b.pool, next, kNull) ELSE b.pool
           tail == IF next # kNull THEN lvl.tail ELSE kNull
           c == pop_front(b, side, it)
<1>1. n \in Nat /\ PoolOK(b.pool)
  BY BookFields
<1>2. h \in 1 .. n /\ lvl.tail \in 0 .. n /\ lvl.total_volume \in Int
  BY <1>1, LevelFields
<1>3. next \in 0 .. n
  BY <1>2, BookFields
<1>4. c = Updated(b, side, it, deallocate(p, h), lvl.total_volume, next, tail, unindex(b, h))
  BY DEF pop_front, Updated
<1>5. next \in 0 .. n /\ tail \in 0 .. n
  BY <1>1, <1>2, <1>3
<1>6. /\ c.pool = deallocate(p, h) /\ c.index = unindex(b, h)
      /\ SamePrices(b.levels, c.levels, side, it)
      /\ c.levels[side][it].head = next /\ c.levels[side][it].tail = tail
      /\ c.levels[side][it].total_volume = lvl.total_volume
  <2> DEFINE q == deallocate(p, h)
             x == unindex(b, h)
  <2> HIDE DEF next, tail, p, c, lvl, q, x
  <2>1. Assigned(b, Updated(b, side, it, q, lvl.total_volume, next, tail, x),
                 side, it, q, lvl.total_volume, next, tail, x)
    BY <1>2, <1>5, UpdatedFields
  <2>2. Assigned(b, c, side, it, q, lvl.total_volume, next, tail, x)
    BY <1>4, <2>1 DEF q, x
  <2> QED BY <2>2 DEF Assigned, q, x
<1>7. c.pool.nodes = p.nodes /\ c.pool.free_list = Append(p.free_list, h)
  <2> HIDE DEF c, p
  <2> QED BY <1>6 DEF deallocate
<1> HIDE DEF c, next
<1>8. /\ Len(p.nodes) = n /\ p.free_list = b.pool.free_list
      /\ \A m \in 1 .. n :
           /\ p.nodes[m].next = b.pool.nodes[m].next
           /\ p.nodes[m].prev = IF m = next THEN 0 ELSE b.pool.nodes[m].prev
           /\ p.nodes[m].value = b.pool.nodes[m].value
  <2>1. CASE next # kNull
    <3>1. next \in 1 .. n /\ kNull \in 0 .. n
      BY <1>1, <1>3, <2>1
    <3> QED BY <1>1, <2>1, <3>1, SetPrevOK, SetPrevFields
  <2>2. CASE next = kNull
    BY <1>1, <2>2
  <2> QED BY <2>1, <2>2
<1>9. SplicedNodes(n, b.pool.nodes, c.pool.nodes, h)
  <2> SUFFICES ASSUME NEW m \in 1 .. n, m # h
               PROVE  /\ c.pool.nodes[m].next = b.pool.nodes[m].next
                      /\ m # b.pool.nodes[h].prev
                      /\ c.pool.nodes[m].prev = IF m = next THEN 0 ELSE b.pool.nodes[m].prev
                      /\ c.pool.nodes[m].value = b.pool.nodes[m].value
    BY DEF SplicedNodes, next
  <2> HIDE DEF p
  <2> QED BY <1>1, <1>7, <1>8
<1> HIDE DEF p
<1> QED BY <1>6, <1>7, <1>8, <1>9 DEF RemovedFrom, next, c

(* Erasing the id of a node that leaves is all the index has to do.         *)
LEMMA UnindexForgets ==
  ASSUME NEW b, BookOK(b), NEW place, Sound(b.pool.nodes, b.index, place),
         NEW d \in 1 .. Len(b.pool.nodes), NEW c, c.index = unindex(b, d)
  PROVE  Forgotten(b, c, d)
<1> DEFINE id == b.pool.nodes[d].value.id
<1>1. DOMAIN b.index \subseteq OrderIds \ {kAnonymous}
  BY BookFields DEF IndexOK
<1>2. ASSUME NEW k \in DOMAIN b.index, b.index[k].node = d PROVE k = id /\ id # kAnonymous
  BY <1>1, <1>2 DEF Sound
<1>3. CASE id # kAnonymous
  BY <1>2, <1>3 DEF unindex, Erase, Forgotten
<1>4. CASE id = kAnonymous
  BY <1>2, <1>4 DEF unindex, Forgotten
<1> QED BY <1>3, <1>4

(* c is b, but the oldest order of a level, in slot h, has volume w.        *)
Reduced(b, c, side, it, h, w) ==
  /\ Len(c.pool.nodes) = Len(b.pool.nodes)
  /\ Revalued(Len(b.pool.nodes), b.pool.nodes, c.pool.nodes, h, w)
  /\ c.pool.nodes[h].value.id = b.pool.nodes[h].value.id
  /\ c.pool.free_list = b.pool.free_list
  /\ c.index = b.index
  /\ SamePrices(b.levels, c.levels, side, it)
  /\ c.levels[side][it].head = b.levels[side][it].head
  /\ c.levels[side][it].tail = b.levels[side][it].tail

(* h is the oldest order of the level.                                     *)
IsHead(b, side, it, h) == h = b.levels[side][it].head

(* take removes the oldest order when it has no more than the amount, and  *)
(* otherwise reduces it; the aggregate loses the amount.                   *)
LEMMA TakeFacts ==
  ASSUME NEW b, BookOK(b), NEW side \in Sides, NEW it \in 1 .. Len(b.levels[side]),
         NEW h, IsHead(b, side, it, h), h # kNull, b.pool.nodes[h].prev = 0,
         NEW amount \in Int
  PROVE  LET c == take(b, side, it, amount)
             left == b.pool.nodes[h].value.volume - amount
         IN  /\ left = 0 => RemovedFrom(b, c, side, it, h) /\ c.index = unindex(b, h)
             /\ left # 0 => Reduced(b, c, side, it, h, left)
             /\ c.levels[side][it].total_volume = b.levels[side][it].total_volume - amount
<1> DEFINE n == Len(b.pool.nodes)
           lvl == b.levels[side][it]
           r == b.pool.nodes[h].value
           left == r.volume - amount
           w == [id |-> r.id, volume |-> left]
           p == set_value(b.pool, h, w)
           total == lvl.total_volume - amount
           b1 == Updated(b, side, it, p, total, lvl.head, lvl.tail, b.index)
           c == take(b, side, it, amount)
<1>1. n \in Nat /\ PoolOK(b.pool) /\ IndexOK(b.index, n)
  BY BookFields
<1>2. /\ h \in 1 .. n /\ lvl.head \in 0 .. n /\ lvl.tail \in 0 .. n
      /\ lvl.total_volume \in Int /\ total \in Int
  BY <1>1, LevelFields DEF IsHead
<1>3. w \in RestingOrder
  <2>1. r \in RestingOrder
    BY <1>2, BookFields
  <2> QED BY <2>1, VolumeLeftOK
<1>4. c = IF left = 0 THEN pop_front(b1, side, it) ELSE b1
  BY DEF take, Updated, IsHead
<1>5. w.id = r.id /\ w.volume = left
  OBVIOUS
<1> HIDE DEF w, total
<1>6. /\ Len(p.nodes) = n /\ p.free_list = b.pool.free_list /\ PoolOK(p)
      /\ \A m \in 1 .. n :
           /\ p.nodes[m].next = b.pool.nodes[m].next
           /\ p.nodes[m].prev = b.pool.nodes[m].prev
           /\ p.nodes[m].value = IF m = h THEN w ELSE b.pool.nodes[m].value
  <2>1. PoolOK(p) /\ Len(p.nodes) = n
    BY <1>1, <1>2, <1>3, SetValueOK
  <2>2. p.free_list = b.pool.free_list
    BY DEF set_value
  <2>3. \A m \in 1 .. n :
          /\ p.nodes[m].next = b.pool.nodes[m].next
          /\ p.nodes[m].prev = b.pool.nodes[m].prev
          /\ p.nodes[m].value = IF m = h THEN w ELSE b.pool.nodes[m].value
    <3> TAKE m \in 1 .. n
    <3>1. PoolOK(b.pool) /\ h \in 1 .. Len(b.pool.nodes) /\ m \in 1 .. Len(b.pool.nodes)
      BY <1>1, <1>2
    <3> HIDE DEF r, n
    <3> QED BY <3>1, SetValueFields
  <2> QED BY <2>1, <2>2, <2>3
<1> HIDE DEF p, c
<1>7. Assigned(b, b1, side, it, p, total, lvl.head, lvl.tail, b.index)
  BY <1>2, UpdatedFields
<1>8. BookOK(b1) /\ it \in 1 .. Len(b1.levels[side])
  <2>1. UpdateOK(b, side, it, b1, lvl.head)
    <3> HIDE DEF lvl
    <3> QED BY <1>1, <1>2, <1>6, BookUpdate
  <2> HIDE DEF b1
  <2> QED BY <2>1 DEF UpdateOK, SamePrices
<1> HIDE DEF b1
<1>9. /\ b1.pool = p /\ b1.index = b.index /\ SamePrices(b.levels, b1.levels, side, it)
      /\ b1.levels[side][it].head = h /\ b1.levels[side][it].tail = lvl.tail
      /\ b1.levels[side][it].total_volume = total
  BY <1>7 DEF Assigned, IsHead
<1>10. CASE left # 0
  <2>1. c = b1
    BY <1>4, <1>10
  <2>2. Revalued(n, b.pool.nodes, c.pool.nodes, h, left)
    BY <1>2, <1>5, <1>6, <1>9, <2>1 DEF Revalued
  <2>3. c.pool.nodes[h].value.id = b.pool.nodes[h].value.id
    BY <1>2, <1>5, <1>6, <1>9, <2>1
  <2> HIDE DEF left
  <2>4. Reduced(b, c, side, it, h, left)
    BY <1>6, <1>9, <2>1, <2>2, <2>3 DEF Reduced, IsHead
  <2> QED BY <1>9, <1>10, <2>1, <2>4 DEF left, c, total
<1>11. CASE left = 0
  <2>1. c = pop_front(b1, side, it)
    BY <1>4, <1>11
  <2>2. b1.pool.nodes[h].prev = 0
    BY <1>2, <1>6, <1>9
  <2>3. /\ RemovedFrom(b1, c, side, it, h) /\ c.index = unindex(b1, h)
        /\ c.levels[side][it].total_volume = total
    BY <1>8, <1>9, <2>1, <2>2, PopFrontRemoves
  <2>4. unindex(b1, h) = unindex(b, h)
    BY <1>2, <1>5, <1>6, <1>9 DEF unindex
  <2>5. SplicedNodes(n, b.pool.nodes, c.pool.nodes, h)
    <3>1. SplicedNodes(n, p.nodes, c.pool.nodes, h)
      BY <1>6, <1>9, <2>3 DEF RemovedFrom
    <3>2. \A m \in 1 .. n :
            /\ p.nodes[m].next = b.pool.nodes[m].next
            /\ p.nodes[m].prev = b.pool.nodes[m].prev
            /\ m # h => p.nodes[m].value = b.pool.nodes[m].value
      BY <1>6
    <3>3. p.nodes[h].next = b.pool.nodes[h].next /\ p.nodes[h].prev = b.pool.nodes[h].prev
      BY <1>2, <1>6
    <3> SUFFICES ASSUME NEW m \in 1 .. n, m # h
                 PROVE  /\ c.pool.nodes[m].next = IF m = b.pool.nodes[h].prev
                              THEN b.pool.nodes[h].next ELSE b.pool.nodes[m].next
                        /\ c.pool.nodes[m].prev = IF m = b.pool.nodes[h].next
                              THEN b.pool.nodes[h].prev ELSE b.pool.nodes[m].prev
                        /\ c.pool.nodes[m].value = b.pool.nodes[m].value
      BY DEF SplicedNodes
    <3> HIDE DEF n
    <3> QED BY <1>1, <3>1, <3>2, <3>3 DEF SplicedNodes
  <2>6. SamePrices(b.levels, c.levels, side, it)
    BY <1>9, <2>3, SamePricesTransitive DEF RemovedFrom
  <2>7. RemovedFrom(b, c, side, it, h)
    BY <1>2, <1>6, <1>9, <2>3, <2>5, <2>6 DEF RemovedFrom, IsHead
  <2> QED BY <1>11, <2>3, <2>4, <2>7 DEF c, total
<1> QED BY <1>10, <1>11

(* The order an index entry points at, spliced out and freed.               *)
CancelledBook(b, it, id) ==
  LET loc == b.index[id]
      b1  == unlink(b, loc.side, it, loc.node)
      lvl == b1.levels[loc.side][it]
  IN  Updated(b1, loc.side, it, deallocate(b1.pool, loc.node),
              lvl.total_volume - b.pool.nodes[loc.node].value.volume,
              lvl.head, lvl.tail, Erase(b1.index, id))

(* cancel_order removes the order its index entry names and takes what     *)
(* remained of it from the aggregate.                                      *)
LEMMA CancelFacts ==
  ASSUME NEW b, BookOK(b), NEW id \in DOMAIN b.index, NEW it,
         it \in 1 .. Len(b.levels[b.index[id].side]),
         b.pool.nodes[b.index[id].node].next # b.index[id].node,
         b.pool.nodes[b.index[id].node].prev # b.index[id].node
  PROVE  LET c == CancelledBook(b, it, id)
             side == b.index[id].side
             node == b.index[id].node
         IN  /\ cancelled(b, it, id) = erase_if_empty(c, side, it)
             /\ BookOK(c)
             /\ RemovedFrom(b, c, side, it, node)
             /\ c.index = Erase(b.index, id)
             /\ c.levels[side][it].total_volume =
                  b.levels[side][it].total_volume - b.pool.nodes[node].value.volume
<1> DEFINE n == Len(b.pool.nodes)
           side == b.index[id].side
           node == b.index[id].node
           remaining == b.pool.nodes[node].value.volume
           b1 == unlink(b, side, it, node)
           lvl == b1.levels[side][it]
           c == CancelledBook(b, it, id)
<1>1. n \in Nat /\ IndexOK(b.index, n) /\ PoolOK(b.pool)
  BY BookFields
<1>2. side \in Sides /\ node \in 1 .. n
  BY <1>1 DEF IndexOK, LocationType
<1>3. remaining \in Int
  <2>1. b.pool.nodes[node].value \in RestingOrder
    BY <1>2, BookFields
  <2> QED BY <2>1 DEF RestingOrder
<1>4. cancelled(b, it, id) = erase_if_empty(c, side, it)
  BY DEF cancelled, Updated, CancelledBook
<1>5. c = Updated(b1, side, it, deallocate(b1.pool, node),
                  lvl.total_volume - remaining, lvl.head, lvl.tail, Erase(b1.index, id))
  BY DEF CancelledBook
<1>6. it \in 1 .. Len(b.levels[side]) /\ b.pool.nodes[node].next # node
      /\ b.pool.nodes[node].prev # node
  OBVIOUS
<1> HIDE DEF side, node, remaining, c
<1> DEFINE old == b.levels[side][it]
           prev == b.pool.nodes[node].prev
           next == b.pool.nodes[node].next
           p1 == IF prev # kNull THEN set_next(b.pool, prev, next) ELSE b.pool
           p2 == IF next # kNull THEN set_prev(p1, next, prev) ELSE p1
           head == IF prev # kNull THEN old.head ELSE next
           tail == IF next # kNull THEN old.tail ELSE prev
<1>7. b1 = Updated(b, side, it, p2, old.total_volume, head, tail, b.index)
  BY DEF unlink, Updated
<1>8. prev \in 0 .. n /\ next \in 0 .. n
  BY <1>2, BookFields
<1>9. old.head \in 0 .. n /\ old.tail \in 0 .. n /\ old.total_volume \in Int
  BY <1>2, <1>6, LevelFields
<1>10. prev # node /\ next # node
  BY <1>6
<1> HIDE DEF prev, next
<1>11. /\ PoolOK(p1) /\ Len(p1.nodes) = n /\ p1.free_list = b.pool.free_list
       /\ \A m \in 1 .. n :
            /\ p1.nodes[m].next = IF m = prev THEN next ELSE b.pool.nodes[m].next
            /\ p1.nodes[m].prev = b.pool.nodes[m].prev
            /\ p1.nodes[m].value = b.pool.nodes[m].value
  <2>1. CASE prev # kNull
    <3>1. prev \in 1 .. n
      BY <1>1, <1>8, <2>1
    <3> QED BY <1>1, <1>8, <2>1, <3>1, SetNextOK, SetNextFields
  <2>2. CASE prev = kNull
    BY <1>1, <2>2
  <2> QED BY <2>1, <2>2
<1> HIDE DEF p1
<1>12. /\ PoolOK(p2) /\ Len(p2.nodes) = n /\ p2.free_list = b.pool.free_list
       /\ \A m \in 1 .. n :
            /\ p2.nodes[m].next = IF m = prev THEN next ELSE b.pool.nodes[m].next
            /\ p2.nodes[m].prev = IF m = next THEN prev ELSE b.pool.nodes[m].prev
            /\ p2.nodes[m].value = b.pool.nodes[m].value
  <2>1. CASE next # kNull
    <3>1. next \in 1 .. n
      BY <1>1, <1>8, <2>1
    <3> QED BY <1>8, <1>11, <2>1, <3>1, SetPrevOK, SetPrevFields
  <2>2. CASE next = kNull
    BY <1>1, <1>11, <2>2
  <2> QED BY <2>1, <2>2
<1>13. head \in 0 .. n /\ tail \in 0 .. n
  BY <1>8, <1>9
<1> HIDE DEF p2, old, head, tail
<1>14. Assigned(b, b1, side, it, p2, old.total_volume, head, tail, b.index)
  BY <1>2, <1>6, <1>7, <1>9, <1>13, UpdatedFields
<1>15. UpdateOK(b, side, it, b1, head)
  BY <1>1, <1>2, <1>6, <1>7, <1>9, <1>12, <1>13, BookUpdate
<1> HIDE DEF b1
<1>16. BookOK(b1) /\ Len(b1.pool.nodes) = n /\ it \in 1 .. Len(b1.levels[side])
  BY <1>2, <1>6, <1>15 DEF UpdateOK, SamePrices
<1>17. /\ b1.pool = p2 /\ b1.index = b.index /\ SamePrices(b.levels, b1.levels, side, it)
       /\ lvl.head = head /\ lvl.tail = tail /\ lvl.total_volume = old.total_volume
  BY <1>14 DEF Assigned
<1> DEFINE q == deallocate(b1.pool, node)
           x == Erase(b1.index, id)
           t == lvl.total_volume - remaining
<1>18. t \in Int /\ lvl.head \in 0 .. n /\ lvl.tail \in 0 .. n
  BY <1>3, <1>9, <1>13, <1>17
<1>19. PoolOK(q) /\ Len(q.nodes) = Len(b1.pool.nodes)
  <2>1. PoolOK(b1.pool)
    BY <1>16, BookFields
  <2> QED BY <1>2, <1>16, <2>1, DeallocateOK
<1>20. IndexOK(x, n)
  BY <1>1, <1>17, EraseOK
<1>21. q.nodes = p2.nodes /\ q.free_list = Append(p2.free_list, node)
  BY <1>17 DEF deallocate
<1>22. x = Erase(b.index, id) /\ t = old.total_volume - remaining
  BY <1>17
<1> HIDE DEF q, x, t, lvl
<1>23. c = Updated(b1, side, it, q, t, lvl.head, lvl.tail, x)
  BY <1>5 DEF q, x, t
<1>24. Assigned(b1, c, side, it, q, t, lvl.head, lvl.tail, x)
  BY <1>2, <1>16, <1>18, <1>23, UpdatedFields
<1>25. BookOK(c)
  <2>1. UpdateOK(b1, side, it, c, lvl.head)
    BY <1>2, <1>16, <1>18, <1>19, <1>20, <1>23, BookUpdate
  <2> QED BY <2>1 DEF UpdateOK
<1>26. /\ c.pool = q /\ c.index = x /\ SamePrices(b1.levels, c.levels, side, it)
       /\ c.levels[side][it].head = head /\ c.levels[side][it].tail = tail
       /\ c.levels[side][it].total_volume = t
  BY <1>17, <1>24 DEF Assigned
<1>27. SplicedNodes(n, b.pool.nodes, c.pool.nodes, node)
  BY <1>12, <1>21, <1>26 DEF SplicedNodes, prev, next
<1>28. SamePrices(b.levels, c.levels, side, it)
  BY <1>17, <1>26, SamePricesTransitive
<1>29. RemovedFrom(b, c, side, it, node)
  BY <1>12, <1>21, <1>26, <1>27, <1>28 DEF RemovedFrom, prev, next, head, tail, old
<1> QED BY <1>4, <1>22, <1>25, <1>26, <1>29 DEF side, node, c, old, remaining

-----------------------------------------------------------------------------
(* The aggregates of the levels                                             *)

(* total_volume is the sum of the level's orders, but for one level.        *)
TotalsBut(levels, ends, place, side, it) ==
  \A s \in Sides : \A i \in 1 .. Len(levels[s]) :
    s # side \/ i # it =>
      levels[s][i].total_volume = TailSum(ends, place, <<s, levels[s][i].price>>)

(* total_volume is the sum of the orders of every level.                   *)
Totals(levels, ends, place) ==
  \A s \in Sides : \A i \in 1 .. Len(levels[s]) :
    levels[s][i].total_volume = TailSum(ends, place, <<s, levels[s][i].price>>)

(* The fields and the key of a level.                                      *)
LEMMA LevelPrices ==
  ASSUME NEW n, NEW levels, LevelsOK(levels, n), NEW s \in Sides, NEW i \in 1 .. Len(levels[s])
  PROVE  /\ levels[s][i].price \in Prices /\ levels[s][i].total_volume \in Int
         /\ <<s, levels[s][i].price>> \in Keys
<1>1. levels[s][i] \in LevelType(n)
  BY LevelsFacts
<1>2. levels[s][i].price \in Prices /\ levels[s][i].total_volume \in Int
  BY <1>1 DEF LevelType
<1> QED BY <1>2, KeyFacts

(* Aggregates stay exact when one level and its list move by the same      *)
(* amount.                                                                 *)
LEMMA TotalsUpdate ==
  ASSUME NEW n, NEW levels, LevelsOK(levels, n), Sorted(levels),
         NEW side \in Sides, NEW it \in 1 .. Len(levels[side]),
         NEW m, SamePrices(levels, m, side, it),
         NEW ends, NEW place, NEW e, NEW v, NEW delta \in Int,
         TotalsBut(levels, ends, place, side, it),
         SumMoves(ends, place, e, v, <<side, levels[side][it].price>>, delta)
  PROVE  /\ TotalsBut(m, e, v, side, it)
         /\ Totals(levels, ends, place)
              /\ m[side][it].total_volume = levels[side][it].total_volume + delta
              => Totals(m, e, v)
<1> DEFINE key == <<side, levels[side][it].price>>
<1>1. ASSUME NEW s \in Sides, NEW i \in 1 .. Len(m[s]), s # side \/ i # it
      PROVE  m[s][i].total_volume = TailSum(e, v, <<s, m[s][i].price>>)
  <2>1. i \in 1 .. Len(levels[s]) /\ m[s][i] = levels[s][i]
    BY <1>1 DEF SamePrices
  <2>2. <<s, levels[s][i].price>> # key
    BY <1>1, <2>1, SortedPrices, KeyFacts
  <2>3. <<s, levels[s][i].price>> \in Keys /\ levels[s][i].total_volume \in Int
    BY <2>1, LevelPrices
  <2>4. levels[s][i].total_volume = TailSum(ends, place, <<s, levels[s][i].price>>)
    BY <1>1, <2>1 DEF TotalsBut
  <2> QED BY <2>1, <2>2, <2>3, <2>4 DEF SumMoves
<1>2. ASSUME Totals(levels, ends, place),
             m[side][it].total_volume = levels[side][it].total_volume + delta
      PROVE  m[side][it].total_volume = TailSum(e, v, <<side, m[side][it].price>>)
  <2>1. m[side][it].price = levels[side][it].price /\ key \in Keys
    BY LevelPrices DEF SamePrices
  <2>2. levels[side][it].total_volume = TailSum(ends, place, key)
    BY <1>2 DEF Totals
  <2> QED BY <1>2, <2>1, <2>2 DEF SumMoves
<1>3. TotalsBut(m, e, v, side, it)
  BY <1>1 DEF TotalsBut
<1>4. ASSUME Totals(levels, ends, place),
             m[side][it].total_volume = levels[side][it].total_volume + delta
      PROVE  Totals(m, e, v)
  <2> SUFFICES ASSUME NEW s \in Sides, NEW i \in 1 .. Len(m[s])
               PROVE  m[s][i].total_volume = TailSum(e, v, <<s, m[s][i].price>>)
    BY DEF Totals
  <2>1. CASE s = side /\ i = it
    BY <1>2, <1>4, <2>1
  <2>2. CASE ~(s = side /\ i = it)
    BY <1>1, <2>2
  <2> QED BY <2>1, <2>2
<1> QED BY <1>3, <1>4

(* Erasing the one level whose aggregate is not exact leaves exact ones.   *)
LEMMA TotalsErase ==
  ASSUME NEW n, NEW levels, LevelsOK(levels, n), NEW ends, NEW place,
         NEW side \in Sides, NEW it \in 1 .. Len(levels[side]),
         TotalsBut(levels, ends, place, side, it)
  PROVE  Totals(Without(levels, side, it), ends, place)
<1> DEFINE m == Without(levels, side, it)
<1>1. /\ \A s \in Sides \ {side} : m[s] = levels[s]
      /\ Len(m[side]) = Len(levels[side]) - 1
      /\ \A j \in 1 .. Len(levels[side]) - 1 :
           m[side][j] = IF j < it THEN levels[side][j] ELSE levels[side][j + 1]
      /\ Len(levels[side]) \in Nat
  BY WithoutFacts, LevelsFacts
<1> HIDE DEF m
<1> SUFFICES ASSUME NEW s \in Sides, NEW i \in 1 .. Len(m[s])
             PROVE  m[s][i].total_volume = TailSum(ends, place, <<s, m[s][i].price>>)
  BY DEF Totals, m
<1>2. CASE s # side
  <2>1. m[s] = levels[s]
    BY <1>1, <1>2
  <2> QED BY <1>2, <2>1 DEF TotalsBut
<1>3. CASE s = side
  <2>1. PICK j \in 1 .. Len(levels[side]) : j # it /\ m[side][i] = levels[side][j]
    <3>1. i \in 1 .. Len(levels[side]) /\ i + 1 \in 1 .. Len(levels[side])
      BY <1>1, <1>3
    <3>2. CASE i < it
      BY <1>1, <1>3, <3>1, <3>2
    <3>3. CASE ~(i < it)
      <4>1. i + 1 # it /\ m[side][i] = levels[side][i + 1]
        BY <1>1, <1>3, <3>1, <3>3
      <4> QED BY <3>1, <4>1
    <3> QED BY <3>2, <3>3
  <2> QED BY <1>3, <2>1 DEF TotalsBut
<1> QED BY <1>2, <1>3

-----------------------------------------------------------------------------
(* Erasing an emptied level                                                 *)

(* erase_if_empty changes no list.                                         *)
LEMMA EraseLaid ==
  ASSUME NEW b, BookOK(b), NEW ends, NEW place, Laid(b, ends, place),
         NEW side \in Sides, NEW it \in 1 .. Len(b.levels[side])
  PROVE  LET c == erase_if_empty(b, side, it) IN
         /\ Laid(c, ends, place) /\ c.pool = b.pool /\ c.index = b.index
         /\ Totals(b.levels, ends, place) => Totals(c.levels, ends, place)
         /\ TotalsBut(b.levels, ends, place, side, it) /\ b.levels[side][it].head = 0
              => Totals(c.levels, ends, place)
<1> DEFINE n == Len(b.pool.nodes)
           c == erase_if_empty(b, side, it)
<1>1. LevelsOK(b.levels, n)
  BY BookFields
<1>2. CASE b.levels[side][it].head # 0
  <2>1. c = b
    BY <1>2 DEF erase_if_empty
  <2> HIDE DEF c
  <2> QED BY <1>2, <2>1 DEF c
<1>3. CASE b.levels[side][it].head = 0
  <2>1. c.pool = b.pool /\ c.index = b.index /\ c.levels = Without(b.levels, side, it)
    BY <1>3 DEF erase_if_empty, Without
  <2>2. b.levels[side][it].tail = 0
    <3>1. /\ ends[Key(b, side, it)].head = b.levels[side][it].head
          /\ ends[Key(b, side, it)].tail = b.levels[side][it].tail
      BY DEF Laid, Bound, Key
    <3>2. Key(b, side, it) \in Keys
      BY LevelKey
    <3> QED BY <1>3, <3>1, <3>2 DEF Laid, Layout, Ends
  <2>3. Bound(Without(b.levels, side, it), ends)
    BY <1>1, <1>3, <2>2, BoundErase DEF Laid
  <2>4. Totals(b.levels, ends, place) => TotalsBut(b.levels, ends, place, side, it)
    BY DEF Totals, TotalsBut
  <2>5. TotalsBut(b.levels, ends, place, side, it) => Totals(c.levels, ends, place)
    BY <1>1, <2>1, TotalsErase
  <2> HIDE DEF c
  <2>6. Laid(c, ends, place)
    BY <2>1, <2>3 DEF Laid
  <2> QED BY <2>1, <2>4, <2>5, <2>6 DEF c
<1> QED BY <1>2, <1>3

-----------------------------------------------------------------------------
(* An order keeps its place and gives up part of its volume                 *)

(* Reducing the oldest order of a level keeps the book laid out.           *)
LEMMA ReduceLaid ==
  ASSUME NEW b, BookOK(b), Sorted(b.levels), NEW ends, NEW place, Laid(b, ends, place),
         NEW side \in Sides, NEW it \in 1 .. Len(b.levels[side]),
         NEW h, IsHead(b, side, it, h), h # kNull, NEW w \in Int, w > 0,
         NEW c, Reduced(b, c, side, it, h, w)
  PROVE  LET delta == w - b.pool.nodes[h].value.volume
             v == Shifted(Len(b.pool.nodes), place, h, delta)
         IN  /\ Laid(c, ends, v)
             /\ SumMoves(ends, place, ends, v, Key(b, side, it), delta)
             /\ delta \in Int
             /\ Complete(Len(b.pool.nodes), b.pool.nodes, b.index, place)
                  => Complete(Len(b.pool.nodes), c.pool.nodes, c.index, v)
<1> DEFINE N == Len(b.pool.nodes)
           nodes == b.pool.nodes
           key == Key(b, side, it)
           delta == w - nodes[h].value.volume
           v == Shifted(N, place, h, delta)
<1>1. /\ N \in Nat /\ key \in Keys /\ LevelsOK(b.levels, N) /\ IndexOK(b.index, N)
  BY BookFields, LevelKey
<1>2. h \in 1 .. N
  BY <1>1, LevelFields DEF IsHead
<1>3. ends[key].head = b.levels[side][it].head /\ ends[key].tail = b.levels[side][it].tail
  BY DEF Laid, Bound, Key
<1>4. h = ends[key].head
  BY <1>3 DEF IsHead
<1>5. Layout(N, nodes, ends, place) /\ Revalued(N, nodes, c.pool.nodes, h, w)
  BY DEF Laid, Reduced
<1>6. delta \in Int
  <2>1. nodes[h].value \in RestingOrder
    BY <1>2, BookFields
  <2> QED BY <2>1 DEF RestingOrder
<1>7. \A m \in 1 .. N : v[m].key = place[m].key
  <2> HIDE DEF delta
  <2> QED BY DEF Shifted
<1>8. Layout(N, c.pool.nodes, ends, v) /\ SumMoves(ends, place, ends, v, key, delta)
  <2> HIDE DEF N, nodes, key
  <2> QED BY <1>1, <1>2, <1>4, <1>5, RevalueKeeps
<1> HIDE DEF v, delta
<1>9. Bound(c.levels, ends)
  <2> SUFFICES ASSUME NEW s \in Sides
               PROVE  /\ \A i \in 1 .. Len(c.levels[s]) :
                           /\ ends[<<s, c.levels[s][i].price>>].head = c.levels[s][i].head
                           /\ ends[<<s, c.levels[s][i].price>>].tail = c.levels[s][i].tail
                      /\ \A p \in Prices : (\A i \in 1 .. Len(c.levels[s]) : c.levels[s][i].price # p)
                           => ends[<<s, p>>].head = 0 /\ ends[<<s, p>>].tail = 0
    BY DEF Bound
  <2>1. /\ Len(c.levels[s]) = Len(b.levels[s])
        /\ \A i \in 1 .. Len(b.levels[s]) :
             /\ c.levels[s][i].price = b.levels[s][i].price
             /\ c.levels[s][i].head = b.levels[s][i].head
             /\ c.levels[s][i].tail = b.levels[s][i].tail
    BY DEF Reduced, SamePrices
  <2>2. /\ \A i \in 1 .. Len(b.levels[s]) :
             /\ ends[<<s, b.levels[s][i].price>>].head = b.levels[s][i].head
             /\ ends[<<s, b.levels[s][i].price>>].tail = b.levels[s][i].tail
        /\ \A p \in Prices : (\A i \in 1 .. Len(b.levels[s]) : b.levels[s][i].price # p)
             => ends[<<s, p>>].head = 0 /\ ends[<<s, p>>].tail = 0
    BY DEF Laid, Bound
  <2> QED BY <2>1, <2>2
<1>10. FreeOK(N, c.pool.free_list, v)
  BY <1>7 DEF Laid, Reduced, FreeOK
<1>11. \A id \in DOMAIN b.index : b.index[id].node \in 1 .. N
  BY <1>1 DEF IndexOK, LocationType
<1>12. \A m \in 1 .. N : c.pool.nodes[m].value.id = nodes[m].value.id
  BY DEF Reduced, Revalued
<1>13. Sound(c.pool.nodes, c.index, v)
  <2>1. c.index = b.index /\ Sound(nodes, b.index, place)
    BY DEF Reduced, Laid
  <2>2. ASSUME NEW id \in DOMAIN b.index
        PROVE  /\ v[b.index[id].node].key = <<b.index[id].side, b.index[id].price>>
               /\ c.pool.nodes[b.index[id].node].value.id = id
    <3>1. /\ place[b.index[id].node].key = <<b.index[id].side, b.index[id].price>>
          /\ nodes[b.index[id].node].value.id = id /\ b.index[id].node \in 1 .. N
      BY <1>11, <2>1 DEF Sound
    <3> HIDE DEF N, nodes
    <3> QED BY <1>7, <1>12, <3>1
  <2> QED BY <2>1, <2>2 DEF Sound
<1>14. ASSUME Complete(N, nodes, b.index, place)
       PROVE  Complete(N, c.pool.nodes, c.index, v)
  <2>1. c.index = b.index
    BY DEF Reduced
  <2> HIDE DEF N, nodes
  <2> QED BY <1>7, <1>12, <1>14, <2>1 DEF Complete
<1>15. Laid(c, ends, v)
  <2>1. Len(c.pool.nodes) = N
    BY DEF Reduced
  <2> HIDE DEF N
  <2> QED BY <1>8, <1>9, <1>10, <1>13, <2>1 DEF Laid
<1> QED BY <1>6, <1>8, <1>14, <1>15 DEF v, delta

-----------------------------------------------------------------------------
(* A slot for a new order                                                   *)

(* allocate takes a free slot or adds one to the pool, and touches no      *)
(* other.                                                                  *)
LEMMA AllocateFields ==
  ASSUME NEW p, PoolOK(p), ~Exhausted(p), NEW w \in RestingOrder
  PROVE  LET q == allocate(p, w)
             node == AllocatedIndex(p)
         IN  /\ \A m \in 1 .. Len(q.nodes) : m # node =>
                  m \in 1 .. Len(p.nodes) /\ q.nodes[m] = p.nodes[m]
             /\ q.nodes[node] = [value |-> w, next |-> 0, prev |-> 0]
             /\ node \in 1 .. Len(p.nodes) => node \in ToSet(p.free_list)
<1> DEFINE n == Len(p.nodes)
           fresh == [value |-> w, next |-> 0, prev |-> 0]
<1>1. n \in Nat /\ DOMAIN p.nodes = 1 .. n
  BY DEF PoolOK
<1>2. CASE p.free_list # <<>>
  <2>1. Last(p.free_list) \in 1 .. n /\ Last(p.free_list) \in ToSet(p.free_list)
    BY <1>1, <1>2 DEF PoolOK, Last, ToSet
  <2> HIDE DEF n
  <2>2. allocate(p, w).nodes = [p.nodes EXCEPT ![Last(p.free_list)] = fresh]
    BY <1>2 DEF allocate
  <2>3. Len(allocate(p, w).nodes) = n
    BY <2>2 DEF PoolOK, n
  <2> QED BY <1>1, <1>2, <2>1, <2>2, <2>3 DEF AllocatedIndex, n
<1>3. CASE p.free_list = <<>>
  <2>1. allocate(p, w).nodes = Append(p.nodes, fresh) /\ AllocatedIndex(p) = n + 1
    BY <1>3 DEF allocate, AllocatedIndex
  <2>2. p.nodes \in Seq(Node(RestingOrder, 0 .. n))
    BY DEF PoolOK
  <2> HIDE DEF fresh
  <2>3. /\ Len(Append(p.nodes, fresh)) = n + 1
        /\ Append(p.nodes, fresh)[n + 1] = fresh
        /\ \A m \in 1 .. n : Append(p.nodes, fresh)[m] = p.nodes[m]
    BY <2>2
  <2> HIDE DEF n
  <2> QED BY <1>1, <2>1, <2>3 DEF fresh, n
<1> QED BY <1>2, <1>3

(* The free list after allocate: without the slot that was handed out.      *)
LEMMA FreeAllocate ==
  ASSUME NEW p, PoolOK(p), ~Exhausted(p), NEW w \in RestingOrder,
         NEW place, FreeOK(Len(p.nodes), p.free_list, place),
         NEW v, v[AllocatedIndex(p)].key \in Keys,
         \A m \in 1 .. Len(allocate(p, w).nodes) :
           m # AllocatedIndex(p) => v[m].key = place[m].key
  PROVE  FreeOK(Len(allocate(p, w).nodes), allocate(p, w).free_list, v)
<1> DEFINE N == Len(p.nodes)
           q == allocate(p, w)
           M == Len(q.nodes)
           node == AllocatedIndex(p)
           free == p.free_list
<1>1. N \in Nat /\ M \in Nat /\ node \in 1 .. M /\ free \in Seq(1 .. N)
  BY AllocateOK DEF PoolOK
<1>2. \A m \in 1 .. M : m # node => m \in 1 .. N
  BY AllocateFields
<1>3. \A m \in 1 .. N : place[m].key \in Keys <=> m \notin ToSet(free)
  BY DEF FreeOK
<1>4. \A i, j \in 1 .. Len(free) : free[i] = free[j] => i = j
  BY DEF FreeOK, IsInjective, PoolOK
<1>5. CASE free # <<>>
  <2>1. /\ q.free_list = Front(free) /\ node = free[Len(free)]
        /\ Len(free) \in Nat /\ Len(free) > 0
    BY <1>1, <1>5 DEF allocate, AllocatedIndex, Last
  <2>2. /\ Len(Front(free)) = Len(free) - 1
        /\ \A i \in 1 .. Len(free) - 1 : Front(free)[i] = free[i]
        /\ DOMAIN Front(free) = 1 .. Len(free) - 1
        /\ DOMAIN free = 1 .. Len(free)
    BY <1>1, <2>1 DEF Front
  <2> HIDE DEF q, node, free, M, N
  <2>3. IsInjective(Front(free))
    BY <1>4, <2>1, <2>2 DEF IsInjective
  <2>4. ASSUME NEW n \in 1 .. M PROVE v[n].key \in Keys <=> n \notin ToSet(Front(free))
    <3>1. CASE n = node
      <4>1. ASSUME n \in ToSet(Front(free)) PROVE FALSE
        <5>1. PICK i \in 1 .. Len(free) - 1 : n = free[i]
          BY <2>2, <4>1 DEF ToSet
        <5>2. i \in 1 .. Len(free) /\ Len(free) \in 1 .. Len(free) /\ i # Len(free)
          BY <2>1
        <5> QED BY <1>4, <2>1, <3>1, <5>1, <5>2
      <4> QED BY <3>1, <4>1 DEF node
    <3>2. CASE n # node
      <4>1. n \in 1 .. N /\ v[n].key = place[n].key
        BY <1>2, <3>2 DEF M, q, node
      <4>2. n \in ToSet(Front(free)) <=> n \in ToSet(free)
        <5>1. ASSUME n \in ToSet(free) PROVE n \in ToSet(Front(free))
          <6>1. PICK i \in 1 .. Len(free) : n = free[i]
            BY <2>2, <5>1 DEF ToSet
          <6>2. i \in 1 .. Len(free) - 1
            BY <2>1, <3>2, <6>1
          <6> QED BY <2>2, <6>1, <6>2 DEF ToSet
        <5>2. ASSUME n \in ToSet(Front(free)) PROVE n \in ToSet(free)
          <6>1. PICK i \in 1 .. Len(free) - 1 : n = free[i]
            BY <2>2, <5>2 DEF ToSet
          <6>2. i \in 1 .. Len(free)
            BY <2>1
          <6> QED BY <2>2, <6>1, <6>2 DEF ToSet
        <5> QED BY <5>1, <5>2
      <4> QED BY <1>3, <4>1, <4>2
    <3> QED BY <3>1, <3>2
  <2> QED BY <2>1, <2>3, <2>4 DEF FreeOK, M, q
<1>6. CASE free = <<>>
  <2>1. q.free_list = <<>> /\ ToSet(<<>>) = {}
    BY <1>6 DEF allocate, ToSet
  <2>2. IsInjective(<<>>)
    BY DEF IsInjective
  <2> HIDE DEF q, node, free, M, N
  <2>3. ASSUME NEW n \in 1 .. M PROVE v[n].key \in Keys
    <3>1. n # node => n \in 1 .. N /\ v[n].key = place[n].key
      BY <1>2 DEF M, q, node
    <3>2. n # node => v[n].key \in Keys
      BY <1>3, <1>6, <2>1, <3>1
    <3> QED BY <3>2 DEF node
  <2> QED BY <2>1, <2>2, <2>3 DEF FreeOK, M, q
<1> QED BY <1>5, <1>6

-----------------------------------------------------------------------------
(* A level for a new order                                                  *)

(* levels with a level for price at it of side.                             *)
WithPrice(levels, side, it, price) ==
  [levels EXCEPT ![side] = WithLevel(levels[side], it, price)]

(* Every level of levels is one of m and conversely, but for an empty one   *)
(* at it of side whose price levels does not have.                          *)
Inserted(levels, m, side, it, price) ==
  /\ \A s \in Sides : \A i \in 1 .. Len(m[s]) :
       \/ \E j \in 1 .. Len(levels[s]) : m[s][i] = levels[s][j]
       \/ /\ s = side /\ i = it /\ m[s][i] = NewLevel(price)
          /\ \A j \in 1 .. Len(levels[s]) : levels[s][j].price # price
  /\ \A s \in Sides : \A j \in 1 .. Len(levels[s]) :
       \E i \in 1 .. Len(m[s]) : m[s][i] = levels[s][j]

(* The side with a level for the price is sorted, and has the levels it    *)
(* had.                                                                    *)
LEMMA WithPriceFacts ==
  ASSUME NEW n \in Nat, NEW levels, LevelsOK(levels, n), Sorted(levels), Occupied(levels),
         NEW side \in Sides, NEW price \in Prices,
         NEW it \in find_level(levels[side], side, price)
  PROVE  LET m == WithPrice(levels, side, it, price) IN
         /\ LevelsOK(m, n) /\ Sorted(m)
         /\ it \in 1 .. Len(m[side]) /\ m[side][it].price = price
         /\ Inserted(levels, m, side, it, price)
<1> DEFINE q == levels[side]
           r == WithLevel(q, it, price)
           m == WithPrice(levels, side, it, price)
<1>1. q \in Seq(LevelType(n)) /\ Len(q) \in Nat
  BY LevelsFacts
<1>2. WithLevelOK(q, r, side, it, price, n)
  <2>1. SortedSide(q, side) /\ \A i \in 1 .. Len(q) : q[i].head # kNull
    BY DEF Sorted, Occupied
  <2> HIDE DEF q
  <2> QED BY <1>1, <2>1, FindLevelInserts DEF q
<1>3. m[side] = r /\ \A s \in Sides : s # side => m[s] = levels[s]
  <2> HIDE DEF r
  <2> QED BY DEF LevelsOK, WithPrice, r
<1>4. LevelsOK(m, n)
  <2>1. r \in Seq(LevelType(n))
    BY <1>2 DEF WithLevelOK
  <2> HIDE DEF r
  <2> QED BY <2>1 DEF LevelsOK, WithPrice, r
<1>5. it \in 1 .. Len(m[side]) /\ m[side][it].price = price
  <2> HIDE DEF m, r
  <2> QED BY <1>2, <1>3 DEF WithLevelOK
<1>6. Sorted(m)
  <2> HIDE DEF m, r
  <2> SUFFICES ASSUME NEW s \in Sides PROVE SortedSide(m[s], s)
    BY DEF Sorted
  <2>1. CASE s # side
    BY <1>3, <2>1 DEF Sorted
  <2>2. CASE s = side
    <3>1. DOMAIN m[s] = 1 .. Len(m[s])
      BY <1>4, LevelsFacts
    <3> QED BY <1>2, <1>3, <2>2, <3>1 DEF SortedSide, WithLevelOK
  <2> QED BY <2>1, <2>2
<1>7. it \in 1 .. Len(q) + 1
  BY DEF find_level
<1>8. CASE Exists(q, it, price)
  <2>1. r = q
    BY <1>8 DEF WithLevel
  <2>2. \A s \in Sides : m[s] = levels[s]
    <3> HIDE DEF m, r
    <3> QED BY <1>3, <2>1
  <2> HIDE DEF m
  <2>3. Inserted(levels, m, side, it, price)
    BY <2>2 DEF Inserted
  <2> QED BY <1>4, <1>5, <1>6, <2>3 DEF m
<1>9. CASE ~Exists(q, it, price)
  <2> DEFINE e == NewLevel(price)
             T == LevelType(n)
  <2>1. r = InsertAt(q, it, e)
    BY <1>9 DEF WithLevel
  <2>2. e \in T
    BY DEF NewLevel, LevelType
  <2> HIDE DEF e, T
  <2>3. IsInsertion(InsertAt(q, it, e), q, it, e)
    <3>1. q \in Seq(T)
      BY <1>1 DEF T
    <3> HIDE DEF q
    <3> QED BY <1>7, <2>2, <3>1, InsertAtProperties, Zenon
  <2> HIDE DEF m, r
  <2>4. /\ Len(m[side]) = Len(q) + 1
        /\ \A j \in 1 .. Len(q) + 1 :
             m[side][j] = IF j < it THEN q[j] ELSE IF j = it THEN e ELSE q[j - 1]
    BY <1>3, <2>1, <2>3 DEF IsInsertion
  <2>5. ASSUME NEW j \in 1 .. Len(q)
        PROVE  \E i \in 1 .. Len(m[side]) : i # it /\ m[side][i] = q[j]
    <3>1. CASE j < it
      BY <1>1, <1>7, <2>4, <3>1
    <3>2. CASE ~(j < it)
      <4>1. j + 1 \in 1 .. Len(q) + 1 /\ j + 1 > it /\ (j + 1) - 1 = j
        BY <1>1, <1>7, <3>2
      <4>2. m[side][j + 1] = q[j]
        BY <1>7, <2>4, <4>1
      <4> QED BY <1>7, <2>4, <4>1, <4>2
    <3> QED BY <3>1, <3>2
  <2>6. ASSUME NEW j \in 1 .. Len(q) PROVE q[j].price # price
    <3>1. PICK i \in 1 .. Len(m[side]) : i # it /\ m[side][i] = q[j]
      BY <2>5
    <3> QED BY <1>4, <1>5, <1>6, <3>1, SortedPrices
  <2>7. ASSUME NEW i \in 1 .. Len(m[side]), i # it
        PROVE  \E j \in 1 .. Len(q) : m[side][i] = q[j]
    <3>1. CASE i < it
      BY <1>1, <1>7, <2>4, <3>1
    <3>2. CASE ~(i < it)
      <4>1. i \in 1 .. Len(q) + 1 /\ i - 1 \in 1 .. Len(q) /\ i # it
        BY <1>1, <1>7, <2>4, <2>7, <3>2
      <4>2. m[side][i] = q[i - 1]
        BY <2>4, <3>2, <4>1
      <4> QED BY <4>1, <4>2
    <3> QED BY <3>1, <3>2
  <2>8. m[side][it] = e
    BY <1>7, <2>4
  <2>9. Inserted(levels, m, side, it, price)
    <3>1. ASSUME NEW s \in Sides, NEW i \in 1 .. Len(m[s])
          PROVE  \/ \E j \in 1 .. Len(levels[s]) : m[s][i] = levels[s][j]
                 \/ /\ s = side /\ i = it /\ m[s][i] = e
                    /\ \A j \in 1 .. Len(levels[s]) : levels[s][j].price # price
      <4>1. CASE s # side
        BY <1>3, <4>1
      <4>2. CASE s = side /\ i # it
        BY <2>7, <4>2
      <4>3. CASE s = side /\ i = it
        BY <2>6, <2>8, <4>3
      <4> QED BY <4>1, <4>2, <4>3
    <3>2. ASSUME NEW s \in Sides, NEW j \in 1 .. Len(levels[s])
          PROVE  \E i \in 1 .. Len(m[s]) : m[s][i] = levels[s][j]
      <4>1. CASE s # side
        BY <1>3, <4>1
      <4>2. CASE s = side
        BY <2>5, <4>2
      <4> QED BY <4>1, <4>2
    <3> QED BY <3>1, <3>2 DEF Inserted, e
  <2> QED BY <1>4, <1>5, <1>6, <2>9 DEF m
<1> QED BY <1>8, <1>9

(* An empty level for a price that has no orders binds and sums to nothing. *)
LEMMA InsertedKeeps ==
  ASSUME NEW levels, NEW ends, NEW m, NEW side \in Sides, NEW it, NEW price \in Prices,
         Inserted(levels, m, side, it, price), Bound(levels, ends)
  PROVE  /\ Bound(m, ends)
         /\ \A place : Totals(levels, ends, place) => Totals(m, ends, place)
<1>0. NewLevel(price).head = 0 /\ NewLevel(price).tail = 0 /\ NewLevel(price).total_volume = 0
      /\ NewLevel(price).price = price
  BY DEF NewLevel
<1>1. ASSUME NEW s \in Sides, NEW i \in 1 .. Len(m[s]), m[s][i] = NewLevel(price), s = side,
             \A j \in 1 .. Len(levels[s]) : levels[s][j].price # price
      PROVE  /\ m[s][i].price = price /\ m[s][i].head = 0 /\ m[s][i].tail = 0
             /\ m[s][i].total_volume = 0
             /\ ends[<<s, price>>].head = 0 /\ ends[<<s, price>>].tail = 0
  BY <1>0, <1>1 DEF Bound
<1>2. Bound(m, ends)
  <2>1. ASSUME NEW s \in Sides, NEW i \in 1 .. Len(m[s])
        PROVE  /\ ends[<<s, m[s][i].price>>].head = m[s][i].head
               /\ ends[<<s, m[s][i].price>>].tail = m[s][i].tail
    <3>1. CASE \E j \in 1 .. Len(levels[s]) : m[s][i] = levels[s][j]
      BY <3>1 DEF Bound
    <3>2. CASE ~\E j \in 1 .. Len(levels[s]) : m[s][i] = levels[s][j]
      BY <1>1, <3>2 DEF Inserted
    <3> QED BY <3>1, <3>2
  <2>2. ASSUME NEW s \in Sides, NEW p \in Prices, \A i \in 1 .. Len(m[s]) : m[s][i].price # p
        PROVE  ends[<<s, p>>].head = 0 /\ ends[<<s, p>>].tail = 0
    <3>1. \A j \in 1 .. Len(levels[s]) : levels[s][j].price # p
      BY <2>2 DEF Inserted
    <3> QED BY <3>1 DEF Bound
  <2> QED BY <2>1, <2>2 DEF Bound
<1>3. ASSUME NEW place, Totals(levels, ends, place) PROVE Totals(m, ends, place)
  <2> SUFFICES ASSUME NEW s \in Sides, NEW i \in 1 .. Len(m[s])
               PROVE  m[s][i].total_volume = TailSum(ends, place, <<s, m[s][i].price>>)
    BY DEF Totals
  <2>1. CASE \E j \in 1 .. Len(levels[s]) : m[s][i] = levels[s][j]
    BY <1>3, <2>1 DEF Totals
  <2>2. CASE ~\E j \in 1 .. Len(levels[s]) : m[s][i] = levels[s][j]
    <3>1. /\ m[s][i] = NewLevel(price) /\ s = side
          /\ \A j \in 1 .. Len(levels[s]) : levels[s][j].price # price
      BY <2>2 DEF Inserted
    <3>2. m[s][i].price = price /\ m[s][i].total_volume = 0 /\ ends[<<s, price>>].head = 0
      BY <1>1, <3>1
    <3> QED BY <3>2 DEF TailSum
  <2> QED BY <2>1, <2>2
<1> QED BY <1>2, <1>3

(* c is b with an order w at the end of the level at it of side, for which  *)
(* levels already has a place, in a slot of the pool q.                     *)
RestedIn(b, c, levels, q, side, it, node, w) ==
  /\ Len(c.pool.nodes) = Len(q.nodes) /\ c.pool.free_list = q.free_list
  /\ \A m \in 1 .. Len(q.nodes) : m # node =>
       /\ m \in 1 .. Len(b.pool.nodes)
       /\ c.pool.nodes[m].next = IF m = levels[side][it].tail THEN node
                                 ELSE b.pool.nodes[m].next
       /\ c.pool.nodes[m].prev = b.pool.nodes[m].prev
       /\ c.pool.nodes[m].value = b.pool.nodes[m].value
  /\ c.pool.nodes[node].next = 0
  /\ c.pool.nodes[node].prev = levels[side][it].tail
  /\ c.pool.nodes[node].value = w
  /\ SamePrices(levels, c.levels, side, it)
  /\ c.levels[side][it].head = IF levels[side][it].tail = 0 THEN node
                               ELSE levels[side][it].head
  /\ c.levels[side][it].tail = node
  /\ c.levels[side][it].total_volume = levels[side][it].total_volume + w.volume

(* What rest does to the nodes, to the level and to the index.             *)
LEMMA RestFacts ==
  ASSUME NEW b, BookOK(b), ~Exhausted(b.pool), Sorted(b.levels), Occupied(b.levels),
         NEW id \in OrderIds, NEW side \in Sides, NEW price \in Prices,
         NEW volume \in Int, NEW it \in find_level(b.levels[side], side, price),
         WithPrice(b.levels, side, it, price)[side][it].tail # AllocatedIndex(b.pool)
  PROVE  LET c == rest(b, it, id, side, price, volume)
             w == [id |-> id, volume |-> volume]
             node == AllocatedIndex(b.pool)
         IN  /\ RestedIn(b, c, WithPrice(b.levels, side, it, price),
                         allocate(b.pool, w), side, it, node, w)
             /\ c.index = IF id = kAnonymous THEN b.index
                          ELSE Bind(b.index, id,
                                    [side |-> side, price |-> price, node |-> node])
<1> DEFINE c == rest(b, it, id, side, price, volume)
           N == Len(b.pool.nodes)
           w == [id |-> id, volume |-> volume]
           pool == allocate(b.pool, w)
           M == Len(pool.nodes)
           node == AllocatedIndex(b.pool)
           l1 == WithPrice(b.levels, side, it, price)
           r == WithLevel(b.levels[side], it, price)
           lvl == l1[side][it]
           tail == lvl.tail
           p == IF tail = kNull THEN pool
                ELSE set_prev(set_next(pool, tail, node), node, tail)
           L == [price |-> lvl.price, total_volume |-> lvl.total_volume + volume,
                 head |-> IF tail = kNull THEN node ELSE lvl.head, tail |-> node]
           loc == [side |-> side, price |-> price, node |-> node]
           index == IF id = kAnonymous THEN b.index ELSE Bind(b.index, id, loc)
<1>1. N \in Nat /\ PoolOK(b.pool) /\ LevelsOK(b.levels, N)
  BY BookFields
<1>2. w \in RestingOrder /\ w.volume = volume
  BY DEF RestingOrder
<1>3. PoolOK(pool) /\ node \in 1 .. M /\ M \in Nat /\ N <= M
  <2> HIDE DEF w
  <2> QED BY <1>1, <1>2, AllocateOK
<1>4. LevelsOK(b.levels, M)
  BY <1>1, <1>3, TypesGrow
<1>5. /\ LevelsOK(l1, N) /\ LevelsOK(l1, M)
      /\ it \in 1 .. Len(l1[side]) /\ lvl.price = price
  BY <1>1, <1>3, <1>4, WithPriceFacts
<1>6. l1[side] = r
  <2> HIDE DEF r
  <2> QED BY <1>1 DEF LevelsOK, WithPrice, r
<1>7. c = [pool |-> p, levels |-> [b.levels EXCEPT ![side] = [r EXCEPT ![it] = L]],
           index |-> index]
  <2>1. c = [pool |-> IF r[it].tail = kNull THEN pool
                      ELSE set_prev(set_next(pool, r[it].tail, node), node, r[it].tail),
             levels |-> [b.levels EXCEPT ![side] = [r EXCEPT ![it] =
                [price |-> r[it].price, total_volume |-> r[it].total_volume + volume,
                 head |-> IF r[it].tail = kNull THEN node ELSE r[it].head,
                 tail |-> node]]],
             index |-> index]
    BY DEF rest, WithLevel, NewLevel
  <2> HIDE DEF c, r, l1, pool, node, index
  <2> QED BY <1>6, <2>1
<1>8. lvl \in LevelType(N)
  BY <1>5, LevelsFacts
<1> HIDE DEF lvl
<1>9. lvl.price \in Prices /\ lvl.total_volume \in Int /\ lvl.head \in 0 .. N /\ tail \in 0 .. N
  BY <1>8 DEF LevelType
<1>10. tail # node
  BY DEF lvl
<1> HIDE DEF tail, node, pool, M, N, w, index, loc
<1>11. /\ L \in LevelType(M) /\ L.price = lvl.price /\ L.tail = node
       /\ L.head = IF tail = kNull THEN node ELSE lvl.head
       /\ L.total_volume = lvl.total_volume + volume
  <2>1. (IF tail = kNull THEN node ELSE lvl.head) \in 0 .. M
    BY <1>1, <1>3, <1>9
  <2> QED BY <1>3, <1>9, <2>1 DEF LevelType
<1> HIDE DEF L
<1>12. [b.levels EXCEPT ![side] = [r EXCEPT ![it] = L]] = PutLevel(l1, side, it, L)
  <2>1. \A s \in Sides : s # side => l1[s] = b.levels[s]
    <3> HIDE DEF r
    <3> QED BY <1>1 DEF LevelsOK, WithPrice, r
  <2> HIDE DEF r
  <2> QED BY <1>1, <1>5, <1>6, <2>1 DEF LevelsOK, PutLevel
<1>13. c.pool = p /\ c.levels = PutLevel(l1, side, it, L) /\ c.index = index
  <2> HIDE DEF c, p, r, l1
  <2> QED BY <1>7, <1>12
<1>14. SamePrices(l1, c.levels, side, it) /\ c.levels[side][it] = L
  <2> HIDE DEF c, l1
  <2> QED BY <1>5, <1>11, <1>13, LevelUpdate DEF lvl
<1>15. /\ \A m \in 1 .. M : m # node => m \in 1 .. N /\ pool.nodes[m] = b.pool.nodes[m]
       /\ pool.nodes[node] = [value |-> w, next |-> 0, prev |-> 0]
  BY <1>1, <1>2, AllocateFields DEF M, pool, node, N
<1>16. /\ Len(p.nodes) = M /\ p.free_list = pool.free_list
       /\ \A m \in 1 .. M :
            /\ p.nodes[m].next = IF m = tail THEN node ELSE pool.nodes[m].next
            /\ p.nodes[m].prev = IF m = node THEN tail ELSE pool.nodes[m].prev
            /\ p.nodes[m].value = pool.nodes[m].value
  <2>1. CASE tail = kNull
    <3>1. p = pool
      BY <2>1
    <3> HIDE DEF p
    <3>2. ASSUME NEW m \in 1 .. M
          PROVE  /\ p.nodes[m].next = IF m = tail THEN node ELSE pool.nodes[m].next
                 /\ p.nodes[m].prev = IF m = node THEN tail ELSE pool.nodes[m].prev
                 /\ p.nodes[m].value = pool.nodes[m].value
      BY <1>3, <1>15, <2>1, <3>1
    <3> QED BY <3>1, <3>2 DEF M
  <2>2. CASE tail # kNull
    <3> DEFINE p1 == set_next(pool, tail, node)
    <3>1. tail \in 1 .. Len(pool.nodes) /\ node \in 1 .. Len(pool.nodes)
          /\ node \in 0 .. Len(pool.nodes) /\ tail \in 0 .. Len(pool.nodes)
      BY <1>1, <1>3, <1>9, <2>2 DEF M
    <3>2. PoolOK(p1) /\ Len(p1.nodes) = Len(pool.nodes)
      BY <1>3, <3>1, SetNextOK
    <3>3. /\ p1.free_list = pool.free_list
          /\ \A m \in 1 .. M :
               /\ p1.nodes[m].next = IF m = tail THEN node ELSE pool.nodes[m].next
               /\ p1.nodes[m].prev = pool.nodes[m].prev
               /\ p1.nodes[m].value = pool.nodes[m].value
      BY <1>3, <3>1, SetNextFields DEF M
    <3>4. p = set_prev(p1, node, tail)
      BY <2>2
    <3> HIDE DEF p1, p
    <3>5. Len(p.nodes) = Len(p1.nodes)
      BY <3>1, <3>2, <3>4, SetPrevOK
    <3>6. /\ p.free_list = p1.free_list
          /\ \A m \in 1 .. M :
               /\ p.nodes[m].prev = IF m = node THEN tail ELSE p1.nodes[m].prev
               /\ p.nodes[m].next = p1.nodes[m].next
               /\ p.nodes[m].value = p1.nodes[m].value
      BY <3>1, <3>2, <3>4, SetPrevFields DEF M
    <3> QED BY <3>2, <3>3, <3>5, <3>6 DEF M
  <2> QED BY <2>1, <2>2
<1> HIDE DEF p, l1, c
<1>17. /\ \A m \in 1 .. M : m # node =>
            /\ m \in 1 .. N
            /\ c.pool.nodes[m].next = IF m = tail THEN node ELSE b.pool.nodes[m].next
            /\ c.pool.nodes[m].prev = b.pool.nodes[m].prev
            /\ c.pool.nodes[m].value = b.pool.nodes[m].value
       /\ c.pool.nodes[node].next = 0
       /\ c.pool.nodes[node].prev = tail
       /\ c.pool.nodes[node].value = w
  BY <1>3, <1>10, <1>13, <1>15, <1>16
<1>18. RestedIn(b, c, l1, pool, side, it, node, w)
  BY <1>2, <1>11, <1>13, <1>14, <1>16, <1>17 DEF RestedIn, tail, lvl, M, N
<1> QED BY <1>13, <1>18 DEF c, l1, pool, node, w, index, loc

(* Resting an order lays it out at the end of the list of its price, and    *)
(* the index finds it; an id the index did not know stays unambiguous.      *)
LEMMA RestLaid ==
  ASSUME NEW b, BookOK(b), ~Exhausted(b.pool), Sorted(b.levels), Occupied(b.levels),
         NEW ends, NEW place, Laid(b, ends, place), Totals(b.levels, ends, place),
         NEW id \in OrderIds, NEW side \in Sides, NEW price \in Prices,
         NEW volume \in Int, volume > 0,
         NEW it \in find_level(b.levels[side], side, price)
  PROVE  LET c == rest(b, it, id, side, price, volume) IN
         \E e, v :
           /\ Laid(c, e, v) /\ Totals(c.levels, e, v)
           /\ \E node : JoinedBy(Len(b.pool.nodes), b.pool.nodes, place, ends,
                                Len(c.pool.nodes), c.pool.nodes, v,
                                <<side, price>>, node, [id |-> id, volume |-> volume])
           /\ Complete(Len(b.pool.nodes), b.pool.nodes, b.index, place)
                /\ id \notin DOMAIN b.index
                => Complete(Len(c.pool.nodes), c.pool.nodes, c.index, v)
<1> DEFINE c == rest(b, it, id, side, price, volume)
           N == Len(b.pool.nodes)
           w == [id |-> id, volume |-> volume]
           pool == allocate(b.pool, w)
           M == Len(pool.nodes)
           node == AllocatedIndex(b.pool)
           l1 == WithPrice(b.levels, side, it, price)
           key == <<side, price>>
           v == Joined(M, place, ends, key, node, volume)
           e == EndsWith(ends, key, c.levels[side][it].head, c.levels[side][it].tail)
<1>1. N \in Nat /\ PoolOK(b.pool) /\ LevelsOK(b.levels, N) /\ IndexOK(b.index, N)
      /\ key \in Keys
  BY BookFields, KeyFacts
<1>2. w \in RestingOrder /\ w.volume = volume /\ w.id = id
  BY DEF RestingOrder
<1> HIDE DEF w
<1>3. PoolOK(pool) /\ node \in 1 .. M /\ M \in Nat /\ N <= M
  BY <1>1, <1>2, AllocateOK
<1>4. /\ \A m \in 1 .. M : m # node => m \in 1 .. N
      /\ node \in 1 .. N => node \in ToSet(b.pool.free_list)
  BY <1>1, <1>2, AllocateFields
<1>5. node \in 1 .. N => place[node].key \notin Keys
  BY <1>4 DEF Laid, FreeOK
<1>6. /\ LevelsOK(l1, N) /\ Sorted(l1)
      /\ it \in 1 .. Len(l1[side]) /\ l1[side][it].price = price
      /\ Inserted(b.levels, l1, side, it, price)
  BY <1>1, WithPriceFacts
<1> HIDE DEF pool, node, l1, M, N
<1>7. Bound(l1, ends) /\ Totals(l1, ends, place)
  BY <1>6, InsertedKeeps DEF Laid
<1>8. ends[key].head = l1[side][it].head /\ ends[key].tail = l1[side][it].tail
  BY <1>6, <1>7 DEF Bound
<1>9. l1[side][it].tail # node
  <2>1. ends[key].tail = 0 \/ (ends[key].tail \in 1 .. N /\ place[ends[key].tail].key = key)
    BY <1>1 DEF Laid, Layout, Ends, N
  <2>2. ends[key].tail = l1[side][it].tail
    BY <1>8
  <2> HIDE DEF key
  <2> QED BY <1>1, <1>3, <1>5, <2>1, <2>2
<1>10. /\ RestedIn(b, c, l1, pool, side, it, node, w)
       /\ c.index = IF id = kAnonymous THEN b.index
                    ELSE Bind(b.index, id, [side |-> side, price |-> price, node |-> node])
  BY <1>9, RestFacts DEF l1, node, pool, w
<1> HIDE DEF c
<1>11. /\ e[key].head = c.levels[side][it].head /\ e[key].tail = c.levels[side][it].tail
       /\ \A k \in Keys : k # key => e[k] = ends[k]
  <2> HIDE DEF key
  <2> QED BY <1>1 DEF EndsWith
<1> HIDE DEF e
<1>12. Appended(N, b.pool.nodes, c.pool.nodes, ends, e, key, node, volume)
  <2>1. \A m \in 1 .. N : m \in 1 .. M
    BY <1>1, <1>3
  <2> HIDE DEF key
  <2> QED BY <1>2, <1>8, <1>10, <1>11, <2>1 DEF Appended, RestedIn, M
<1>13. Layout(N, b.pool.nodes, ends, place)
  BY DEF Laid, N
<1>14. Layout(M, c.pool.nodes, e, v) /\ SumMoves(ends, place, e, v, key, volume)
  <2> HIDE DEF key
  <2> QED BY <1>1, <1>3, <1>4, <1>5, <1>12, <1>13, AppendKeeps
<1>15. v[node].key = key /\ \A m \in 1 .. M : m # node => v[m].key = place[m].key
  BY <1>3 DEF Joined
<1> HIDE DEF v
<1>16. SamePrices(l1, c.levels, side, it)
       /\ c.levels[side][it].total_volume = l1[side][it].total_volume + volume
       /\ Len(c.pool.nodes) = M /\ c.pool.free_list = pool.free_list
  BY <1>2, <1>10 DEF RestedIn, M
<1>17. Bound(c.levels, e)
  BY <1>6, <1>7, <1>16, BoundUpdate DEF e
<1>18. Totals(c.levels, e, v)
  <2>1. TotalsBut(l1, ends, place, side, it)
    BY <1>7 DEF Totals, TotalsBut
  <2> QED BY <1>6, <1>7, <1>14, <1>16, <2>1, TotalsUpdate
<1>19. FreeOK(M, pool.free_list, v)
  <2>1. FreeOK(Len(b.pool.nodes), b.pool.free_list, place)
    BY DEF Laid
  <2>2. v[node].key \in Keys
    BY <1>1, <1>15
  <2> HIDE DEF key
  <2> QED BY <1>1, <1>2, <1>15, <2>1, <2>2, FreeAllocate DEF M, pool, node
<1>20. \A k \in DOMAIN b.index :
         /\ b.index[k].node \in 1 .. M /\ b.index[k].node # node
         /\ c.pool.nodes[b.index[k].node].value.id = k
         /\ place[b.index[k].node].key = <<b.index[k].side, b.index[k].price>>
         /\ v[b.index[k].node].key = place[b.index[k].node].key
  <2> TAKE k \in DOMAIN b.index
  <2>1. /\ b.index[k].node \in 1 .. N /\ b.index[k].side \in Sides /\ b.index[k].price \in Prices
    BY <1>1 DEF IndexOK, LocationType
  <2>2. /\ place[b.index[k].node].key = <<b.index[k].side, b.index[k].price>>
        /\ b.pool.nodes[b.index[k].node].value.id = k
    BY DEF Laid, Sound
  <2>3. <<b.index[k].side, b.index[k].price>> \in Keys
    BY <2>1, KeyFacts
  <2>4. b.index[k].node \in 1 .. M /\ b.index[k].node # node
    BY <1>1, <1>3, <1>5, <2>1, <2>2, <2>3
  <2>5. c.pool.nodes[b.index[k].node].value = b.pool.nodes[b.index[k].node].value
    BY <1>10, <2>4 DEF RestedIn, M
  <2> QED BY <1>15, <2>2, <2>4, <2>5
<1>21. c.pool.nodes[node].value.id = id
  BY <1>2, <1>10 DEF RestedIn
<1> DEFINE loc == [side |-> side, price |-> price, node |-> node]
<1>22. loc.side = side /\ loc.price = price /\ loc.node = node
  OBVIOUS
<1>23. JoinedBy(N, b.pool.nodes, place, ends, M, c.pool.nodes, v, key, node, w)
  <2>1. /\ c.pool.nodes[node].value = w
        /\ \A m \in 1 .. M : m # node => c.pool.nodes[m].value = b.pool.nodes[m].value
    BY <1>10 DEF RestedIn, M
  <2>2. v = Joined(M, place, ends, key, node, w.volume)
    BY <1>2 DEF v
  <2> HIDE DEF key
  <2> QED BY <1>3, <1>4, <1>5, <2>1, <2>2 DEF JoinedBy
<1>24. CASE id = kAnonymous
  <2>1. c.index = b.index
    BY <1>10, <1>24
  <2>2. Sound(c.pool.nodes, c.index, v)
    <3>1. Sound(c.pool.nodes, b.index, v)
      BY <1>20 DEF Sound
    <3> QED BY <2>1, <3>1
  <2>3. ASSUME Complete(N, b.pool.nodes, b.index, place)
        PROVE  Complete(M, c.pool.nodes, c.index, v)
    <3> SUFFICES ASSUME NEW n \in 1 .. M, NEW s \in Sides, NEW p \in Prices,
                        v[n].key = <<s, p>>, c.pool.nodes[n].value.id # kAnonymous
                 PROVE  /\ c.pool.nodes[n].value.id \in DOMAIN c.index
                        /\ c.index[c.pool.nodes[n].value.id] = [side |-> s, price |-> p, node |-> n]
      BY DEF Complete
    <3>1. n # node
      BY <1>21, <1>24
    <3>2. n \in 1 .. N /\ place[n].key = <<s, p>>
          /\ c.pool.nodes[n].value = b.pool.nodes[n].value
      BY <1>4, <1>10, <1>15, <3>1 DEF RestedIn, M
    <3> QED BY <2>1, <2>3, <3>2 DEF Complete
  <2>4. Laid(c, e, v)
    BY <1>14, <1>16, <1>17, <1>19, <2>2 DEF Laid
  <2> QED BY <1>16, <1>18, <1>23, <2>3, <2>4 DEF N, c, w, key
<1>25. CASE id # kAnonymous
  <2>1. c.index = Bind(b.index, id, loc)
    BY <1>10, <1>25
  <2> HIDE DEF loc
  <2>2. /\ DOMAIN c.index = DOMAIN b.index \cup {id} /\ c.index[id] = loc
        /\ \A k \in DOMAIN b.index : k # id => c.index[k] = b.index[k]
    BY <2>1 DEF Bind
  <2>3. Sound(c.pool.nodes, c.index, v)
    <3> SUFFICES ASSUME NEW k \in DOMAIN c.index
                 PROVE  /\ v[c.index[k].node].key = <<c.index[k].side, c.index[k].price>>
                        /\ c.pool.nodes[c.index[k].node].value.id = k
      BY DEF Sound
    <3>1. CASE k = id
      BY <1>15, <1>21, <1>22, <2>2, <3>1
    <3>2. CASE k # id
      BY <1>20, <2>2, <3>2
    <3> QED BY <3>1, <3>2
  <2>4. ASSUME Complete(N, b.pool.nodes, b.index, place), id \notin DOMAIN b.index
        PROVE  Complete(M, c.pool.nodes, c.index, v)
    <3> SUFFICES ASSUME NEW n \in 1 .. M, NEW s \in Sides, NEW p \in Prices,
                        v[n].key = <<s, p>>, c.pool.nodes[n].value.id # kAnonymous
                 PROVE  /\ c.pool.nodes[n].value.id \in DOMAIN c.index
                        /\ c.index[c.pool.nodes[n].value.id] = [side |-> s, price |-> p, node |-> n]
      BY DEF Complete
    <3>1. CASE n = node
      <4>1. s = side /\ p = price
        BY <1>15, <3>1, KeyFacts
      <4> QED BY <1>21, <2>2, <3>1, <4>1 DEF loc
    <3>2. CASE n # node
      <4>1. n \in 1 .. N /\ place[n].key = <<s, p>>
            /\ c.pool.nodes[n].value = b.pool.nodes[n].value
        BY <1>4, <1>10, <1>15, <3>2 DEF RestedIn, M
      <4>2. /\ b.pool.nodes[n].value.id \in DOMAIN b.index
            /\ b.index[b.pool.nodes[n].value.id] = [side |-> s, price |-> p, node |-> n]
        BY <2>4, <4>1 DEF Complete
      <4> QED BY <2>2, <2>4, <4>1, <4>2
    <3> QED BY <3>1, <3>2
  <2>5. Laid(c, e, v)
    BY <1>14, <1>16, <1>17, <1>19, <2>3 DEF Laid
  <2> QED BY <1>16, <1>18, <1>23, <2>4, <2>5 DEF N, c, w, key
<1> QED BY <1>24, <1>25

-----------------------------------------------------------------------------
(* Recursive functions                                                      *)
(*                                                                          *)
(* A recursive function is a CHOOSE.  That it satisfies its own equation    *)
(* follows from the existence of a function that does, which is proved      *)
(* first; the choice is left to Zenon, no other step expands it.            *)

(* The running sums of a sequence exist, by induction on how many there are.*)
LEMMA SumExists ==
  ASSUME NEW s, NEW n \in Nat
  PROVE  \E f : f = [k \in 0 .. n |-> IF k = 0 THEN 0 ELSE f[k - 1] + s[k]]
<1> DEFINE Is(f, m) == f = [k \in 0 .. m |-> IF k = 0 THEN 0 ELSE f[k - 1] + s[k]]
           T == {m \in Nat : \E f : Is(f, m)}
<1>1. 0 \in T
  <2> DEFINE f == [k \in 0 .. 0 |-> 0]
  <2>1. \A k \in 0 .. 0 : k = 0
    OBVIOUS
  <2>2. Is(f, 0)
    BY <2>1
  <2> HIDE DEF Is, f
  <2> QED BY <2>2
<1>2. ASSUME NEW m \in T PROVE m + 1 \in T
  <2>1. PICK f : Is(f, m)
    BY <1>2
  <2> DEFINE g == [k \in 0 .. m + 1 |-> IF k = m + 1 THEN f[m] + s[m + 1] ELSE f[k]]
             h == [k \in 0 .. m + 1 |-> IF k = 0 THEN 0 ELSE g[k - 1] + s[k]]
  <2>2. m \in Nat
    BY <1>2
  <2>3. ASSUME NEW k \in 0 .. m + 1 PROVE g[k] = h[k]
    <3>1. CASE k = m + 1
      <4>1. g[k] = f[m] + s[m + 1] /\ k # 0 /\ k - 1 = m /\ m \in 0 .. m + 1 /\ m # m + 1
        BY <2>2, <3>1
      <4>2. g[m] = f[m]
        BY <2>2, <4>1
      <4>3. h[k] = g[m] + s[m + 1]
        BY <2>2, <3>1, <4>1
      <4> QED BY <4>1, <4>2, <4>3
    <3>2. CASE k # m + 1
      <4>1. k \in 0 .. m /\ g[k] = f[k]
        BY <2>2, <3>2
      <4>2. f[k] = IF k = 0 THEN 0 ELSE f[k - 1] + s[k]
        BY <2>1, <4>1
      <4>3. k # 0 => k - 1 \in 0 .. m + 1 /\ k - 1 # m + 1 /\ g[k - 1] = f[k - 1]
        BY <2>2, <4>1
      <4>4. h[k] = IF k = 0 THEN 0 ELSE g[k - 1] + s[k]
        <5> HIDE DEF g
        <5> QED OBVIOUS
      <4> HIDE DEF g, h
      <4> QED BY <4>1, <4>2, <4>3, <4>4
    <3> QED BY <3>1, <3>2
  <2>4. g = h
    <3>1. g = [k \in 0 .. m + 1 |-> g[k]] /\ h = [k \in 0 .. m + 1 |-> h[k]]
      OBVIOUS
    <3> HIDE DEF g, h
    <3> QED BY <2>3, <3>1
  <2>5. Is(g, m + 1)
    <3> HIDE DEF g
    <3> QED BY <2>4
  <2> HIDE DEF Is, g
  <2> QED BY <2>2, <2>5
<1>3. T = Nat
  <2>1. T \in SUBSET Nat
    OBVIOUS
  <2> HIDE DEF T
  <2> QED BY <1>1, <1>2, <2>1, NatSetInduction
<1>4. \E f : Is(f, n)
  <2> HIDE DEF Is
  <2> QED BY <1>3
<1> QED BY <1>4

(* So the function that Sums chooses satisfies its recursion.               *)
LEMMA SumsIs ==
  ASSUME NEW s, NEW n \in Nat, n = Len(s)
  PROVE Sums(s) = [k \in 0 .. Len(s) |-> IF k = 0 THEN 0 ELSE Sums(s)[k - 1] + s[k]]
<1>1. \E f : f = [k \in 0 .. Len(s) |-> IF k = 0 THEN 0 ELSE f[k - 1] + s[k]]
  BY SumExists
<1> QED BY <1>1, Zenon DEF Sums

(* The equation of Walk.                                                    *)
IsWalk(f, nodes, h, n) ==
  f = [k \in 1 .. n |-> IF k = 1 THEN h
                        ELSE IF f[k - 1] = 0 THEN 0 ELSE nodes[f[k - 1]].next]

(* A walk of any length exists.                                             *)
LEMMA WalkExists ==
  ASSUME NEW nodes, NEW h, NEW n \in Nat
  PROVE  \E f : IsWalk(f, nodes, h, n)
<1> USE DEF IsWalk
<1> DEFINE Is(f, m) == f = [k \in 1 .. m |-> IF k = 1 THEN h
                                      ELSE IF f[k - 1] = 0 THEN 0 ELSE nodes[f[k - 1]].next]
           T == {m \in Nat : \E f : Is(f, m)}
<1>1. 0 \in T
  <2> DEFINE f == [k \in 1 .. 0 |-> 0]
  <2>1. 1 .. 0 = {}
    OBVIOUS
  <2>2. Is(f, 0)
    BY <2>1
  <2> HIDE DEF Is, f
  <2> QED BY <2>2
<1>2. ASSUME NEW m \in T PROVE m + 1 \in T
  <2>1. PICK f : Is(f, m)
    BY <1>2
  <2> DEFINE step(x) == IF x = 0 THEN 0 ELSE nodes[x].next
             g == [k \in 1 .. m + 1 |->
                     IF k = m + 1 THEN (IF k = 1 THEN h ELSE step(f[m])) ELSE f[k]]
             t == [k \in 1 .. m + 1 |-> IF k = 1 THEN h ELSE step(g[k - 1])]
  <2>2. m \in Nat
    BY <1>2
  <2>3. ASSUME NEW k \in 1 .. m + 1 PROVE g[k] = t[k]
    <3>1. CASE k = m + 1
      <4>1. g[k] = (IF k = 1 THEN h ELSE step(f[m])) /\ k - 1 = m /\ m # m + 1
        <5> HIDE DEF step
        <5> QED BY <2>2, <3>1
      <4>2. k # 1 => g[m] = f[m]
        <5> HIDE DEF step
        <5> QED BY <2>2, <3>1, <4>1
      <4>3. t[k] = IF k = 1 THEN h ELSE step(g[m])
        <5> HIDE DEF g, step
        <5> QED BY <2>2, <3>1, <4>1
      <4> HIDE DEF g, t, step
      <4> QED BY <4>1, <4>2, <4>3
    <3>2. CASE k # m + 1
      <4>1. k \in 1 .. m /\ g[k] = f[k]
        <5> HIDE DEF step
        <5> QED BY <2>2, <3>2
      <4>2. f[k] = IF k = 1 THEN h ELSE step(f[k - 1])
        BY <2>1, <4>1
      <4>3. k # 1 => k - 1 \in 1 .. m + 1 /\ k - 1 # m + 1 /\ g[k - 1] = f[k - 1]
        <5> HIDE DEF step
        <5> QED BY <2>2, <4>1
      <4>4. t[k] = IF k = 1 THEN h ELSE step(g[k - 1])
        <5> HIDE DEF g, step
        <5> QED OBVIOUS
      <4> HIDE DEF g, t, step
      <4> QED BY <4>1, <4>2, <4>3, <4>4
    <3> QED BY <3>1, <3>2
  <2>4. g = t
    <3>1. g = [k \in 1 .. m + 1 |-> g[k]] /\ t = [k \in 1 .. m + 1 |-> t[k]]
      <4> HIDE DEF step
      <4> QED OBVIOUS
    <3> HIDE DEF g, t
    <3> QED BY <2>3, <3>1
  <2>5. Is(g, m + 1)
    <3> HIDE DEF g
    <3> QED BY <2>4
  <2> HIDE DEF Is, g
  <2> QED BY <2>2, <2>5
<1>3. T = Nat
  <2>1. T \in SUBSET Nat
    OBVIOUS
  <2> HIDE DEF T
  <2> QED BY <1>1, <1>2, <2>1, NatSetInduction
<1>4. \E f : Is(f, n)
  <2> HIDE DEF Is
  <2> QED BY <1>3
<1> QED BY <1>4

-----------------------------------------------------------------------------
(* The FIFO of a level, read off its layout                                 *)

(* The length of the list of a key.                                         *)
Length(ends, place, k) == IF ends[k].head = 0 THEN 0 ELSE place[ends[k].tail].rank

(* Every rank up to the last is taken, so a list is no longer than the pool.*)
LEMMA LengthBounded ==
  ASSUME NEW N \in Nat, NEW nodes, NEW ends, NEW place, Layout(N, nodes, ends, place),
         NEW key \in Keys
  PROVE  /\ Length(ends, place, key) \in 0 .. N
         /\ \A n \in 1 .. N : place[n].key = key =>
              place[n].rank \in 1 .. Length(ends, place, key)
<1> DEFINE L == Length(ends, place, key)
           head == ends[key].head
           tail == ends[key].tail
<1>1. CASE head = 0
  BY <1>1 DEF Layout, Ends, Length
<1>2. CASE head # 0
  <2>1. /\ head \in 1 .. N /\ place[head].key = key
        /\ tail \in 1 .. N /\ place[tail].key = key
    BY <1>2 DEF Layout, Ends
  <2>2. L = place[tail].rank /\ L \in Nat /\ L >= 1 /\ place[head].rank = 1
    BY <1>2, <2>1 DEF Layout, Linked, Length
  <2>3. \A n \in 1 .. N : place[n].key = key =>
          /\ place[n].rank \in 1 .. L
          /\ n # tail => /\ nodes[n].next \in 1 .. N /\ place[nodes[n].next].key = key
                         /\ place[nodes[n].next].rank = place[n].rank + 1
    <3> HIDE DEF tail
    <3> QED BY <2>2 DEF Layout, Linked, tail
  <2> HIDE DEF L, head, tail
  <2> DEFINE at(r) == {n \in 1 .. N : place[n].key = key /\ place[n].rank = r}
             T == {r \in Nat : at(r) # {}}
  <2>4. 1 .. L \subseteq T
    <3>1. 1 \in T
      BY <2>1, <2>2
    <3>2. ASSUME NEW k \in 1 .. L, k \in T, k + 1 <= L PROVE k + 1 \in T
      <4>1. PICK n \in 1 .. N : place[n].key = key /\ place[n].rank = k
        BY <3>2
      <4>2. n # tail
        BY <2>2, <3>2, <4>1
      <4> QED BY <2>3, <4>1, <4>2
    <3> HIDE DEF T
    <3> QED BY <2>2, <3>1, <3>2, IntervalInduction
  <2> DEFINE c(r) == CHOOSE n \in 1 .. N : place[n].key = key /\ place[n].rank = r
             f == [r \in 1 .. L |-> c(r)]
  <2>5. \A r \in 1 .. L : c(r) \in 1 .. N /\ place[c(r)].key = key /\ place[c(r)].rank = r
    <3> TAKE r \in 1 .. L
    <3>1. \E n \in 1 .. N : place[n].key = key /\ place[n].rank = r
      BY <2>4
    <3> QED BY <3>1, Zenon
  <2> HIDE DEF c
  <2>6. f \in [1 .. L -> 1 .. N]
    BY <2>5
  <2> HIDE DEF f
  <2>7. L <= N
    <3>1. \A i, j \in 1 .. L : f[i] = f[j] => i = j
      BY <2>5 DEF f
    <3> QED BY <2>2, <2>6, <3>1, Pigeonhole
  <2> QED BY <2>2, <2>3, <2>7 DEF L
<1> QED BY <1>1, <1>2

(* q lists the nodes of key by rank.                                        *)
Lists(N, q, place, key, length) ==
  /\ q \in Seq(1 .. N) /\ Len(q) = length
  /\ \A k \in 1 .. length : place[q[k]].key = key /\ place[q[k]].rank = k
  /\ \A n \in 1 .. N : place[n].key = key =>
       place[n].rank \in 1 .. length /\ q[place[n].rank] = n

(* Walk follows next from h.                                                *)
LEMMA WalkIs ==
  ASSUME NEW b, NEW h, NEW N \in Nat, N = Len(b.pool.nodes)
  PROVE  \A k \in 1 .. N :
           Walk(b, h)[k] = IF k = 1 THEN h
                           ELSE IF Walk(b, h)[k - 1] = 0 THEN 0
                           ELSE b.pool.nodes[Walk(b, h)[k - 1]].next
<1> USE DEF null_index, kNull
<1> DEFINE w == Walk(b, h)
           len == Len(b.pool.nodes)
<1>1. \E f : IsWalk(f, b.pool.nodes, h, len)
  BY WalkExists
<1>2. IsWalk(w, b.pool.nodes, h, len)
  BY <1>1, Zenon DEF Walk, IsWalk
<1> HIDE DEF w
<1>3. \A k \in 1 .. N : w[k] = IF k = 1 THEN h ELSE IF w[k - 1] = 0 THEN 0
                      ELSE b.pool.nodes[w[k - 1]].next
  BY <1>2 DEF IsWalk
<1> QED BY <1>3 DEF w

(* Fifo is the walk up to the end: the list of the level.                   *)
LEMMA FifoLists ==
  ASSUME NEW b, BookOK(b), NEW ends, NEW place, Laid(b, ends, place),
         NEW side \in Sides, NEW it \in 1 .. Len(b.levels[side])
  PROVE  Lists(Len(b.pool.nodes), Fifo(b, b.levels[side][it]), place, Key(b, side, it),
               Length(ends, place, Key(b, side, it)))
<1> DEFINE N == Len(b.pool.nodes)
           nodes == b.pool.nodes
           lvl == b.levels[side][it]
           key == Key(b, side, it)
           L == Length(ends, place, key)
           w == Walk(b, lvl.head)
           q == Fifo(b, lvl)
<1>1. N \in Nat /\ key \in Keys /\ Layout(N, nodes, ends, place)
  BY BookFields, LevelKey DEF Laid
<1>2. ends[key].head = lvl.head /\ ends[key].tail = lvl.tail
  BY DEF Laid, Bound, Key
<1> HIDE DEF key, N, L, nodes
<1>3. /\ L \in 0 .. N
      /\ \A n \in 1 .. N : place[n].key = key => place[n].rank \in 1 .. L
  BY <1>1, LengthBounded DEF L
<1>4. \A k \in 1 .. N : w[k] = IF k = 1 THEN lvl.head
                               ELSE IF w[k - 1] = 0 THEN 0 ELSE nodes[w[k - 1]].next
  BY <1>1, WalkIs DEF N, nodes
<1>5. \/ lvl.head = 0 /\ L = 0
      \/ /\ lvl.head \in 1 .. N /\ place[lvl.head].key = key /\ lvl.head # 0
         /\ lvl.tail \in 1 .. N /\ place[lvl.tail].key = key
         /\ L = place[lvl.tail].rank /\ place[lvl.head].rank = 1
  <2> HIDE DEF lvl
  <2> QED BY <1>1, <1>2 DEF Layout, Ends, Linked, L, Length
<1>6. \A n, m \in 1 .. N :
        place[n].key = key /\ place[m].key = key /\ place[n].rank = place[m].rank => n = m
  BY <1>1 DEF Layout, Distinct
<1>7. \A n \in 1 .. N : place[n].key = key =>
        IF n = lvl.tail THEN nodes[n].next = 0
        ELSE /\ nodes[n].next \in 1 .. N /\ place[nodes[n].next].key = key
             /\ place[nodes[n].next].rank = place[n].rank + 1
  <2> HIDE DEF lvl
  <2> QED BY <1>1, <1>2 DEF Layout, Linked
<1> HIDE DEF w, lvl
<1> DEFINE T == {k \in 1 .. N : IF k <= L THEN /\ w[k] \in 1 .. N /\ place[w[k]].key = key
                                               /\ place[w[k]].rank = k
                                ELSE w[k] = 0}
<1>8. 1 .. N \subseteq T
  <2>1. 1 <= N => 1 \in T
    BY <1>1, <1>3, <1>4, <1>5
  <2>2. ASSUME NEW k \in 1 .. N, k \in T, k + 1 <= N PROVE k + 1 \in T
    <3>1. k + 1 \in 1 .. N /\ k + 1 # 1 /\ (k + 1) - 1 = k
      BY <1>1, <2>2
    <3>2. w[k + 1] = IF w[k] = 0 THEN 0 ELSE nodes[w[k]].next
      BY <1>4, <3>1
    <3>3. CASE ~(k <= L)
      <4>1. w[k] = 0 /\ ~(k + 1 <= L)
        BY <1>3, <2>2, <3>3
      <4> QED BY <3>1, <3>2, <4>1
    <3>4. CASE k <= L
      <4>1. w[k] \in 1 .. N /\ place[w[k]].key = key /\ place[w[k]].rank = k /\ w[k] # 0
        BY <1>1, <2>2, <3>4
      <4>2. lvl.tail \in 1 .. N /\ place[lvl.tail].key = key /\ L = place[lvl.tail].rank
        BY <1>3, <1>5, <3>4
      <4>3. CASE w[k] = lvl.tail
        <5>1. w[k + 1] = 0 /\ ~(k + 1 <= L)
          BY <1>7, <3>2, <4>1, <4>2, <4>3
        <5> QED BY <3>1, <5>1
      <4>4. CASE w[k] # lvl.tail
        <5>1. /\ w[k + 1] \in 1 .. N /\ place[w[k + 1]].key = key
              /\ place[w[k + 1]].rank = k + 1
          BY <1>7, <3>2, <4>1, <4>4
        <5>2. k + 1 <= L
          BY <1>3, <5>1
        <5> QED BY <3>1, <5>1, <5>2
      <4> QED BY <4>3, <4>4
    <3> QED BY <3>3, <3>4
  <2> HIDE DEF T
  <2> QED BY <1>1, <2>1, <2>2, IntervalInduction
<1>9. \A k \in 1 .. N : IF k <= L THEN /\ w[k] \in 1 .. N /\ w[k] # 0 /\ place[w[k]].key = key
                                       /\ place[w[k]].rank = k
                        ELSE w[k] = 0
  BY <1>1, <1>8
<1> DEFINE len == CHOOSE n \in 0 .. N : \A k \in 1 .. N : w[k] # 0 <=> k <= n
<1>10. len = L
  <2>1. \A k \in 1 .. N : w[k] # 0 <=> k <= L
    BY <1>9
  <2>2. len \in 0 .. N /\ \A k \in 1 .. N : w[k] # 0 <=> k <= len
    BY <1>3, <2>1, Zenon
  <2> HIDE DEF len
  <2>3. \A k \in 1 .. N : k <= len <=> k <= L
    BY <2>1, <2>2
  <2>4. N \in Nat /\ L \in 0 .. N /\ len \in 0 .. N
    BY <1>1, <1>3, <2>2
  <2> QED BY ONLY <2>3, <2>4
<1>11. q = [k \in 1 .. len |-> w[k]]
  BY Zenon DEF Fifo, w, N, kNull, null_index
<1> HIDE DEF len, q
<1>12. q \in Seq(1 .. N) /\ Len(q) = L /\ \A k \in 1 .. L : q[k] = w[k] /\ k \in 1 .. N /\ k <= L
  <2>1. q = [k \in 1 .. L |-> w[k]]
    BY <1>10, <1>11
  <2>2. N \in Nat /\ L \in 0 .. N /\ \A k \in 1 .. L : k \in 1 .. N /\ k <= L
    BY <1>1, <1>3
  <2>3. \A k \in 1 .. L : w[k] \in 1 .. N
    BY <1>9, <2>2
  <2> QED BY ONLY <2>1, <2>2, <2>3
<1>13. \A k \in 1 .. L : place[q[k]].key = key /\ place[q[k]].rank = k
  BY <1>9, <1>12
<1>14. ASSUME NEW n \in 1 .. N, place[n].key = key
       PROVE  place[n].rank \in 1 .. L /\ q[place[n].rank] = n
  <2>1. place[n].rank \in 1 .. L
    BY <1>3, <1>14
  <2>2. q[place[n].rank] \in 1 .. N
    BY <1>9, <1>12, <2>1
  <2> QED BY <1>6, <1>13, <1>14, <2>1, <2>2
<1> QED BY <1>12, <1>13, <1>14 DEF Lists, q, L, N, key, lvl

-----------------------------------------------------------------------------
(* The invariant of a book, and what each member function does to it        *)

(* A layout of the lists of b that the index agrees with.                   *)
Holds(b, ends, place) ==
  /\ Laid(b, ends, place)
  /\ UniqueIds => Complete(Len(b.pool.nodes), b.pool.nodes, b.index, place)

(* The lists of b have a layout that the aggregates agree with.             *)
Good(b) == \E ends, place : Holds(b, ends, place) /\ Totals(b.levels, ends, place)

(* The same, but for the aggregate of one level.                            *)
GoodBut(b, side, it) ==
  \E ends, place : Holds(b, ends, place) /\ TotalsBut(b.levels, ends, place, side, it)

(* What is exact everywhere is exact but for one level.                     *)
LEMMA GoodIsMore ==
  ASSUME NEW b, NEW side, NEW it, Good(b)
  PROVE  GoodBut(b, side, it)
<1>1. \A ends, place : Totals(b.levels, ends, place)
                         => TotalsBut(b.levels, ends, place, side, it)
  BY DEF Totals, TotalsBut
<1> QED BY <1>1 DEF Good, GoodBut

(* Where the oldest order of a level stands.                                *)
LEMMA HeadPlace ==
  ASSUME NEW b, BookOK(b), NEW ends, NEW place, Laid(b, ends, place),
         NEW side \in Sides, NEW it \in 1 .. Len(b.levels[side]),
         NEW h, IsHead(b, side, it, h), h # kNull
  PROVE  /\ h \in 1 .. Len(b.pool.nodes) /\ place[h].key = Key(b, side, it)
         /\ Key(b, side, it) \in Keys
         /\ h = ends[Key(b, side, it)].head
         /\ ends[Key(b, side, it)].tail = b.levels[side][it].tail
         /\ b.pool.nodes[h].prev = 0 /\ place[h].rank = 1
         /\ place[h].sum = b.pool.nodes[h].value.volume
         /\ b.pool.nodes[h].value.volume \in Int /\ b.pool.nodes[h].value.volume > 0
<1> DEFINE key == Key(b, side, it)
           N == Len(b.pool.nodes)
<1>1. key \in Keys /\ N \in Nat
  BY LevelKey, BookFields
<1>2. ends[key].head = h /\ ends[key].tail = b.levels[side][it].tail
  BY DEF Laid, Bound, Key, IsHead
<1>3. Layout(N, b.pool.nodes, ends, place)
  BY DEF Laid
<1> HIDE DEF key, N
<1>4. h \in 1 .. N /\ place[h].key = key
  BY <1>1, <1>2, <1>3 DEF Layout, Ends
<1>5. b.pool.nodes[h].prev = 0 /\ place[h].rank = 1
  BY <1>1, <1>2, <1>3, <1>4 DEF Layout, Linked
<1>6. /\ b.pool.nodes[h].value.volume \in Int /\ b.pool.nodes[h].value.volume > 0
      /\ place[h].sum = b.pool.nodes[h].value.volume
  BY <1>1, <1>2, <1>3, <1>4 DEF Layout, Summed
<1> QED BY <1>1, <1>2, <1>4, <1>5, <1>6 DEF key, N

(* A volume that leaves a level, with the order that held it or from it.    *)
LEMMA GoodTake ==
  ASSUME NEW b, BookOK(b), Sorted(b.levels), Good(b),
         NEW side \in Sides, NEW it \in 1 .. Len(b.levels[side]),
         NEW h, IsHead(b, side, it, h), h # kNull,
         NEW amount \in Int, 0 < amount, amount <= b.pool.nodes[h].value.volume
  PROVE  Good(take(b, side, it, amount))
<1> DEFINE c == take(b, side, it, amount)
           N == Len(b.pool.nodes)
           vol == b.pool.nodes[h].value.volume
           left == vol - amount
           total == b.levels[side][it].total_volume
<1>1. PICK ends, place : Holds(b, ends, place) /\ Totals(b.levels, ends, place)
  BY DEF Good
<1>2. Laid(b, ends, place)
  BY <1>1 DEF Holds
<1>3. /\ h \in 1 .. N /\ place[h].key = Key(b, side, it)
      /\ b.pool.nodes[h].prev = 0
      /\ b.pool.nodes[h].value.volume \in Int /\ b.pool.nodes[h].value.volume > 0
  BY <1>2, HeadPlace
<1>4. /\ left = 0 => RemovedFrom(b, c, side, it, h) /\ c.index = unindex(b, h)
      /\ left # 0 => Reduced(b, c, side, it, h, left)
      /\ c.levels[side][it].total_volume = b.levels[side][it].total_volume - amount
  BY <1>3, TakeFacts
<1>5. LevelsOK(b.levels, N) /\ N \in Nat
  BY BookFields
<1>6. b.levels[side][it].total_volume \in Int /\ TotalsBut(b.levels, ends, place, side, it)
  BY <1>1, LevelFields DEF Totals, TotalsBut
<1> HIDE DEF c
<1>7. CASE left = 0
  <2> DEFINE v == Vacated(N, b.pool.nodes, place, h)
             e == EndsWith(ends, Key(b, side, it),
                           c.levels[side][it].head, c.levels[side][it].tail)
  <2>1. RemovedFrom(b, c, side, it, h) /\ c.index = unindex(b, h)
    BY <1>4, <1>7
  <2>2. Forgotten(b, c, h)
    BY <1>2, <1>3, <2>1, UnindexForgets DEF Laid
  <2>3. /\ Laid(c, e, v)
        /\ SumMoves(ends, place, e, v, Key(b, side, it), 0 - b.pool.nodes[h].value.volume)
        /\ Complete(N, b.pool.nodes, b.index, place) => Complete(N, c.pool.nodes, c.index, v)
    BY <1>2, <1>3, <2>1, <2>2, RemoveLaid
  <2>4. SamePrices(b.levels, c.levels, side, it) /\ Len(c.pool.nodes) = N
    BY <2>1 DEF RemovedFrom
  <2> DEFINE delta == 0 - vol
  <2>5. delta \in Int /\ c.levels[side][it].total_volume = total + delta
    <3>1. /\ c.levels[side][it].total_volume = total - amount
          /\ total \in Int /\ vol \in Int /\ vol - amount = 0
      BY <1>3, <1>4, <1>6, <1>7
    <3> HIDE DEF total, vol
    <3> QED BY <3>1
  <2>6. /\ SumMoves(ends, place, e, v, <<side, b.levels[side][it].price>>, delta)
        /\ c.levels[side][it].total_volume = b.levels[side][it].total_volume + delta
    BY <2>3, <2>5 DEF Key
  <2> HIDE DEF v, e, N, left, delta, vol, total
  <2>7. Totals(c.levels, e, v)
    BY <1>1, <1>5, <1>6, <2>4, <2>5, <2>6, TotalsUpdate
  <2>8. Holds(c, e, v)
    BY <1>1, <2>3, <2>4 DEF Holds, N
  <2> QED BY <2>7, <2>8 DEF Good, c
<1>8. CASE left # 0
  <2> DEFINE delta == left - b.pool.nodes[h].value.volume
             v == Shifted(N, place, h, delta)
  <2>1. Reduced(b, c, side, it, h, left)
    BY <1>4, <1>8
  <2>2. left \in Int /\ left > 0
    <3>1. vol \in Int /\ amount <= vol /\ vol - amount # 0
      BY <1>3, <1>8
    <3> HIDE DEF vol
    <3> QED BY <3>1
  <2> HIDE DEF left
  <2>3. /\ Laid(c, ends, v)
        /\ SumMoves(ends, place, ends, v, Key(b, side, it), delta)
        /\ delta \in Int
        /\ Complete(N, b.pool.nodes, b.index, place) => Complete(N, c.pool.nodes, c.index, v)
    BY <1>2, <2>1, <2>2, ReduceLaid
  <2>4. SamePrices(b.levels, c.levels, side, it) /\ Len(c.pool.nodes) = N
    BY <2>1 DEF Reduced
  <2>5. c.levels[side][it].total_volume = b.levels[side][it].total_volume + delta
    <3>1. /\ c.levels[side][it].total_volume = total - amount
          /\ total \in Int /\ vol \in Int /\ delta = (vol - amount) - vol
      BY <1>3, <1>4, <1>6 DEF left
    <3> HIDE DEF total, vol, delta
    <3>2. c.levels[side][it].total_volume = total + delta
      BY <3>1
    <3> QED BY <3>2 DEF total
  <2> HIDE DEF v, N, delta
  <2>6. Totals(c.levels, ends, v)
    BY <1>1, <1>5, <1>6, <2>3, <2>4, <2>5, TotalsUpdate DEF Key
  <2>7. Holds(c, ends, v)
    BY <1>1, <2>3, <2>4 DEF Holds, N
  <2> QED BY <2>6, <2>7 DEF Good, c
<1> QED BY <1>7, <1>8

(* The level that was emptied goes with its aggregate.                      *)
LEMMA GoodErase ==
  ASSUME NEW b, BookOK(b), NEW side \in Sides, NEW it \in 1 .. Len(b.levels[side]),
         Good(b) \/ (GoodBut(b, side, it) /\ b.levels[side][it].head = 0)
  PROVE  Good(erase_if_empty(b, side, it))
<1> DEFINE c == erase_if_empty(b, side, it)
<1>1. PICK ends, place : /\ Holds(b, ends, place)
                         /\ \/ Totals(b.levels, ends, place)
                            \/ /\ TotalsBut(b.levels, ends, place, side, it)
                               /\ b.levels[side][it].head = 0
  BY DEF Good, GoodBut
<1>2. Laid(b, ends, place)
  BY <1>1 DEF Holds
<1>3. /\ Laid(c, ends, place) /\ c.pool = b.pool /\ c.index = b.index
      /\ Totals(b.levels, ends, place) => Totals(c.levels, ends, place)
      /\ TotalsBut(b.levels, ends, place, side, it) /\ b.levels[side][it].head = 0
           => Totals(c.levels, ends, place)
  BY <1>2, EraseLaid
<1> HIDE DEF c
<1>4. Holds(c, ends, place)
  BY <1>1, <1>3 DEF Holds
<1> QED BY <1>1, <1>3, <1>4 DEF Good, c

(* set_level pops orders and leaves the aggregate alone.                    *)
LEMMA GoodPop ==
  ASSUME NEW b, BookOK(b), Sorted(b.levels), 
         NEW side \in Sides, NEW it \in 1 .. Len(b.levels[side]), GoodBut(b, side, it),
         NEW h, IsHead(b, side, it, h), h # kNull
  PROVE  GoodBut(pop_front(b, side, it), side, it)
<1> DEFINE c == pop_front(b, side, it)
           N == Len(b.pool.nodes)
<1>1. PICK ends, place : /\ Holds(b, ends, place)
                         /\ TotalsBut(b.levels, ends, place, side, it)
  BY DEF GoodBut
<1>2. Laid(b, ends, place)
  BY <1>1 DEF Holds
<1>3. /\ h \in 1 .. N /\ place[h].key = Key(b, side, it)
      /\ b.pool.nodes[h].prev = 0
      /\ b.pool.nodes[h].value.volume \in Int
  BY <1>2, HeadPlace
<1>4. RemovedFrom(b, c, side, it, h) /\ c.index = unindex(b, h)
  BY <1>3, PopFrontRemoves DEF IsHead
<1>5. LevelsOK(b.levels, N) /\ N \in Nat
  BY BookFields
<1> HIDE DEF c
<1> DEFINE v == Vacated(N, b.pool.nodes, place, h)
           e == EndsWith(ends, Key(b, side, it),
                         c.levels[side][it].head, c.levels[side][it].tail)
<1>6. Forgotten(b, c, h)
  BY <1>2, <1>3, <1>4, UnindexForgets DEF Laid
<1>7. /\ Laid(c, e, v)
      /\ SumMoves(ends, place, e, v, Key(b, side, it), 0 - b.pool.nodes[h].value.volume)
      /\ Complete(N, b.pool.nodes, b.index, place) => Complete(N, c.pool.nodes, c.index, v)
  BY <1>2, <1>3, <1>4, <1>6, RemoveLaid
<1>8. SamePrices(b.levels, c.levels, side, it) /\ Len(c.pool.nodes) = N
  BY <1>4 DEF RemovedFrom
<1>9. 0 - b.pool.nodes[h].value.volume \in Int
  BY <1>3
<1> HIDE DEF v, e, N
<1>10. TotalsBut(c.levels, e, v, side, it)
  BY <1>1, <1>5, <1>7, <1>8, <1>9, TotalsUpdate DEF Key
<1>11. Holds(c, e, v)
  BY <1>1, <1>7, <1>8 DEF Holds, N
<1> QED BY <1>10, <1>11 DEF GoodBut, c

(* An order joins the end of its level.                                     *)
LEMMA GoodRest ==
  ASSUME NEW b, BookOK(b), ~Exhausted(b.pool), Sorted(b.levels), Occupied(b.levels), Good(b),
         NEW id \in OrderIds, NEW side \in Sides, NEW price \in Prices,
         NEW volume \in Int, volume > 0,
         NEW it \in find_level(b.levels[side], side, price),
         UniqueIds => id \notin DOMAIN b.index
  PROVE  Good(rest(b, it, id, side, price, volume))
<1> DEFINE c == rest(b, it, id, side, price, volume)
<1>1. PICK ends, place : Holds(b, ends, place) /\ Totals(b.levels, ends, place)
  BY DEF Good
<1>2. \E e, v :
           /\ Laid(c, e, v) /\ Totals(c.levels, e, v)
           /\ Complete(Len(b.pool.nodes), b.pool.nodes, b.index, place)
                /\ id \notin DOMAIN b.index
                => Complete(Len(c.pool.nodes), c.pool.nodes, c.index, v)
  <2>1. Laid(b, ends, place) /\ Totals(b.levels, ends, place)
    BY <1>1 DEF Holds
  <2> QED BY <2>1, RestLaid
<1> HIDE DEF c
<1> QED BY <1>1, <1>2 DEF Good, Holds, c

(* find_level finds the level of a price that has one.                      *)
LEMMA FindLevelFinds ==
  ASSUME NEW n, NEW levels, LevelsOK(levels, n), Sorted(levels), NEW side \in Sides,
         NEW i \in 1 .. Len(levels[side]), NEW price \in Prices,
         levels[side][i].price = price, NEW it \in find_level(levels[side], side, price)
  PROVE  it \in 1 .. Len(levels[side]) /\ levels[side][it].price = price
<1> DEFINE q == levels[side]
<1>1. /\ Len(q) \in Nat /\ DOMAIN q = 1 .. Len(q)
      /\ \A j \in 1 .. Len(q) : q[j].price \in Nat
  BY LevelsFacts
<1>2. /\ it \in 1 .. Len(q) + 1
      /\ \A j \in 1 .. it - 1 : Better(side, q[j].price, price)
      /\ \A j \in it .. Len(q) : ~Better(side, q[j].price, price)
  BY DEF find_level
<1>3. \A j, k \in 1 .. Len(q) : j < k => Better(side, q[j].price, q[k].price)
  BY <1>1 DEF Sorted, SortedSide
<1>4. price \in Nat /\ q[i].price = price
  BY BookAssumption
<1> HIDE DEF q
<1>5. i >= it
  <2>1. ~Better(side, price, price)
    BY <1>4 DEF Better
  <2>2. i < it => i \in 1 .. it - 1
    BY <1>1, <1>2 DEF q
  <2> QED BY <1>1, <1>2, <1>4, <2>1, <2>2 DEF q
<1>6. it \in 1 .. Len(q) /\ it \in it .. Len(q) /\ i \in 1 .. Len(q)
  BY <1>1, <1>2, <1>5 DEF q
<1>7. ~(it < i)
  BY <1>2, <1>3, <1>4, <1>6
<1>8. it = i
  BY <1>1, <1>2, <1>5, <1>6, <1>7
<1> QED BY <1>4, <1>6, <1>8 DEF q

(* What the index says of id.                                               *)
IsLocated(b, id, side, price, node) ==
  b.index[id].side = side /\ b.index[id].price = price /\ b.index[id].node = node

(* Where an indexed order stands.                                           *)
LEMMA IndexedPlace ==
  ASSUME NEW b, BookOK(b), Sorted(b.levels), NEW ends, NEW place, Laid(b, ends, place),
         NEW id \in DOMAIN b.index, NEW side, NEW node, NEW price,
         IsLocated(b, id, side, price, node),
         NEW it \in find_level(b.levels[side], side, price)
  PROVE  /\ side \in Sides /\ node \in 1 .. Len(b.pool.nodes) /\ price \in Prices
         /\ it \in 1 .. Len(b.levels[side]) /\ b.levels[side][it].price = price
         /\ place[node].key = Key(b, side, it)
         /\ b.pool.nodes[node].value.volume \in Int
         /\ b.pool.nodes[node].next # node /\ b.pool.nodes[node].prev # node
<1> DEFINE N == Len(b.pool.nodes)
           key == <<side, price>>
<1>1. N \in Nat /\ LevelsOK(b.levels, N) /\ IndexOK(b.index, N)
  BY BookFields
<1>2. side \in Sides /\ node \in 1 .. N /\ price \in Prices
  BY <1>1 DEF IndexOK, LocationType, IsLocated
<1>3. place[node].key = key
  BY DEF Laid, Sound, IsLocated
<1>4. key \in Keys
  BY <1>2, KeyFacts
<1>5. Layout(N, b.pool.nodes, ends, place) /\ Bound(b.levels, ends)
  BY DEF Laid
<1> HIDE DEF N
<1>6. ends[key].head # 0
  <2> HIDE DEF key
  <2> QED BY <1>1, <1>2, <1>3, <1>4, <1>5 DEF Layout, Ends
<1>7. PICK i \in 1 .. Len(b.levels[side]) : b.levels[side][i].price = price
  BY <1>2, <1>5, <1>6 DEF Bound
<1>8. it \in 1 .. Len(b.levels[side]) /\ b.levels[side][it].price = price
  BY <1>1, <1>2, <1>7, FindLevelFinds
<1> HIDE DEF key
<1>9. /\ place[node].rank \in Int
      /\ \/ b.pool.nodes[node].next = 0
         \/ place[b.pool.nodes[node].next].rank = place[node].rank + 1
      /\ \/ b.pool.nodes[node].prev = 0
         \/ place[b.pool.nodes[node].prev].rank = place[node].rank - 1
      /\ b.pool.nodes[node].value.volume \in Int
  <2>1. Linked(N, b.pool.nodes, ends, place) /\ Summed(N, b.pool.nodes, ends, place)
    BY <1>5 DEF Layout
  <2> QED BY <1>2, <1>3, <1>4, <2>1 DEF Linked, Summed
<1>10. b.pool.nodes[node].next # node /\ b.pool.nodes[node].prev # node
  <2>1. node # 0
    BY <1>1, <1>2
  <2>2. ASSUME b.pool.nodes[node].next = node PROVE FALSE
    <3>1. place[node].rank = place[node].rank + 1
      BY <1>9, <2>1, <2>2
    <3> QED BY <1>9, <3>1
  <2>3. ASSUME b.pool.nodes[node].prev = node PROVE FALSE
    <3>1. place[node].rank = place[node].rank - 1
      BY <1>9, <2>1, <2>3
    <3> QED BY <1>9, <3>1
  <2> QED BY <2>2, <2>3
<1> QED BY <1>2, <1>3, <1>8, <1>9, <1>10 DEF key, Key, N

(* cancel_order finds the level of an indexed order, and removes that order.*)
LEMMA GoodCancel ==
  ASSUME NEW b, BookOK(b), Sorted(b.levels), Good(b), NEW id \in DOMAIN b.index,
         NEW it \in find_level(b.levels[b.index[id].side], b.index[id].side, b.index[id].price)
  PROVE  /\ Exists(b.levels[b.index[id].side], it, b.index[id].price)
         /\ Good(cancelled(b, it, id))
<1> DEFINE side == b.index[id].side
           node == b.index[id].node
           price == b.index[id].price
           N == Len(b.pool.nodes)
           c == CancelledBook(b, it, id)
<1>1. PICK ends, place : Holds(b, ends, place) /\ Totals(b.levels, ends, place)
  BY DEF Good
<1>2. Laid(b, ends, place)
  BY <1>1 DEF Holds
<1>3. /\ side \in Sides /\ node \in 1 .. N /\ price \in Prices
      /\ it \in 1 .. Len(b.levels[side]) /\ b.levels[side][it].price = price
      /\ place[node].key = Key(b, side, it)
      /\ b.pool.nodes[node].value.volume \in Int
      /\ b.pool.nodes[node].next # node /\ b.pool.nodes[node].prev # node
  <2>1. IsLocated(b, id, side, price, node) /\ it \in find_level(b.levels[side], side, price)
    BY DEF IsLocated
  <2> HIDE DEF side, node, price
  <2> QED BY <1>2, <2>1, IndexedPlace
<1>4. Exists(b.levels[side], it, price)
  BY <1>3 DEF Exists
<1>5. /\ cancelled(b, it, id) = erase_if_empty(c, side, it)
      /\ BookOK(c)
      /\ RemovedFrom(b, c, side, it, node)
      /\ c.index = Erase(b.index, id)
      /\ c.levels[side][it].total_volume =
           b.levels[side][it].total_volume - b.pool.nodes[node].value.volume
  BY <1>3, CancelFacts
<1> HIDE DEF c
<1>6. Forgotten(b, c, node)
  <2>1. Sound(b.pool.nodes, b.index, place)
    BY <1>2 DEF Laid
  <2>2. DOMAIN c.index = DOMAIN b.index \ {id}
    BY <1>5 DEF Erase
  <2>3. \A k \in DOMAIN c.index : c.index[k] = b.index[k]
    BY <1>5 DEF Erase
  <2>4. b.pool.nodes[node].value.id = id
    BY <2>1 DEF Sound
  <2>5. \A k \in DOMAIN b.index : k # id => b.index[k].node # node
    BY <2>1, <2>4 DEF Sound
  <2> HIDE DEF node
  <2> QED BY <2>2, <2>3, <2>4, <2>5 DEF Forgotten
<1> DEFINE v == Vacated(N, b.pool.nodes, place, node)
           e == EndsWith(ends, Key(b, side, it),
                         c.levels[side][it].head, c.levels[side][it].tail)
           delta == 0 - b.pool.nodes[node].value.volume
           total == b.levels[side][it].total_volume
           vol == b.pool.nodes[node].value.volume
<1> HIDE DEF side, node, price
<1>7. /\ Laid(c, e, v)
      /\ SumMoves(ends, place, e, v, Key(b, side, it), delta)
      /\ Complete(N, b.pool.nodes, b.index, place) => Complete(N, c.pool.nodes, c.index, v)
  BY <1>2, <1>3, <1>5, <1>6, RemoveLaid
<1>8. SamePrices(b.levels, c.levels, side, it) /\ Len(c.pool.nodes) = N
  BY <1>5 DEF RemovedFrom
<1>9. delta \in Int /\ c.levels[side][it].total_volume = total + delta
  <2>1. /\ c.levels[side][it].total_volume = total - vol
        /\ total \in Int /\ vol \in Int /\ delta = 0 - vol
    BY <1>3, <1>5, LevelFields
  <2> HIDE DEF total, vol, delta
  <2> QED BY <2>1
<1>10. /\ LevelsOK(b.levels, N) /\ N \in Nat
       /\ TotalsBut(b.levels, ends, place, side, it)
  BY <1>1, BookFields DEF Totals, TotalsBut
<1> HIDE DEF v, e, N, delta
<1>11. Totals(c.levels, e, v)
  <2>1. /\ SumMoves(ends, place, e, v, <<side, b.levels[side][it].price>>, delta)
        /\ c.levels[side][it].total_volume = b.levels[side][it].total_volume + delta
    BY <1>7, <1>9 DEF Key
  <2> QED BY <1>1, <1>3, <1>8, <1>9, <1>10, <2>1, TotalsUpdate
<1>12. Holds(c, e, v)
  BY <1>1, <1>7, <1>8 DEF Holds, N
<1>13. Good(c)
  BY <1>11, <1>12 DEF Good
<1>14. it \in 1 .. Len(c.levels[side])
  BY <1>3, <1>8 DEF SamePrices
<1>15. Good(erase_if_empty(c, side, it))
  BY <1>3, <1>5, <1>13, <1>14, GoodErase
<1> QED BY <1>4, <1>5, <1>15 DEF side, price

-----------------------------------------------------------------------------
(* A level that is being collapsed                                          *)

(* What set_level leaves behind the head of a level is not linked to it     *)
(* until the loop ends.  The book as it would be with node, the next one to *)
(* free, linked to the head: what the loop still has to remove.             *)
Repaired(b, side, it, node) ==
  LET head == b.levels[side][it].head
      p    == set_next(b.pool, head, node)
  IN  Updated(b, side, it, IF node = 0 THEN p ELSE set_prev(p, node, head),
              b.levels[side][it].total_volume, head,
              IF node = 0 THEN head ELSE b.levels[side][it].tail, b.index)

(* c is b with node linked to the head h of a level.                        *)
IsRepaired(b, c, side, it, h, node) ==
  /\ BookOK(c) /\ Len(c.pool.nodes) = Len(b.pool.nodes)
  /\ \A m \in 1 .. Len(b.pool.nodes) :
       /\ c.pool.nodes[m].next = IF m = h THEN node ELSE b.pool.nodes[m].next
       /\ c.pool.nodes[m].prev = IF node # 0 /\ m = node THEN h ELSE b.pool.nodes[m].prev
       /\ c.pool.nodes[m].value = b.pool.nodes[m].value
  /\ c.pool.free_list = b.pool.free_list /\ c.index = b.index
  /\ SamePrices(b.levels, c.levels, side, it)
  /\ c.levels[side][it].head = h
  /\ c.levels[side][it].tail = IF node = 0 THEN h ELSE b.levels[side][it].tail

(* Repaired changes two links, and no type.                                 *)
LEMMA RepairedFacts ==
  ASSUME NEW b, BookOK(b), NEW side \in Sides, NEW it \in 1 .. Len(b.levels[side]),
         NEW h, IsHead(b, side, it, h), h # kNull, NEW node \in 0 .. Len(b.pool.nodes)
  PROVE  IsRepaired(b, Repaired(b, side, it, node), side, it, h, node)
<1> DEFINE N == Len(b.pool.nodes)
           p == set_next(b.pool, h, node)
           r == set_prev(p, node, h)
           q == IF node = 0 THEN p ELSE r
           total == b.levels[side][it].total_volume
           tail == IF node = 0 THEN h ELSE b.levels[side][it].tail
           c == Updated(b, side, it, q, total, h, tail, b.index)
<1>1. N \in Nat /\ PoolOK(b.pool) /\ IndexOK(b.index, N)
  BY BookFields
<1>2. h \in 1 .. N /\ total \in Int /\ tail \in 0 .. N /\ h \in 0 .. N
  BY <1>1, LevelFields DEF IsHead
<1>3. Repaired(b, side, it, node) = c
  BY DEF Repaired, IsHead
<1>4. PoolOK(p) /\ Len(p.nodes) = N
  BY <1>1, <1>2, SetNextOK
<1>5. \A m \in 1 .. N :
        /\ p.nodes[m].next = IF m = h THEN node ELSE b.pool.nodes[m].next
        /\ p.nodes[m].prev = b.pool.nodes[m].prev
        /\ p.nodes[m].value = b.pool.nodes[m].value
        /\ p.free_list = b.pool.free_list
  BY <1>1, <1>2, SetNextFields
<1>6. p.free_list = b.pool.free_list
  BY <1>2, <1>5
<1> HIDE DEF p
<1>7. node # 0 => PoolOK(r) /\ Len(r.nodes) = N
  BY <1>1, <1>2, <1>4, SetPrevOK
<1>8. node # 0 => \A m \in 1 .. N :
        /\ r.nodes[m].prev = IF m = node THEN h ELSE p.nodes[m].prev
        /\ r.nodes[m].next = p.nodes[m].next
        /\ r.nodes[m].value = p.nodes[m].value
        /\ r.free_list = p.free_list
  <2> SUFFICES ASSUME node # 0, NEW m \in 1 .. N
               PROVE  /\ r.nodes[m].prev = IF m = node THEN h ELSE p.nodes[m].prev
                      /\ r.nodes[m].next = p.nodes[m].next
                      /\ r.nodes[m].value = p.nodes[m].value
                      /\ r.free_list = p.free_list
    BY Zenon
  <2>1. node \in 1 .. Len(p.nodes) /\ m \in 1 .. Len(p.nodes)
    BY <1>1, <1>4
  <2> QED BY <1>4, <2>1, SetPrevFields
<1> HIDE DEF r
<1>9. /\ PoolOK(q) /\ Len(q.nodes) = N /\ q.free_list = b.pool.free_list
      /\ \A m \in 1 .. N :
           /\ q.nodes[m].next = IF m = h THEN node ELSE b.pool.nodes[m].next
           /\ q.nodes[m].prev = IF node # 0 /\ m = node THEN h ELSE b.pool.nodes[m].prev
           /\ q.nodes[m].value = b.pool.nodes[m].value
  BY <1>2, <1>4, <1>5, <1>6, <1>7, <1>8
<1> HIDE DEF q, total, tail
<1>10. UpdateOK(b, side, it, c, h)
  BY <1>1, <1>2, <1>9, BookUpdate
<1>11. Assigned(b, c, side, it, q, total, h, tail, b.index)
  BY <1>2, UpdatedFields
<1> HIDE DEF c
<1>12. IsRepaired(b, c, side, it, h, node)
  BY <1>9, <1>10, <1>11 DEF IsRepaired, UpdateOK, Assigned, tail
<1> QED BY <1>3, <1>12

(* The order after n in its list, and that prev is the inverse of next.     *)
NextPlace(N, nodes, ends, place, key, n) ==
  \/ n = ends[key].tail /\ nodes[n].next = 0
  \/ /\ n # ends[key].tail
     /\ nodes[n].next \in 1 .. N /\ nodes[n].next # 0 /\ nodes[n].next # n
     /\ place[nodes[n].next].key = key
     /\ nodes[nodes[n].next].prev = n

(* A layout links every order to the next one, and that one back.           *)
LEMMA NextPlaceIs ==
  ASSUME NEW N \in Nat, NEW nodes, NEW ends, NEW place, Layout(N, nodes, ends, place),
         NEW key \in Keys, NEW n \in 1 .. N, place[n].key = key
  PROVE  NextPlace(N, nodes, ends, place, key, n)
<1>1. Linked(N, nodes, ends, place) /\ Distinct(N, place)
  BY DEF Layout
<1>2. CASE n = ends[key].tail
  BY <1>1, <1>2 DEF Linked, NextPlace
<1>3. CASE n # ends[key].tail
  <2> DEFINE m == nodes[n].next
  <2>1. /\ m \in 1 .. N /\ place[m].key = key /\ place[m].rank = place[n].rank + 1
        /\ place[n].rank \in Int /\ 1 <= place[n].rank
    BY <1>1, <1>3 DEF Linked
  <2> HIDE DEF m
  <2>2. m # n /\ m # 0 /\ place[m].rank # 1
    BY <2>1
  <2>3. /\ nodes[m].prev \in 1 .. N /\ place[nodes[m].prev].key = key
        /\ place[nodes[m].prev].rank = place[m].rank - 1
    BY <1>1, <2>1, <2>2 DEF Linked
  <2>4. place[nodes[m].prev].rank = place[n].rank
    BY <2>1, <2>3
  <2>5. nodes[m].prev = n
    BY <1>1, <2>3, <2>4 DEF Distinct
  <2> QED BY <1>3, <2>1, <2>2, <2>5 DEF NextPlace, m
<1> QED BY <1>2, <1>3

(* c is the laid-out book b without the order in slot d.                    *)
Removes(b, c, side, it, d) ==
  /\ BookOK(b) /\ BookOK(c) /\ Sorted(b.levels)
  /\ it \in 1 .. Len(b.levels[side]) /\ d \in 1 .. Len(b.pool.nodes)
  /\ RemovedFrom(b, c, side, it, d) /\ Forgotten(b, c, d)
  /\ \E ends, place : Laid(b, ends, place) /\ place[d].key = Key(b, side, it)

(* c is the laid-out book b, but the oldest order of a level has volume w.  *)
Reduces(b, c, side, it, h, w) ==
  /\ BookOK(b) /\ BookOK(c) /\ Sorted(b.levels)
  /\ it \in 1 .. Len(b.levels[side]) /\ IsHead(b, side, it, h)
  /\ Reduced(b, c, side, it, h, w)
  /\ \E ends, place : Laid(b, ends, place)

(* set_level reads the node after the head: nothing is removed yet.         *)
LEMMA CollapseStarts ==
  ASSUME NEW b, BookOK(b), Sorted(b.levels), Good(b),
         NEW side \in Sides, NEW it \in 1 .. Len(b.levels[side]),
         NEW h, IsHead(b, side, it, h), h # kNull,
         NEW node, node = b.pool.nodes[h].next
  PROVE  /\ GoodBut(Repaired(b, side, it, node), side, it)
         /\ Reduces(b, Repaired(b, side, it, node), side, it, h, b.pool.nodes[h].value.volume)
<1> DEFINE c == Repaired(b, side, it, node)
           N == Len(b.pool.nodes)
           vol == b.pool.nodes[h].value.volume
<1>1. PICK ends, place : Holds(b, ends, place) /\ Totals(b.levels, ends, place)
  BY DEF Good
<1>2. Laid(b, ends, place)
  BY <1>1 DEF Holds
<1>3. /\ h \in 1 .. N /\ place[h].key = Key(b, side, it) /\ Key(b, side, it) \in Keys
      /\ h = ends[Key(b, side, it)].head
      /\ ends[Key(b, side, it)].tail = b.levels[side][it].tail
      /\ vol \in Int /\ vol > 0 /\ place[h].rank = 1
  BY <1>2, HeadPlace
<1>4. N \in Nat /\ LevelsOK(b.levels, N) /\ node \in 0 .. N
  BY <1>3, BookFields
<1>5. IsRepaired(b, c, side, it, h, node)
  BY <1>4, RepairedFacts
<1> HIDE DEF c
<1>6. /\ node = 0 => b.levels[side][it].tail = h
      /\ node # 0 => b.pool.nodes[node].prev = h
  <2> DEFINE key == Key(b, side, it)
  <2>1. Layout(N, b.pool.nodes, ends, place)
    BY <1>2 DEF Laid
  <2>2. key \in Keys /\ h \in 1 .. N /\ place[h].key = key /\ N \in Nat
    BY <1>3, <1>4
  <2> HIDE DEF key
  <2>3. NextPlace(N, b.pool.nodes, ends, place, key, h)
    BY <2>1, <2>2, NextPlaceIs
  <2> QED BY <1>3, <2>3 DEF NextPlace, key
<1>7. Reduced(b, c, side, it, h, vol)
  <2>1. \A m \in 1 .. N : /\ c.pool.nodes[m].next = b.pool.nodes[m].next
                          /\ c.pool.nodes[m].prev = b.pool.nodes[m].prev
                          /\ c.pool.nodes[m].value = b.pool.nodes[m].value
    BY <1>5, <1>6 DEF IsRepaired
  <2>2. Revalued(N, b.pool.nodes, c.pool.nodes, h, vol)
    BY <1>3, <2>1 DEF Revalued
  <2>3. c.levels[side][it].tail = b.levels[side][it].tail
    BY <1>5, <1>6 DEF IsRepaired
  <2> QED BY <1>3, <1>5, <2>1, <2>2, <2>3 DEF Reduced, IsRepaired, IsHead
<1> DEFINE delta == vol - b.pool.nodes[h].value.volume
           v == Shifted(N, place, h, delta)
<1>8. /\ Laid(c, ends, v)
      /\ SumMoves(ends, place, ends, v, Key(b, side, it), delta)
      /\ delta \in Int
      /\ Complete(N, b.pool.nodes, b.index, place) => Complete(N, c.pool.nodes, c.index, v)
  <2> HIDE DEF vol
  <2> QED BY <1>2, <1>3, <1>7, ReduceLaid
<1>9. SamePrices(b.levels, c.levels, side, it) /\ Len(c.pool.nodes) = N
  BY <1>7 DEF Reduced
<1>10. TotalsBut(b.levels, ends, place, side, it)
  BY <1>1 DEF Totals, TotalsBut
<1> HIDE DEF v, N, delta
<1>11. TotalsBut(c.levels, ends, v, side, it)
  BY <1>4, <1>8, <1>9, <1>10, TotalsUpdate DEF Key
<1>12. Holds(c, ends, v)
  BY <1>1, <1>8, <1>9 DEF Holds, N
<1>13. Reduces(b, c, side, it, h, vol)
  <2> HIDE DEF vol
  <2> QED BY <1>2, <1>5, <1>7 DEF Reduces, IsRepaired
<1> QED BY <1>11, <1>12, <1>13 DEF GoodBut, c

(* Two updates of the same level of a book differ in that level alone.      *)
LEMMA SamePricesBeside ==
  ASSUME NEW l, NEW m, NEW o, NEW side, NEW it,
         SamePrices(l, m, side, it), SamePrices(l, o, side, it)
  PROVE  SamePrices(m, o, side, it)
BY DEF SamePrices

(* Freeing the next node of a level that is being collapsed removes it from *)
(* the repaired book.  A book that set_level maintains has no index.        *)
LEMMA CollapseContinues ==
  ASSUME NEW b, BookOK(b), Sorted(b.levels), DOMAIN b.index = {},
         NEW side \in Sides, NEW it \in 1 .. Len(b.levels[side]),
         NEW h, IsHead(b, side, it, h), h # kNull,
         NEW node \in 1 .. Len(b.pool.nodes), node # kNull,
         GoodBut(Repaired(b, side, it, node), side, it),
         NEW a, a = [pool |-> deallocate(b.pool, node), levels |-> b.levels, index |-> b.index],
         NEW next, next = b.pool.nodes[node].next
  PROVE  /\ GoodBut(Repaired(a, side, it, next), side, it)
         /\ Removes(Repaired(b, side, it, node), Repaired(a, side, it, next), side, it, node)
<1> DEFINE r == Repaired(b, side, it, node)
           c == Repaired(a, side, it, next)
           N == Len(b.pool.nodes)
<1>1. /\ N \in Nat /\ PoolOK(b.pool) /\ LevelsOK(b.levels, N) /\ IndexOK(b.index, N)
      /\ next \in 0 .. N
  BY BookFields
<1>2. /\ BookOK(a) /\ IsHead(a, side, it, h) /\ Len(a.pool.nodes) = N
      /\ a.pool.nodes = b.pool.nodes /\ a.levels = b.levels /\ a.index = b.index
      /\ a.pool.free_list = Append(b.pool.free_list, node)
  <2>1. PoolOK(deallocate(b.pool, node)) /\ Len(deallocate(b.pool, node).nodes) = N
    BY <1>1, DeallocateOK
  <2>2. a.pool = deallocate(b.pool, node) /\ a.levels = b.levels /\ a.index = b.index
    OBVIOUS
  <2>3. BookOK(a)
    BY <1>1, <2>1, <2>2, BookParts
  <2> QED BY <2>1, <2>2, <2>3 DEF IsHead, deallocate
<1>3. IsRepaired(b, r, side, it, h, node)
  BY <1>1, RepairedFacts
<1>4. IsRepaired(a, c, side, it, h, next)
  BY <1>1, <1>2, RepairedFacts
<1> HIDE DEF r, c
<1>5. PICK ends, place : Holds(r, ends, place) /\ TotalsBut(r.levels, ends, place, side, it)
  BY DEF GoodBut, r
<1>6. Laid(r, ends, place)
  BY <1>5 DEF Holds
<1>7. /\ BookOK(r) /\ Len(r.pool.nodes) = N /\ IsHead(r, side, it, h)
      /\ SamePrices(b.levels, r.levels, side, it) /\ Sorted(r.levels)
      /\ it \in 1 .. Len(r.levels[side]) /\ LevelsOK(r.levels, N)
  <2>1. /\ BookOK(r) /\ Len(r.pool.nodes) = N
        /\ SamePrices(b.levels, r.levels, side, it) /\ r.levels[side][it].head = h
    BY <1>3 DEF IsRepaired
  <2>2. LevelsOK(r.levels, N)
    BY <2>1, BookFields
  <2>3. Sorted(r.levels)
    BY <1>1, <2>1, <2>2, SamePricesKeep
  <2> QED BY <2>1, <2>2, <2>3 DEF IsHead, SamePrices
<1> DEFINE key == Key(r, side, it)
<1>8. /\ h \in 1 .. N /\ place[h].key = key /\ key \in Keys
      /\ ends[key].tail = r.levels[side][it].tail
      /\ h = ends[key].head
  BY <1>6, <1>7, HeadPlace
<1>9. /\ place[node].key = key /\ node # h
      /\ r.pool.nodes[node].prev = h /\ r.pool.nodes[node].next = next
      /\ r.pool.nodes[node].value.volume \in Int
  <2> HIDE DEF key
  <2>1. Layout(N, r.pool.nodes, ends, place)
    BY <1>6, <1>7 DEF Laid
  <2>2. NextPlace(N, r.pool.nodes, ends, place, key, h)
    BY <1>1, <1>8, <2>1, NextPlaceIs
  <2>3. r.pool.nodes[h].next = node
    BY <1>3, <1>8 DEF IsRepaired
  <2>4. place[node].key = key /\ node # h /\ r.pool.nodes[node].prev = h
    BY <2>2, <2>3 DEF NextPlace
  <2>5. r.pool.nodes[node].next = next
    BY <1>3, <2>4 DEF IsRepaired
  <2>6. r.pool.nodes[node].value.volume \in Int
    BY <1>8, <2>1, <2>4 DEF Layout, Summed
  <2> QED BY <2>4, <2>5, <2>6
<1>10. RemovedFrom(r, c, side, it, node)
  <2>1. SplicedNodes(N, r.pool.nodes, c.pool.nodes, node)
    <3> SUFFICES ASSUME NEW m \in 1 .. N, m # node
                 PROVE  /\ c.pool.nodes[m].next = IF m = h THEN next ELSE r.pool.nodes[m].next
                        /\ c.pool.nodes[m].prev = IF m = next THEN h ELSE r.pool.nodes[m].prev
                        /\ c.pool.nodes[m].value = r.pool.nodes[m].value
      BY <1>9 DEF SplicedNodes
    <3>1. /\ c.pool.nodes[m].next = IF m = h THEN next ELSE b.pool.nodes[m].next
          /\ c.pool.nodes[m].prev = IF next # 0 /\ m = next THEN h ELSE b.pool.nodes[m].prev
          /\ c.pool.nodes[m].value = b.pool.nodes[m].value
      BY <1>2, <1>4 DEF IsRepaired
    <3>2. /\ r.pool.nodes[m].next = IF m = h THEN node ELSE b.pool.nodes[m].next
          /\ r.pool.nodes[m].prev = b.pool.nodes[m].prev
          /\ r.pool.nodes[m].value = b.pool.nodes[m].value
      BY <1>3 DEF IsRepaired
    <3>3. m # 0
      BY <1>1
    <3> QED BY <3>1, <3>2, <3>3
  <2>2. /\ Len(c.pool.nodes) = N /\ c.pool.free_list = Append(r.pool.free_list, node)
    BY <1>2, <1>3, <1>4 DEF IsRepaired
  <2>3. SamePrices(r.levels, c.levels, side, it)
    <3>1. SamePrices(b.levels, r.levels, side, it) /\ SamePrices(b.levels, c.levels, side, it)
      BY <1>2, <1>3, <1>4 DEF IsRepaired
    <3> QED BY <3>1, SamePricesBeside
  <2>4. /\ c.levels[side][it].head = h /\ r.levels[side][it].head = h
        /\ c.levels[side][it].tail = IF next = 0 THEN h ELSE b.levels[side][it].tail
        /\ r.levels[side][it].tail = b.levels[side][it].tail
    BY <1>2, <1>3, <1>4 DEF IsRepaired
  <2> QED BY <1>7, <1>9, <2>1, <2>2, <2>3, <2>4 DEF RemovedFrom
<1>11. Forgotten(r, c, node)
  BY <1>2, <1>3, <1>4 DEF Forgotten, IsRepaired
<1> DEFINE v == Vacated(N, r.pool.nodes, place, node)
           e == EndsWith(ends, key, c.levels[side][it].head, c.levels[side][it].tail)
           delta == 0 - r.pool.nodes[node].value.volume
<1>12. /\ Laid(c, e, v)
       /\ SumMoves(ends, place, e, v, key, delta)
       /\ Complete(N, r.pool.nodes, r.index, place) => Complete(N, c.pool.nodes, c.index, v)
  BY <1>6, <1>7, <1>9, <1>10, <1>11, RemoveLaid
<1>13. SamePrices(r.levels, c.levels, side, it) /\ Len(c.pool.nodes) = N
  BY <1>7, <1>10 DEF RemovedFrom
<1>14. delta \in Int
  BY <1>9
<1> HIDE DEF v, e, N, delta
<1>15. TotalsBut(c.levels, e, v, side, it)
  BY <1>5, <1>7, <1>12, <1>13, <1>14, TotalsUpdate DEF Key
<1>16. Holds(c, e, v)
  BY <1>5, <1>7, <1>12, <1>13 DEF Holds
<1>17. Removes(r, c, side, it, node)
  <2>1. BookOK(c)
    BY <1>4 DEF IsRepaired
  <2>2. node \in 1 .. Len(r.pool.nodes)
    BY <1>7 DEF N
  <2> HIDE DEF key
  <2>3. \E m, v2 : Laid(r, m, v2) /\ v2[node].key = Key(r, side, it)
    BY <1>6, <1>9 DEF key
  <2> QED BY <1>7, <1>10, <1>11, <2>1, <2>2, <2>3 DEF Removes
<1> QED BY <1>15, <1>16, <1>17 DEF GoodBut, c, r

(* A level with one order, in slot h, which has all of its volume.          *)
Collapsed(b, side, it, h, volume) ==
  Updated(b, side, it,
          set_value(set_next(b.pool, h, 0), h,
                    [id |-> b.pool.nodes[h].value.id, volume |-> volume]),
          volume, h, h, b.index)

(* The head that is left of a collapsed level takes its whole volume.       *)
LEMMA CollapseEnds ==
  ASSUME NEW b, BookOK(b), Sorted(b.levels),
         NEW side \in Sides, NEW it \in 1 .. Len(b.levels[side]),
         NEW h, IsHead(b, side, it, h), h # kNull,
         GoodBut(Repaired(b, side, it, 0), side, it),
         NEW volume \in Int, volume > 0
  PROVE  /\ Good(Collapsed(b, side, it, h, volume))
         /\ Reduces(Repaired(b, side, it, 0), Collapsed(b, side, it, h, volume),
                    side, it, h, volume)
<1> DEFINE r == Repaired(b, side, it, 0)
           c == Collapsed(b, side, it, h, volume)
           N == Len(b.pool.nodes)
           w == [id |-> b.pool.nodes[h].value.id, volume |-> volume]
           p == set_next(b.pool, h, 0)
           q == set_value(p, h, w)
<1>1. /\ N \in Nat /\ PoolOK(b.pool) /\ LevelsOK(b.levels, N) /\ IndexOK(b.index, N)
      /\ 0 \in 0 .. N
  BY BookFields
<1>2. h \in 1 .. N /\ h \in 0 .. N
  <2>1. h \in 0 .. N
    BY LevelFields DEF IsHead
  <2> QED BY <1>1, <2>1
<1>3. IsRepaired(b, r, side, it, h, 0)
  BY <1>1, RepairedFacts
<1> HIDE DEF r
<1>4a. c = Updated(b, side, it, q, volume, h, h, b.index)
  BY DEF Collapsed
<1> HIDE DEF c, q
<1>4. Assigned(b, c, side, it, q, volume, h, h, b.index)
  BY <1>2, <1>4a, UpdatedFields
<1> USE DEF q
<1>5. /\ Len(q.nodes) = N /\ q.free_list = b.pool.free_list
      /\ \A m \in 1 .. N :
           /\ q.nodes[m].next = IF m = h THEN 0 ELSE b.pool.nodes[m].next
           /\ q.nodes[m].prev = b.pool.nodes[m].prev
           /\ q.nodes[m].value = IF m = h THEN w ELSE b.pool.nodes[m].value
  <2>1. PoolOK(p) /\ Len(p.nodes) = N
    BY <1>1, <1>2, SetNextOK
  <2>2. b.pool.nodes[h].value \in RestingOrder
    BY <1>2, BookFields
  <2>3. w \in RestingOrder
    BY <2>2 DEF RestingOrder
  <2>4. \A m \in 1 .. N :
          /\ p.nodes[m].next = IF m = h THEN 0 ELSE b.pool.nodes[m].next
          /\ p.nodes[m].prev = b.pool.nodes[m].prev
          /\ p.nodes[m].value = b.pool.nodes[m].value
          /\ p.free_list = b.pool.free_list
    BY <1>1, <1>2, SetNextFields
  <2> HIDE DEF p, w
  <2>5. Len(q.nodes) = N
    BY <1>2, <2>1, <2>3, SetValueOK
  <2>6. \A m \in 1 .. N :
          /\ q.nodes[m].value = IF m = h THEN w ELSE p.nodes[m].value
          /\ q.nodes[m].next = p.nodes[m].next
          /\ q.nodes[m].prev = p.nodes[m].prev
          /\ q.free_list = p.free_list
    BY <1>2, <2>1, SetValueFields
  <2> HIDE DEF q
  <2> QED BY <1>2, <2>4, <2>5, <2>6
<1> HIDE DEF q
<1>6. /\ BookOK(r) /\ Len(r.pool.nodes) = N /\ IsHead(r, side, it, h)
      /\ SamePrices(b.levels, r.levels, side, it) /\ Sorted(r.levels)
      /\ it \in 1 .. Len(r.levels[side]) /\ LevelsOK(r.levels, N)
  <2>1. /\ BookOK(r) /\ Len(r.pool.nodes) = N
        /\ SamePrices(b.levels, r.levels, side, it) /\ r.levels[side][it].head = h
    BY <1>3 DEF IsRepaired
  <2>2. LevelsOK(r.levels, N)
    BY <2>1, BookFields
  <2>3. Sorted(r.levels)
    BY <1>1, <2>1, <2>2, SamePricesKeep
  <2> QED BY <2>1, <2>2, <2>3 DEF IsHead, SamePrices
<1>7. Reduced(r, c, side, it, h, volume)
  <2>1. ASSUME NEW m \in 1 .. N
        PROVE  /\ c.pool.nodes[m].next = r.pool.nodes[m].next
               /\ c.pool.nodes[m].prev = r.pool.nodes[m].prev
               /\ m # h => c.pool.nodes[m].value = r.pool.nodes[m].value
    <3>1. c.pool = q
      BY <1>4 DEF Assigned
    <3>2. /\ r.pool.nodes[m].next = IF m = h THEN 0 ELSE b.pool.nodes[m].next
          /\ r.pool.nodes[m].prev = b.pool.nodes[m].prev
          /\ r.pool.nodes[m].value = b.pool.nodes[m].value
      BY <1>3 DEF IsRepaired
    <3> HIDE DEF w
    <3> QED BY <1>5, <3>1, <3>2
  <2>2. c.pool.nodes[h].value = w /\ r.pool.nodes[h].value = b.pool.nodes[h].value
    BY <1>2, <1>3, <1>4, <1>5 DEF IsRepaired, Assigned
  <2>3. Revalued(N, r.pool.nodes, c.pool.nodes, h, volume)
    <3>1. c.pool.nodes[h].value.volume = volume
      BY <2>2
    <3> HIDE DEF w
    <3> QED BY <2>1, <3>1 DEF Revalued
  <2>4. c.pool.nodes[h].value.id = r.pool.nodes[h].value.id
    BY <2>2
  <2>5. SamePrices(r.levels, c.levels, side, it)
    <3>1. SamePrices(b.levels, r.levels, side, it) /\ SamePrices(b.levels, c.levels, side, it)
      BY <1>3, <1>4 DEF IsRepaired, Assigned
    <3> QED BY <3>1, SamePricesBeside
  <2>6. /\ Len(c.pool.nodes) = N /\ c.pool.free_list = r.pool.free_list /\ c.index = r.index
        /\ c.levels[side][it].head = r.levels[side][it].head
        /\ c.levels[side][it].tail = r.levels[side][it].tail
    BY <1>3, <1>4, <1>5 DEF IsRepaired, Assigned
  <2> QED BY <1>6, <2>3, <2>4, <2>5, <2>6 DEF Reduced
<1>8. PICK ends, place : Holds(r, ends, place) /\ TotalsBut(r.levels, ends, place, side, it)
  BY DEF GoodBut, r
<1> DEFINE delta == volume - r.pool.nodes[h].value.volume
           v == Shifted(N, place, h, delta)
<1>9. /\ Laid(c, ends, v)
      /\ SumMoves(ends, place, ends, v, Key(r, side, it), delta)
      /\ delta \in Int
      /\ Complete(N, r.pool.nodes, r.index, place) => Complete(N, c.pool.nodes, c.index, v)
  BY <1>6, <1>7, <1>8, ReduceLaid DEF Holds
<1>10. SamePrices(r.levels, c.levels, side, it) /\ Len(c.pool.nodes) = N
  BY <1>6, <1>7 DEF Reduced
<1> HIDE DEF v, delta, N
<1>11. TotalsBut(c.levels, ends, v, side, it)
  BY <1>6, <1>8, <1>9, <1>10, TotalsUpdate DEF Key
<1>12. Holds(c, ends, v)
  BY <1>6, <1>8, <1>9, <1>10 DEF Holds
<1>13. /\ BookOK(c) /\ it \in 1 .. Len(c.levels[side]) /\ IsHead(c, side, it, h)
       /\ c.levels[side][it].tail = h /\ c.levels[side][it].total_volume = volume
       /\ c.pool.nodes[h].value.volume = volume
  <2>1. PoolOK(q)
    <3>1. PoolOK(p) /\ Len(p.nodes) = N
      BY <1>1, <1>2, SetNextOK DEF N
    <3>2. b.pool.nodes[h].value \in RestingOrder
      BY <1>2, BookFields DEF N
    <3>3. w \in RestingOrder
      BY <3>2 DEF RestingOrder
    <3> HIDE DEF p, w
    <3> QED BY <1>2, <3>1, <3>3, SetValueOK DEF q
  <2>2. UpdateOK(b, side, it, c, h)
    <3> HIDE DEF w, p
    <3> QED BY <1>1, <1>2, <1>4a, <1>5, <2>1, BookUpdate DEF N
  <2>3. it \in 1 .. Len(c.levels[side])
    BY <2>2 DEF UpdateOK, SamePrices
  <2>4. c.pool.nodes[h].value = w
    <3> HIDE DEF w, p
    <3> QED BY <1>2, <1>4, <1>5 DEF Assigned
  <2>5. c.pool.nodes[h].value.volume = volume
    BY <2>4
  <2> QED BY <1>4, <2>2, <2>3, <2>5 DEF UpdateOK, Assigned, IsHead
<1>14. c.levels[side][it].total_volume = TailSum(ends, v, <<side, c.levels[side][it].price>>)
  <2>1. /\ h = ends[Key(c, side, it)].head /\ ends[Key(c, side, it)].tail = h
        /\ v[h].sum = volume
    BY <1>9, <1>13, HeadPlace
  <2> QED BY <1>13, <2>1 DEF TailSum, Key
<1>15. Totals(c.levels, ends, v)
  BY <1>11, <1>14 DEF Totals, TotalsBut
<1>16. Reduces(r, c, side, it, h, volume)
  BY <1>6, <1>7, <1>8, <1>13 DEF Reduces, Holds
<1> QED BY <1>12, <1>15, <1>16 DEF Good, c, r
=============================================================================
