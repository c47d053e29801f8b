-------------------------- MODULE MarketDataProofs --------------------------
(***************************************************************************)
(* What reaches the books, for every market, every pool and any number of  *)
(* updates and passes: what is replayed is a gapless part of the feed      *)
(* (FeedContiguous), a pass over it leaves the book where the pass before  *)
(* left it (SteadyState), the book that was replayed shows the market of a *)
(* moment (Reconstructs), and so does the one that snapshot_tool loads     *)
(* (ShowsLiveBook).                                                        *)
(*                                                                         *)
(* In order: what the exchange writes is what the parser reads; the        *)
(* capture and its file (CaptureInv); what the replay has read of it       *)
(* (ReplayInv); what the updates make of sizes, whoever sets them; what a  *)
(* book shows and how add_order and set_level change it; the passes        *)
(* (PassInv); a snapshot that the capture catches up with; the loading of  *)
(* a book from a response (ToolInv).                                       *)
(***************************************************************************)
EXTENDS MarketData, OrderBookProofs, FiniteSetTheorems

-----------------------------------------------------------------------------
(* Documents: what the exchange writes is what the parser reads             *)

Entry == [price : Prices, volume : Volumes]
Change == [Sides -> Seq(Entry)]

LevelText(l) == Array(<<String(<<l.price>>), String(<<l.volume>>)>>)

(* The two fields of a level are read back.                                 *)
LEMMA LevelReads ==
  ASSUME NEW l \in Entry, NEW text, text = LevelText(l)
  PROVE  /\ IsLevel(text)
         /\ [price |-> ToPrice(text.items[1].items[1]),
             volume |-> text.items[2].items[1]] = l
<1>1. PICK fields : fields = <<String(<<l.price>>), String(<<l.volume>>)>>
  OBVIOUS
<1>2. /\ Len(fields) = 2
      /\ fields[1] = String(<<l.price>>)
      /\ fields[2] = String(<<l.volume>>)
  BY <1>1
<1>3. /\ fields[1].kind = "string" /\ fields[1].items = <<l.price>>
      /\ fields[2].kind = "string" /\ fields[2].items = <<l.volume>>
  BY <1>2 DEF String
<1>4. text.kind = "array" /\ text.items = fields
  BY <1>1 DEF LevelText, Array
<1>5. fields[1].items # <<>> /\ fields[2].items # <<>>
  BY <1>3
<1>6. IsLevel(text)
  BY <1>2, <1>3, <1>4, <1>5 DEF IsLevel
<1>7. /\ l.price \in 0 .. PriceSpan - 1
      /\ l = [price |-> l.price, volume |-> l.volume]
  BY MarketAssumption DEF Entry
<1>8. ToPrice(l.price) = l.price
  BY <1>7, SpanAssumption DEF ToPrice
<1>9. fields[1].items[1] = l.price /\ fields[2].items[1] = l.volume
  BY <1>3
<1> QED BY <1>4, <1>6, <1>7, <1>8, <1>9

(* An array of levels is parsed into the levels it was made of.             *)
LEMMA LevelsParse ==
  ASSUME NEW levels \in Seq(Entry)
  PROVE  parse_levels(Encoded(levels)) = Ok(levels)
<1>1. PICK items : items = [k \in DOMAIN levels |-> LevelText(levels[k])]
  OBVIOUS
<1>2. Encoded(levels) = [kind |-> "array", items |-> items]
  BY <1>1 DEF Encoded, Array, LevelText
<1>3. /\ DOMAIN items = 1 .. Len(levels)
      /\ DOMAIN levels = 1 .. Len(levels)
      /\ \A k \in 1 .. Len(levels) : items[k] = LevelText(levels[k]) /\ levels[k] \in Entry
  BY <1>1
<1>4. \A k \in 1 .. Len(levels) :
        /\ IsLevel(items[k])
        /\ [price |-> ToPrice(items[k].items[1].items[1]),
            volume |-> items[k].items[2].items[1]] = levels[k]
  BY <1>3, LevelReads
<1>5. parse_levels(Encoded(levels)) =
        Ok([k \in DOMAIN items |-> [price |-> ToPrice(items[k].items[1].items[1]),
                                    volume |-> items[k].items[2].items[1]]])
  <2>1. \A k \in DOMAIN items : IsLevel(items[k])
    BY <1>3, <1>4
  <2> QED BY <1>2, <2>1 DEF parse_levels
<1>6. levels = [k \in 1 .. Len(levels) |-> levels[k]]
  BY <1>3
<1>7. [k \in DOMAIN items |-> [price |-> ToPrice(items[k].items[1].items[1]),
                                volume |-> items[k].items[2].items[1]]]
      = [k \in 1 .. Len(levels) |-> levels[k]]
  BY <1>3, <1>4, Zenon
<1> QED BY <1>5, <1>6, <1>7

(* So is a document that holds a change or a snapshot.                      *)
LEMMA DocumentParses ==
  ASSUME NEW c \in Change, NEW id, NEW doc,
         doc = [kind |-> "object", id |-> Number(id),
                bids |-> Encoded(c["BID"]), asks |-> Encoded(c["ASK"])]
  PROVE  /\ parse_binance_depth(doc) = Ok([lastUpdateId |-> id, levels |-> c])
         /\ parse_binance_depth_update(doc) = Ok([finalUpdateId |-> id, levels |-> c])
<1>1. c["BID"] \in Seq(Entry) /\ c["ASK"] \in Seq(Entry)
  BY DEF Change, Sides
<1>2. /\ parse_levels(doc.bids) = Ok(c["BID"])
      /\ parse_levels(doc.asks) = Ok(c["ASK"])
  <2>1. doc.bids = Encoded(c["BID"]) /\ doc.asks = Encoded(c["ASK"])
    OBVIOUS
  <2>2. /\ parse_levels(Encoded(c["BID"])) = Ok(c["BID"])
        /\ parse_levels(Encoded(c["ASK"])) = Ok(c["ASK"])
    BY <1>1, LevelsParse
  <2> QED BY <2>1, <2>2
<1>3. c = [BID |-> c["BID"], ASK |-> c["ASK"]]
  BY DEF Change, Sides
<1>4. parse_sides(doc) = Ok(c)
  <2>1. /\ parse_levels(doc.bids).ok /\ parse_levels(doc.asks).ok
        /\ parse_levels(doc.bids).value = c["BID"]
        /\ parse_levels(doc.asks).value = c["ASK"]
    BY <1>2 DEF Ok
  <2>2. parse_sides(doc) = Ok([BID |-> parse_levels(doc.bids).value,
                               ASK |-> parse_levels(doc.asks).value])
    BY <2>1, Zenon DEF parse_sides
  <2> QED BY <1>3, <2>1, <2>2
<1>5. IdOrZero(doc.id) = id
  BY DEF IdOrZero, Number
<1>6. doc.kind = "object"
  OBVIOUS
<1>7. parse_sides(doc).ok /\ parse_sides(doc).value = c
  BY <1>4 DEF Ok
<1> QED BY <1>5, <1>6, <1>7 DEF parse_binance_depth, parse_binance_depth_update

-----------------------------------------------------------------------------
(* The exchange's ladders                                                   *)

DescendingLadder(f, n, S) ==
  f \in [1 .. n -> S] /\ \A i, j \in 1 .. n : i < j => f[i] > f[j]

(* A finite set of prices can be listed in descending order: its least      *)
(* element last.                                                            *)
LEMMA DescendingExists ==
  \A n \in Nat : \A S \in SUBSET Nat :
    IsFiniteSet(S) /\ Cardinality(S) = n => \E f : DescendingLadder(f, n, S)
<1> DEFINE T == {n \in Nat : \A S \in SUBSET Nat :
                   IsFiniteSet(S) /\ Cardinality(S) = n
                     => \E f : DescendingLadder(f, n, S)}
<1>1. 0 \in T
  <2> SUFFICES ASSUME NEW S \in SUBSET Nat
               PROVE  \E f : DescendingLadder(f, 0, S)
    OBVIOUS
  <2>1. DescendingLadder([i \in 1 .. 0 |-> 0], 0, S)
    BY DEF DescendingLadder
  <2> QED BY <2>1
<1>2. ASSUME NEW n \in T PROVE n + 1 \in T
  <2>1. n \in Nat
    OBVIOUS
  <2> SUFFICES ASSUME NEW S \in SUBSET Nat, IsFiniteSet(S), Cardinality(S) = n + 1
               PROVE  \E f : DescendingLadder(f, n + 1, S)
    BY <2>1
  <2>2. S # {}
    BY <2>1, FS_EmptySet
  <2>3. PICK m \in S : \A y \in S : m <= y
    BY <2>2, LeastNatural
  <2>4. IsFiniteSet(S \ {m}) /\ Cardinality(S \ {m}) = n
    BY <2>1, FS_RemoveElement
  <2>5. PICK f : DescendingLadder(f, n, S \ {m})
    BY <2>4
  <2>6. PICK g : g = [i \in 1 .. n + 1 |-> IF i <= n THEN f[i] ELSE m]
    OBVIOUS
  <2>7. ASSUME NEW i \in 1 .. n + 1
        PROVE  /\ i <= n => i \in 1 .. n /\ g[i] = f[i] /\ g[i] \in S /\ g[i] > m
               /\ ~(i <= n) => i = n + 1 /\ g[i] = m
    <3>1. i <= n => i \in 1 .. n /\ g[i] = f[i]
      BY <2>1, <2>6
    <3>2. i <= n => f[i] \in S \ {m}
      BY <3>1, <2>5 DEF DescendingLadder
    <3>3. i <= n => f[i] > m
      <4> SUFFICES ASSUME i <= n PROVE f[i] > m
        OBVIOUS
      <4>1. f[i] \in S /\ f[i] # m
        BY <3>2
      <4>2. m <= f[i]
        BY <2>3, <4>1
      <4>3. \A y \in S : y \in Nat
        OBVIOUS
      <4>4. f[i] \in Nat /\ m \in Nat
        BY <4>1, <4>3
      <4> QED BY <4>1, <4>2, <4>4
    <3> QED BY <2>1, <2>6, <3>1, <3>2, <3>3
  <2>8. g \in [1 .. n + 1 -> S]
    BY <2>6, <2>7
  <2>9. ASSUME NEW i \in 1 .. n + 1, NEW j \in 1 .. n + 1, i < j
        PROVE  g[i] > g[j]
    <3>1. i <= n
      BY <2>1, <2>9
    <3>2. CASE j <= n
      BY <2>5, <2>7, <2>9, <3>1, <3>2 DEF DescendingLadder
    <3>3. CASE ~(j <= n)
      BY <2>7, <3>1, <3>3
    <3> QED BY <3>2, <3>3
  <2>10. DescendingLadder(g, n + 1, S)
    BY <2>8, <2>9 DEF DescendingLadder
  <2> QED BY <2>10
<1>3. T \in SUBSET Nat
  OBVIOUS
<1> HIDE DEF T
<1>4. T = Nat
  BY <1>1, <1>2, <1>3, NatSetInduction
<1> QED BY <1>4 DEF T

IsLadder(f, side, S) ==
  /\ f \in [1 .. Cardinality(S) -> S]
  /\ \A i, j \in DOMAIN f : i < j => Better(side, f[i], f[j])

(* So it can be listed best first on either side.                           *)
LEMMA LadderExists ==
  ASSUME NEW S \in SUBSET Nat, IsFiniteSet(S), NEW side \in Sides
  PROVE  \E f : IsLadder(f, side, S)
<1>1. PICK n : n = Cardinality(S)
  OBVIOUS
<1>2. n \in Nat
  BY <1>1, FS_CardinalityType
<1>3. PICK f : DescendingLadder(f, n, S)
  BY <1>1, <1>2, DescendingExists
<1>4. f \in [1 .. n -> S] /\ DOMAIN f = 1 .. n
  BY <1>3 DEF DescendingLadder
<1>5. CASE side = "BID"
  <2>1. IsLadder(f, side, S)
    BY <1>1, <1>3, <1>4, <1>5 DEF IsLadder, DescendingLadder, Better
  <2> QED BY <2>1
<1>6. CASE side # "BID"
  <2>1. PICK g : g = [i \in 1 .. n |-> f[n + 1 - i]]
    OBVIOUS
  <2>2. ASSUME NEW i \in 1 .. n
        PROVE  n + 1 - i \in 1 .. n /\ g[i] = f[n + 1 - i] /\ g[i] \in S
    BY <1>2, <1>4, <2>1
  <2>3. g \in [1 .. n -> S] /\ DOMAIN g = 1 .. n
    BY <2>1, <2>2
  <2>4. ASSUME NEW i \in 1 .. n, NEW j \in 1 .. n, i < j
        PROVE  g[i] < g[j]
    <3>1. n + 1 - j < n + 1 - i
      BY <1>2, <2>4
    <3>2. f[n + 1 - j] > f[n + 1 - i]
      BY <1>3, <2>2, <3>1 DEF DescendingLadder
    <3>3. g[i] \in Nat /\ g[j] \in Nat
      BY <2>2
    <3> QED BY <2>2, <3>2, <3>3
  <2>5. IsLadder(g, side, S)
    BY <1>1, <1>6, <2>3, <2>4 DEF IsLadder, Better
  <2> QED BY <2>5
<1> QED BY <1>5, <1>6

Present(size) == {p \in Prices : size[p] > 0}

(* There are finitely many prices, and their values are naturals.           *)
LEMMA PricesFinite ==
  ASSUME NEW size
  PROVE  /\ IsFiniteSet(Prices)
         /\ Present(size) \in SUBSET Nat
         /\ IsFiniteSet(Present(size))
<1>1. Prices \subseteq 0 .. PriceSpan - 1 /\ PriceSpan \in Nat
  BY MarketAssumption, SpanAssumption
<1>2. IsFiniteSet(0 .. PriceSpan - 1)
  BY <1>1, FS_Interval
<1>3. IsFiniteSet(Prices)
  BY <1>1, <1>2, FS_Subset
<1>4. Present(size) \in SUBSET Prices
  BY DEF Present
<1>5. IsFiniteSet(Present(size))
  BY <1>3, <1>4, FS_Subset
<1>6. Present(size) \in SUBSET Nat
  <2>1. \A p \in Present(size) : p \in Prices
    BY <1>4
  <2> QED BY <2>1, BookAssumption
<1> QED BY <1>3, <1>5, <1>6

(* The ladder of a side lists every price that has a size, once.            *)
LEMMA LadderListsAll ==
  ASSUME NEW side \in Sides, NEW size, NEW f, f = Ladder(side, size)
  PROVE  /\ DOMAIN f = 1 .. Cardinality(Present(size))
         /\ Cardinality(Present(size)) \in Nat
         /\ \A i \in DOMAIN f : f[i] \in Present(size)
         /\ \A i, j \in DOMAIN f : f[i] = f[j] => i = j
         /\ \A p \in Present(size) : \E i \in DOMAIN f : f[i] = p
<1>1. PICK S : S = Present(size)
  OBVIOUS
<1>2. S \in SUBSET Nat /\ IsFiniteSet(S)
  BY <1>1, PricesFinite
<1>3. \E g : IsLadder(g, side, S)
  BY <1>2, LadderExists
<1>4. IsLadder(f, side, S)
  <2>1. f = CHOOSE g \in [1 .. Cardinality(S) -> S] :
               \A i, j \in DOMAIN g : i < j => Better(side, g[i], g[j])
    BY <1>1 DEF Ladder, Present
  <2>2. \E g \in [1 .. Cardinality(S) -> S] :
          \A i, j \in DOMAIN g : i < j => Better(side, g[i], g[j])
    BY <1>3 DEF IsLadder
  <2> QED BY <2>1, <2>2 DEF IsLadder
<1>5. /\ f \in [1 .. Cardinality(S) -> S] /\ DOMAIN f = 1 .. Cardinality(S)
      /\ Cardinality(S) \in Nat
  BY <1>2, <1>4, FS_CardinalityType DEF IsLadder
<1>6. ASSUME NEW i \in DOMAIN f, NEW j \in DOMAIN f, f[i] = f[j] PROVE i = j
  <2>1. f[i] \in Nat /\ f[j] \in Nat /\ i \in Nat /\ j \in Nat
    <3>1. i \in 1 .. Cardinality(S) /\ j \in 1 .. Cardinality(S)
      BY <1>5
    <3>2. f[i] \in S /\ f[j] \in S
      BY <1>5, <3>1
    <3>3. \A p \in S : p \in Nat
      BY <1>2
    <3> QED BY <1>5, <3>1, <3>2, <3>3
  <2>2. i < j => Better(side, f[i], f[j])
    BY <1>4 DEF IsLadder
  <2>3. j < i => Better(side, f[j], f[i])
    BY <1>4 DEF IsLadder
  <2> QED BY <1>6, <2>1, <2>2, <2>3 DEF Better
<1>7. f \in Injection(1 .. Cardinality(S), S)
  BY <1>5, <1>6 DEF Injection, IsInjective
<1>8. Cardinality(1 .. Cardinality(S)) = Cardinality(S)
  BY <1>5, FS_Interval
<1>9. f \in Surjection(1 .. Cardinality(S), S)
  BY <1>2, <1>7, <1>8, FS_Injection
<1>10. \A p \in S : \E i \in DOMAIN f : f[i] = p
  BY <1>5, <1>9 DEF Surjection
<1> QED BY <1>1, <1>5, <1>6, <1>10

-----------------------------------------------------------------------------
(* Sizes: the one that was set last                                         *)

(* The greatest of finitely many positions.                                 *)
LEMMA MaxIsGreatest ==
  ASSUME NEW n \in Nat, NEW S \in SUBSET (1 .. n), S # {}
  PROVE  Max(S) \in S /\ \A y \in S : y <= Max(S)
<1>1. \A y \in S : y \in 1 .. n
  OBVIOUS
<1>2. PICK T : T = {n - y : y \in S}
  OBVIOUS
<1>3. T \in SUBSET Nat /\ T # {}
  <2>1. \A y \in S : n - y \in Nat
    BY <1>1
  <2>2. \A t \in T : t \in Nat
    BY <1>2, <2>1
  <2>3. T # {}
    BY <1>2
  <2> QED BY <2>2, <2>3
<1>4. PICK t \in T : \A u \in T : t <= u
  BY <1>3, LeastNatural
<1>5. PICK x \in S : t = n - x
  BY <1>2
<1>6. \A y \in S : n - x <= n - y
  BY <1>2, <1>4, <1>5
<1>7. \A y \in S : x >= y
  BY <1>1, <1>6
<1>8. Max(S) \in S /\ \A y \in S : Max(S) >= y
  BY <1>7 DEF Max
<1> QED BY <1>1, <1>8

(* The value at the last position of T, or what was there before.           *)
LastOr(T, val, before) == IF T = {} THEN before ELSE val[Max(T)]

IsLast(k, T) == k \in T /\ \A j \in T : j <= k

(* It is the value at any position of T that none follows.                  *)
LEMMA LastOrIs ==
  ASSUME NEW n \in Nat, NEW T \in SUBSET (1 .. n), NEW val, NEW before
  PROVE  /\ \A k : IsLast(k, T) => LastOr(T, val, before) = val[k]
         /\ T = {} \/ \E k : IsLast(k, T)
<1>1. T # {} => Max(T) \in T /\ \A j \in T : j <= Max(T)
  BY MaxIsGreatest
<1>2. ASSUME NEW k, IsLast(k, T)
      PROVE  LastOr(T, val, before) = val[k]
  <2>1. k <= Max(T) /\ Max(T) <= k /\ k \in 1 .. n /\ Max(T) \in 1 .. n
    BY <1>1, <1>2 DEF IsLast
  <2>2. k = Max(T)
    BY <2>1
  <2> QED BY <1>2, <2>2 DEF LastOr, IsLast
<1> QED BY <1>1, <1>2 DEF IsLast

(* The positions from m on, in a sequence of changes, of those that set     *)
(* something at a price, and what the last of them sets.                    *)
Touching(us, m, side, p) == {k \in m .. Len(us) : Sets(us[k], side, p) # {}}

SizeIn(c, side, p) == c[side][Max(Sets(c, side, p))].volume

SizeFrom(us, m, side, p, before) ==
  LastOr(Touching(us, m, side, p), [k \in DOMAIN us |-> SizeIn(us[k], side, p)], before)

SizeOr(c, side, p, before) ==
  IF Sets(c, side, p) = {} THEN before ELSE SizeIn(c, side, p)

Untouched(us, m, side, p) == \A k \in m .. Len(us) : Sets(us[k], side, p) = {}

LastTouch(us, m, side, p, k) ==
  /\ k \in m .. Len(us)
  /\ Sets(us[k], side, p) # {}
  /\ Untouched(us, k + 1, side, p)

(* A price that no change sets keeps its size.                              *)
LEMMA SizeUntouched ==
  ASSUME NEW us, NEW m, NEW side, NEW p, NEW before, Untouched(us, m, side, p)
  PROVE  SizeFrom(us, m, side, p, before) = before
<1>1. Touching(us, m, side, p) = {}
  BY DEF Touching, Untouched
<1> QED BY <1>1 DEF SizeFrom, LastOr

(* A last touch is the last position of those that touch.                   *)
LEMMA LastTouchIsLast ==
  ASSUME NEW us \in Seq(Change), NEW m \in 1 .. Len(us) + 1, NEW side, NEW p
  PROVE  /\ Touching(us, m, side, p) \in SUBSET (1 .. Len(us))
         /\ \A k : LastTouch(us, m, side, p, k) <=> IsLast(k, Touching(us, m, side, p))
<1>1. PICK T : T = Touching(us, m, side, p)
  OBVIOUS
<1>2. \A k \in T : k \in m .. Len(us) /\ Sets(us[k], side, p) # {}
  BY <1>1 DEF Touching
<1>3. \A k \in m .. Len(us) : Sets(us[k], side, p) # {} => k \in T
  BY <1>1 DEF Touching
<1>4. Len(us) \in Nat /\ m \in Nat /\ m >= 1
  OBVIOUS
<1>5. \A k \in T : k \in 1 .. Len(us)
  BY <1>2, <1>4
<1>6. ASSUME NEW k, LastTouch(us, m, side, p, k) PROVE IsLast(k, T)
  <2>1. k \in T
    BY <1>3, <1>6 DEF LastTouch
  <2>2. ASSUME NEW j \in T PROVE j <= k
    <3>1. j \in m .. Len(us) /\ Sets(us[j], side, p) # {}
      BY <1>2
    <3>2. j \notin k + 1 .. Len(us)
      BY <1>6, <3>1 DEF LastTouch, Untouched
    <3> QED BY <1>4, <1>5, <2>1, <3>1, <3>2
  <2> QED BY <2>1, <2>2 DEF IsLast
<1>7. ASSUME NEW k, IsLast(k, T) PROVE LastTouch(us, m, side, p, k)
  <2>1. k \in m .. Len(us) /\ Sets(us[k], side, p) # {}
    BY <1>2, <1>7 DEF IsLast
  <2>2. ASSUME NEW j \in k + 1 .. Len(us) PROVE Sets(us[j], side, p) = {}
    <3>1. j \in m .. Len(us) /\ ~(j <= k)
      BY <1>4, <2>1
    <3>2. j \notin T
      BY <1>7, <3>1 DEF IsLast
    <3> QED BY <1>3, <3>1, <3>2
  <2> QED BY <2>1, <2>2 DEF LastTouch, Untouched
<1> QED BY <1>1, <1>5, <1>6, <1>7

(* A price has the size that the last change to touch it sets.              *)
LEMMA SizeTouched ==
  ASSUME NEW us \in Seq(Change), NEW m \in 1 .. Len(us) + 1, NEW side, NEW p,
         NEW before, NEW k, LastTouch(us, m, side, p, k)
  PROVE  SizeFrom(us, m, side, p, before) = SizeIn(us[k], side, p)
<1>1. PICK T : T = Touching(us, m, side, p)
  OBVIOUS
<1>2. PICK val : val = [j \in DOMAIN us |-> SizeIn(us[j], side, p)]
  OBVIOUS
<1>3. T \in SUBSET (1 .. Len(us)) /\ IsLast(k, T)
  BY <1>1, LastTouchIsLast
<1>4. Len(us) \in Nat
  OBVIOUS
<1>5. LastOr(T, val, before) = val[k]
  BY <1>3, <1>4, LastOrIs
<1>6. k \in DOMAIN us
  BY <1>3 DEF IsLast
<1> QED BY <1>1, <1>2, <1>5, <1>6 DEF SizeFrom

(* One or the other.                                                        *)
LEMMA TouchedOrNot ==
  ASSUME NEW us \in Seq(Change), NEW m \in 1 .. Len(us) + 1, NEW side, NEW p
  PROVE  Untouched(us, m, side, p) \/ \E k : LastTouch(us, m, side, p, k)
<1>1. PICK T : T = Touching(us, m, side, p)
  OBVIOUS
<1>2. T \in SUBSET (1 .. Len(us)) /\ Len(us) \in Nat
  BY <1>1, LastTouchIsLast
<1>3. T = {} \/ \E k : IsLast(k, T)
  BY <1>2, LastOrIs
<1>4. T = {} => Untouched(us, m, side, p)
  BY <1>1 DEF Touching, Untouched
<1>5. \A k : IsLast(k, T) => LastTouch(us, m, side, p, k)
  BY <1>1, LastTouchIsLast
<1> QED BY <1>3, <1>4, <1>5

(* What is left to set, from one change to the next.                        *)
LEMMA SizeFromNext ==
  ASSUME NEW us \in Seq(Change), NEW m \in 1 .. Len(us), NEW side, NEW p, NEW before
  PROVE  SizeFrom(us, m, side, p, before)
           = SizeFrom(us, m + 1, side, p, SizeOr(us[m], side, p, before))
<1>1. PICK mid : mid = SizeOr(us[m], side, p, before)
  OBVIOUS
<1>2. m \in 1 .. Len(us) + 1 /\ m + 1 \in 1 .. Len(us) + 1 /\ Len(us) \in Nat
  OBVIOUS
<1>3. CASE Untouched(us, m + 1, side, p)
  <2>1. SizeFrom(us, m + 1, side, p, mid) = mid
    BY <1>3, SizeUntouched
  <2>2. CASE Sets(us[m], side, p) = {}
    <3>1. ASSUME NEW k \in m .. Len(us) PROVE Sets(us[k], side, p) = {}
      <4>1. k = m \/ k \in m + 1 .. Len(us)
        BY <1>2
      <4> QED BY <1>3, <2>2, <4>1 DEF Untouched
    <3>2. SizeFrom(us, m, side, p, before) = before
      BY <3>1, SizeUntouched DEF Untouched
    <3> QED BY <1>1, <2>1, <2>2, <3>2 DEF SizeOr
  <2>3. CASE Sets(us[m], side, p) # {}
    <3>1. m \in m .. Len(us)
      BY <1>2
    <3>2. LastTouch(us, m, side, p, m)
      BY <1>3, <2>3, <3>1 DEF LastTouch
    <3>3. SizeFrom(us, m, side, p, before) = SizeIn(us[m], side, p)
      BY <1>2, <3>2, SizeTouched
    <3> QED BY <1>1, <2>1, <2>3, <3>3 DEF SizeOr
  <2> QED BY <2>2, <2>3
<1>4. ASSUME NEW k, LastTouch(us, m + 1, side, p, k)
      PROVE  SizeFrom(us, m, side, p, before) = SizeFrom(us, m + 1, side, p, mid)
  <2>1. k \in m .. Len(us)
    BY <1>2, <1>4 DEF LastTouch
  <2>2. LastTouch(us, m, side, p, k)
    BY <1>4, <2>1 DEF LastTouch
  <2>3. SizeFrom(us, m, side, p, before) = SizeIn(us[k], side, p)
    BY <1>2, <2>2, SizeTouched
  <2>4. SizeFrom(us, m + 1, side, p, mid) = SizeIn(us[k], side, p)
    BY <1>2, <1>4, SizeTouched
  <2> QED BY <2>3, <2>4
<1>5. Untouched(us, m + 1, side, p) \/ \E k : LastTouch(us, m + 1, side, p, k)
  BY <1>2, TouchedOrNot
<1> QED BY <1>1, <1>3, <1>4, <1>5

(* SizeAfter is what is left to set from the beginning.                     *)
LEMMA SizeAfterIsFrom ==
  ASSUME NEW us \in Seq(Change), NEW side, NEW p
  PROVE  SizeAfter(us, side, p) = SizeFrom(us, 1, side, p, 0)
<1>1. PICK T : T = Touching(us, 1, side, p)
  OBVIOUS
<1>2. PICK val : val = [k \in DOMAIN us |-> SizeIn(us[k], side, p)]
  OBVIOUS
<1>3. T = {k \in DOMAIN us : Sets(us[k], side, p) # {}}
  BY <1>1 DEF Touching
<1>4. SizeAfter(us, side, p)
        = IF T = {} THEN 0 ELSE SizeIn(us[Max(T)], side, p)
  BY <1>3 DEF SizeAfter, SizeIn
<1>5. T \in SUBSET (1 .. Len(us)) /\ Len(us) \in Nat /\ DOMAIN us = 1 .. Len(us)
  BY <1>3
<1>6. T # {} => Max(T) \in DOMAIN us
  BY <1>5, MaxIsGreatest
<1>7. SizeAfter(us, side, p) = LastOr(T, val, 0)
  BY <1>2, <1>4, <1>6 DEF LastOr
<1> QED BY <1>1, <1>2, <1>7 DEF SizeFrom

(* Setting everything again from anywhere on changes nothing.               *)
LEMMA SizeFromAgain ==
  ASSUME NEW us \in Seq(Change), NEW m \in 1 .. Len(us) + 1, NEW side, NEW p,
         NEW before, NEW after, after = SizeFrom(us, 1, side, p, before)
  PROVE  SizeFrom(us, m, side, p, after) = after
<1>1. Len(us) \in Nat /\ 1 \in 1 .. Len(us) + 1
  OBVIOUS
<1>2. CASE Untouched(us, m, side, p)
  BY <1>2, SizeUntouched
<1>3. ASSUME NEW k, LastTouch(us, m, side, p, k)
      PROVE  SizeFrom(us, m, side, p, after) = after
  <2>1. k \in 1 .. Len(us)
    BY <1>1, <1>3 DEF LastTouch
  <2>2. LastTouch(us, 1, side, p, k)
    BY <1>3, <2>1 DEF LastTouch
  <2>3. SizeFrom(us, 1, side, p, before) = SizeIn(us[k], side, p)
    BY <1>1, <2>2, SizeTouched
  <2>4. SizeFrom(us, m, side, p, after) = SizeIn(us[k], side, p)
    BY <1>3, SizeTouched
  <2> QED BY <2>3, <2>4
<1>4. Untouched(us, m, side, p) \/ \E k : LastTouch(us, m, side, p, k)
  BY TouchedOrNot
<1> QED BY <1>2, <1>3, <1>4

(* Within one change, too, the last entry for a price counts.               *)
LEMMA SizeInIs ==
  ASSUME NEW c \in Change, NEW side \in Sides, NEW p
  PROVE  /\ Len(c[side]) \in Nat
         /\ Sets(c, side, p) \in SUBSET (1 .. Len(c[side]))
         /\ \A k : IsLast(k, Sets(c, side, p)) => SizeIn(c, side, p) = c[side][k].volume
         /\ Sets(c, side, p) = {} \/ \E k : IsLast(k, Sets(c, side, p))
         /\ Sets(c, side, p) # {} => SizeIn(c, side, p) \in Volumes
<1>1. PICK T : T = Sets(c, side, p)
  OBVIOUS
<1>2. PICK levels : levels = c[side]
  OBVIOUS
<1>3. levels \in Seq(Entry)
  BY <1>2 DEF Change
<1>4. Len(levels) \in Nat /\ DOMAIN levels = 1 .. Len(levels)
  BY <1>3
<1>5. T \in SUBSET (1 .. Len(levels))
  BY <1>1, <1>2, <1>4 DEF Sets
<1>6. PICK val : val = [k \in DOMAIN levels |-> levels[k].volume]
  OBVIOUS
<1>7. /\ \A k : IsLast(k, T) => LastOr(T, val, 0) = val[k]
      /\ T = {} \/ \E k : IsLast(k, T)
  BY <1>4, <1>5, LastOrIs
<1>8. T # {} => Max(T) \in T
  BY <1>4, <1>5, MaxIsGreatest
<1>9. T # {} => LastOr(T, val, 0) = SizeIn(c, side, p)
  <2> SUFFICES ASSUME T # {} PROVE LastOr(T, val, 0) = SizeIn(c, side, p)
    OBVIOUS
  <2>1. Max(T) \in DOMAIN levels
    BY <1>4, <1>5, <1>8
  <2> QED BY <1>1, <1>2, <1>6, <2>1 DEF LastOr, SizeIn
<1>10. ASSUME NEW k, IsLast(k, T) PROVE SizeIn(c, side, p) = levels[k].volume
  <2>1. T # {} /\ k \in DOMAIN levels
    BY <1>4, <1>5, <1>10 DEF IsLast
  <2> QED BY <1>6, <1>7, <1>9, <1>10, <2>1
<1>11. ASSUME T # {} PROVE SizeIn(c, side, p) \in Volumes
  <2>1. PICK k : IsLast(k, T)
    BY <1>7, <1>11
  <2>2. k \in 1 .. Len(levels)
    BY <1>5, <2>1 DEF IsLast
  <2>3. levels[k] \in Entry
    BY <1>3, <2>2
  <2> QED BY <1>10, <2>1, <2>3 DEF Entry
<1> QED BY <1>1, <1>2, <1>4, <1>5, <1>7, <1>10, <1>11

SizeMap == [Sides -> [Prices -> Nat]]

(* Sizes are never negative, and a positive one is one that was set.        *)
LEMMA SizesAfterType ==
  ASSUME NEW us \in Seq(Change)
  PROVE  /\ SizesAfter(us) \in SizeMap
         /\ \A side \in Sides, p \in Prices :
              /\ SizesAfter(us)[side][p] = SizeFrom(us, 1, side, p, 0)
              /\ SizesAfter(us)[side][p] > 0 => SizesAfter(us)[side][p] \in Volumes
<1>1. ASSUME NEW side \in Sides, NEW p \in Prices
      PROVE  /\ SizesAfter(us)[side][p] = SizeFrom(us, 1, side, p, 0)
             /\ SizeAfter(us, side, p) \in Volumes \cup {0}
             /\ SizesAfter(us)[side][p] = SizeAfter(us, side, p)
  <2>1. SizesAfter(us)[side][p] = SizeAfter(us, side, p)
    BY DEF SizesAfter
  <2>2. SizeAfter(us, side, p) = SizeFrom(us, 1, side, p, 0)
    BY SizeAfterIsFrom
  <2>3. 1 \in 1 .. Len(us) + 1
    OBVIOUS
  <2>4. CASE Untouched(us, 1, side, p)
    BY <2>1, <2>2, <2>4, SizeUntouched
  <2>5. ASSUME NEW k, LastTouch(us, 1, side, p, k)
        PROVE  SizeAfter(us, side, p) \in Volumes
    <3>1. us[k] \in Change /\ Sets(us[k], side, p) # {}
      BY <2>5 DEF LastTouch
    <3>2. SizeIn(us[k], side, p) \in Volumes
      BY <3>1, SizeInIs
    <3> QED BY <2>2, <2>3, <2>5, <3>2, SizeTouched
  <2>6. Untouched(us, 1, side, p) \/ \E k : LastTouch(us, 1, side, p, k)
    BY <2>3, TouchedOrNot
  <2> QED BY <2>1, <2>2, <2>4, <2>5, <2>6
<1>2. \A v \in Volumes \cup {0} : v \in Nat
  BY MarketAssumption
<1>3. SizesAfter(us) \in SizeMap
  BY <1>1, <1>2 DEF SizesAfter, SizeMap
<1> QED BY <1>1, <1>3

-----------------------------------------------------------------------------
(* Snapshots                                                                *)

Listed(side, size) ==
  LET prices == Ladder(side, size)
  IN  [k \in DOMAIN prices |-> [price |-> prices[k], volume |-> size[prices[k]]]]

(* No price is listed twice, and none without a size.                       *)
AreListed(levels, size) ==
  /\ levels \in Seq(Entry)
  /\ \A i, j \in 1 .. Len(levels) : levels[i].price = levels[j].price => i = j
  /\ \A i \in 1 .. Len(levels) : levels[i].volume > 0 /\ levels[i].volume = size[levels[i].price]
  /\ \A p \in Prices : size[p] > 0 => \E i \in 1 .. Len(levels) : levels[i].price = p

(* The levels of a snapshot are the sizes there are.                        *)
LEMMA ListedLists ==
  ASSUME NEW side \in Sides, NEW size \in [Prices -> Nat],
         \A p \in Prices : size[p] > 0 => size[p] \in Volumes
  PROVE  AreListed(Listed(side, size), size)
<1>1. PICK f : f = Ladder(side, size)
  OBVIOUS
<1>2. PICK n : n = Cardinality(Present(size))
  OBVIOUS
<1>3. /\ DOMAIN f = 1 .. n /\ n \in Nat
      /\ \A i \in 1 .. n : f[i] \in Present(size)
      /\ \A i, j \in 1 .. n : f[i] = f[j] => i = j
      /\ \A p \in Present(size) : \E i \in 1 .. n : f[i] = p
  BY <1>1, <1>2, LadderListsAll
<1>4. PICK levels : levels = Listed(side, size)
  OBVIOUS
<1>5. /\ DOMAIN levels = 1 .. n
      /\ \A k \in 1 .. n : levels[k] = [price |-> f[k], volume |-> size[f[k]]]
      /\ levels = [k \in 1 .. n |-> [price |-> f[k], volume |-> size[f[k]]]]
  BY <1>1, <1>3, <1>4 DEF Listed
<1>6. \A k \in 1 .. n : f[k] \in Prices /\ size[f[k]] > 0
  BY <1>3 DEF Present
<1>7. \A k \in 1 .. n : levels[k] \in Entry
  BY <1>5, <1>6 DEF Entry
<1>8. levels \in Seq(Entry) /\ Len(levels) = n
  BY <1>3, <1>5, <1>7
<1>9. \A k \in 1 .. n : levels[k].price = f[k] /\ levels[k].volume = size[f[k]]
  BY <1>5
<1>10. \A p \in Prices : size[p] > 0 => \E i \in 1 .. n : levels[i].price = p
  BY <1>3, <1>9 DEF Present
<1>11. \A i, j \in 1 .. n : levels[i].price = levels[j].price => i = j
  BY <1>3, <1>9
<1>12. AreListed(levels, size)
  BY <1>6, <1>8, <1>9, <1>10, <1>11 DEF AreListed
<1> QED BY <1>4, <1>12

(* So a change that sets the levels of a snapshot sets the sizes.           *)
LEMMA ListsSets ==
  ASSUME NEW c \in Change, NEW side \in Sides, NEW size \in [Prices -> Nat],
         AreListed(c[side], size), NEW p \in Prices
  PROVE  SizeOr(c, side, p, 0) = size[p]
<1>1. PICK levels : levels = c[side]
  OBVIOUS
<1>2. Sets(c, side, p) = {k \in 1 .. Len(levels) : levels[k].price = p}
  BY <1>1 DEF Sets, AreListed
<1>3. CASE Sets(c, side, p) = {}
  <2>1. ~(size[p] > 0)
    BY <1>1, <1>2, <1>3 DEF AreListed
  <2>2. size[p] \in Nat
    OBVIOUS
  <2> QED BY <1>3, <2>1, <2>2 DEF SizeOr
<1>4. CASE Sets(c, side, p) # {}
  <2>1. PICK k : IsLast(k, Sets(c, side, p))
    BY <1>4, SizeInIs
  <2>2. k \in 1 .. Len(levels) /\ levels[k].price = p
    BY <1>2, <2>1 DEF IsLast
  <2>3. SizeIn(c, side, p) = levels[k].volume
    BY <1>1, <2>1, SizeInIs
  <2>4. levels[k].volume = size[p]
    BY <1>1, <2>2 DEF AreListed
  <2> QED BY <1>4, <2>3, <2>4 DEF SizeOr
<1> QED BY <1>3, <1>4

Snapshot(n) == [BID |-> LiveLevels(n, "BID"), ASK |-> LiveLevels(n, "ASK")]

(* A snapshot of the market is a change that sets the market, without a     *)
(* repetition, and parses into itself.                                      *)
LEMMA SnapshotIsMarket ==
  ASSUME NEW n \in Nat, updates \in Seq(Change), n <= Len(updates)
  PROVE  /\ Snapshot(n) \in Change
         /\ Market(n) \in SizeMap
         /\ \A side \in Sides : AreListed(Snapshot(n)[side], Market(n)[side])
         /\ parse_binance_depth(SnapshotDocument(n))
              = Ok([lastUpdateId |-> n, levels |-> Snapshot(n)])
<1>1. PICK us : us = SubSeq(updates, 1, n)
  OBVIOUS
<1>2. us \in Seq(Change)
  BY <1>1
<1>3. /\ Market(n) \in SizeMap
      /\ \A side \in Sides, p \in Prices :
           Market(n)[side][p] > 0 => Market(n)[side][p] \in Volumes
  BY <1>1, <1>2, SizesAfterType DEF Market
<1>4. \A side \in Sides : Market(n)[side] \in [Prices -> Nat]
  BY <1>3 DEF SizeMap
<1>5. \A side \in Sides : LiveLevels(n, side) = Listed(side, Market(n)[side])
  BY DEF LiveLevels, Listed
<1>6. \A side \in Sides : Snapshot(n)[side] = LiveLevels(n, side)
  BY DEF Snapshot, Sides
<1>7. ASSUME NEW side \in Sides
      PROVE  AreListed(Snapshot(n)[side], Market(n)[side])
  BY <1>3, <1>4, <1>5, <1>6, ListedLists
<1>8. \A side \in Sides : Snapshot(n)[side] \in Seq(Entry)
  BY <1>7 DEF AreListed
<1>9. Snapshot(n) \in Change
  <2>1. DOMAIN Snapshot(n) = Sides
    BY DEF Snapshot, Sides
  <2>2. Snapshot(n) = [side \in Sides |-> Snapshot(n)[side]]
    BY <2>1 DEF Snapshot
  <2> QED BY <1>8, <2>2 DEF Change
<1>10. SnapshotDocument(n) = [kind |-> "object", id |-> Number(n),
                              bids |-> Encoded(Snapshot(n)["BID"]),
                              asks |-> Encoded(Snapshot(n)["ASK"])]
  BY DEF SnapshotDocument, Snapshot
<1> QED BY <1>3, <1>7, <1>9, <1>10, DocumentParses

-----------------------------------------------------------------------------
(* The stream of frames                                                     *)

Frames(n) ==
  {Frame("update", k) : k \in 1 .. n}
    \cup {Frame("notice", k) : k \in DOMAIN Notices} \cup {Blank, Torn}

(* Between two updates, none is missing.                                    *)
Consecutive(fs) ==
  \A j, k \in 1 .. Len(fs) :
    /\ j < k
    /\ fs[j].kind = "update"
    /\ fs[k].kind = "update"
    /\ \A i \in j + 1 .. k - 1 : fs[i].kind # "update"
    => fs[k].n = fs[j].n + 1

(* The last update among them is number n.                                  *)
UpTo(fs, n) ==
  \A k \in 1 .. Len(fs) :
    fs[k].kind = "update" /\ (\A i \in k + 1 .. Len(fs) : fs[i].kind # "update")
      => fs[k].n = n

(* What frames may be.                                                      *)
LEMMA FramesAre ==
  ASSUME NEW n \in Nat, NEW f \in Frames(n)
  PROVE  /\ f.kind = "update" => f.n \in 1 .. n /\ f = Frame("update", f.n)
         /\ f.kind \in {"update", "notice", "blank", "torn"}
         /\ f.kind = "notice" => f.n \in DOMAIN Notices /\ f = Frame("notice", f.n)
         /\ f.kind = "blank" <=> f = Blank
  BY DEF Frames, Frame, Blank, Torn

(* The market moves on.                                                     *)
LEMMA FramesGrow ==
  ASSUME NEW n \in Nat
  PROVE  /\ Frames(n) \subseteq Frames(n + 1)
         /\ Frame("update", n + 1) \in Frames(n + 1)
         /\ Blank \in Frames(n) /\ Torn \in Frames(n)
         /\ \A k \in DOMAIN Notices : Frame("notice", k) \in Frames(n)
  BY DEF Frames

(* The next update keeps the stream without a gap.                          *)
LEMMA NextUpdate ==
  ASSUME NEW S, NEW fs \in Seq(S), Consecutive(fs), NEW n \in Nat, UpTo(fs, n),
         NEW r, r = Append(fs, Frame("update", n + 1))
  PROVE  Consecutive(r) /\ UpTo(r, n + 1)
<1>1. /\ Len(fs) \in Nat /\ Len(r) = Len(fs) + 1
      /\ \A j \in 1 .. Len(fs) : r[j] = fs[j]
      /\ r[Len(fs) + 1] = Frame("update", n + 1)
  OBVIOUS
<1>2. r[Len(fs) + 1].n = n + 1 /\ r[Len(fs) + 1].kind = "update"
  BY <1>1 DEF Frame
<1>3. ASSUME NEW j \in 1 .. Len(r), NEW k \in 1 .. Len(r), j < k,
             r[j].kind = "update", r[k].kind = "update",
             \A i \in j + 1 .. k - 1 : r[i].kind # "update"
      PROVE  r[k].n = r[j].n + 1
  <2>1. j \in 1 .. Len(fs) /\ r[j] = fs[j]
    BY <1>1, <1>3
  <2>2. \A i \in j + 1 .. k - 1 : i \in 1 .. Len(fs) /\ r[i] = fs[i]
    BY <1>1, <2>1
  <2>3. CASE k \in 1 .. Len(fs)
    <3>1. r[k] = fs[k]
      BY <1>1, <2>3
    <3>2. \A i \in j + 1 .. k - 1 : fs[i].kind # "update"
      BY <1>3, <2>2
    <3> QED BY <1>3, <2>1, <2>3, <3>1, <3>2 DEF Consecutive
  <2>4. CASE k \notin 1 .. Len(fs)
    <3>1. k = Len(fs) + 1
      BY <1>1, <2>4
    <3>2. \A i \in j + 1 .. Len(fs) : fs[i].kind # "update"
      BY <1>1, <1>3, <2>1, <3>1
    <3>3. fs[j].n = n
      BY <1>3, <2>1, <3>2 DEF UpTo
    <3> QED BY <1>2, <2>1, <3>1, <3>3
  <2> QED BY <2>3, <2>4
<1>4. ASSUME NEW k \in 1 .. Len(r), r[k].kind = "update",
             \A i \in k + 1 .. Len(r) : r[i].kind # "update"
      PROVE  r[k].n = n + 1
  <2>1. Len(fs) + 1 \notin k + 1 .. Len(r)
    BY <1>2, <1>4
  <2>2. k = Len(fs) + 1
    BY <1>1, <2>1
  <2> QED BY <1>2, <2>2
<1> QED BY <1>3, <1>4 DEF Consecutive, UpTo

(* So does any other frame.                                                 *)
LEMMA OtherFrame ==
  ASSUME NEW S, NEW fs \in Seq(S), Consecutive(fs), NEW f, f.kind # "update",
         NEW r, r = Append(fs, f)
  PROVE  Consecutive(r) /\ \A n : UpTo(fs, n) => UpTo(r, n)
<1>1. /\ Len(fs) \in Nat /\ Len(r) = Len(fs) + 1
      /\ \A j \in 1 .. Len(fs) : r[j] = fs[j]
      /\ r[Len(fs) + 1] = f
  OBVIOUS
<1>2. \A j \in 1 .. Len(r) : r[j].kind = "update" => j \in 1 .. Len(fs) /\ r[j] = fs[j]
  BY <1>1
<1>3. ASSUME NEW j \in 1 .. Len(r), NEW k \in 1 .. Len(r), j < k,
             r[j].kind = "update", r[k].kind = "update",
             \A i \in j + 1 .. k - 1 : r[i].kind # "update"
      PROVE  r[k].n = r[j].n + 1
  <2>1. j \in 1 .. Len(fs) /\ k \in 1 .. Len(fs) /\ r[j] = fs[j] /\ r[k] = fs[k]
    BY <1>2, <1>3
  <2>2. \A i \in j + 1 .. k - 1 : fs[i].kind # "update"
    BY <1>1, <1>3, <2>1
  <2> QED BY <1>3, <2>1, <2>2 DEF Consecutive
<1>4. ASSUME NEW n, UpTo(fs, n), NEW k \in 1 .. Len(r), r[k].kind = "update",
             \A i \in k + 1 .. Len(r) : r[i].kind # "update"
      PROVE  r[k].n = n
  <2>1. k \in 1 .. Len(fs) /\ r[k] = fs[k]
    BY <1>2, <1>4
  <2>2. \A i \in k + 1 .. Len(fs) : fs[i].kind # "update"
    BY <1>1, <1>4, <2>1
  <2> QED BY <1>4, <2>1, <2>2 DEF UpTo
<1> QED BY <1>3, <1>4 DEF Consecutive, UpTo

(* So does a part of it from the beginning.                                 *)
LEMMA PrefixConsecutive ==
  ASSUME NEW S, NEW fs \in Seq(S), Consecutive(fs), NEW r \in Seq(S),
         Len(r) <= Len(fs), \A j \in 1 .. Len(r) : r[j] = fs[j]
  PROVE  Consecutive(r)
<1>1. Len(fs) \in Nat /\ Len(r) \in Nat
  OBVIOUS
<1>2. ASSUME NEW j \in 1 .. Len(r), NEW k \in 1 .. Len(r), j < k,
             r[j].kind = "update", r[k].kind = "update",
             \A i \in j + 1 .. k - 1 : r[i].kind # "update"
      PROVE  r[k].n = r[j].n + 1
  <2>1. j \in 1 .. Len(fs) /\ k \in 1 .. Len(fs) /\ r[j] = fs[j] /\ r[k] = fs[k]
    BY <1>1
  <2>2. \A i \in j + 1 .. k - 1 : fs[i].kind # "update"
    BY <1>1, <1>2
  <2> QED BY <1>2, <2>1, <2>2 DEF Consecutive
<1> QED BY <1>2 DEF Consecutive

(* What reaches the disk of such a stream is one, torn at its end or not.   *)
LEMMA CutOffConsecutive ==
  ASSUME NEW n \in Nat, NEW lines \in Seq(Frames(n)), Consecutive(lines),
         NEW p \in CutOff(lines)
  PROVE  p \in Seq(Frames(n)) /\ Consecutive(p)
<1>1. ASSUME NEW q \in Prefixes(lines)
      PROVE  q \in Seq(Frames(n)) /\ Consecutive(q)
  <2>1. PICK l \in 0 .. Len(lines) : q = SubSeq(lines, 1, l)
    BY DEF Prefixes
  <2>2. /\ q \in Seq(Frames(n)) /\ Len(q) = l
        /\ \A j \in 1 .. l : q[j] = lines[j]
    BY <2>1
  <2>3. Len(q) <= Len(lines) /\ \A j \in 1 .. Len(q) : q[j] = lines[j]
    BY <2>2
  <2> QED BY <2>2, <2>3, PrefixConsecutive
<1>2. CASE p \in Prefixes(lines)
  BY <1>1, <1>2
<1>3. ASSUME NEW q \in Prefixes(lines), p = Append(q, Torn)
      PROVE  p \in Seq(Frames(n)) /\ Consecutive(p)
  <2>1. q \in Seq(Frames(n)) /\ Consecutive(q)
    BY <1>1
  <2>2. Torn \in Frames(n) /\ Torn.kind # "update"
    BY FramesGrow DEF Torn, Frame
  <2>3. Consecutive(p)
    BY <1>3, <2>1, <2>2, OtherFrame
  <2> QED BY <1>3, <2>1, <2>2, <2>3
<1> QED BY <1>2, <1>3 DEF CutOff

(* Reading moves a frame from the socket to the lines.                      *)
LEMMA ReadMoves ==
  ASSUME NEW S, NEW lines \in Seq(S), NEW box \in Seq(S), box # <<>>
  PROVE  /\ Append(lines, Head(box)) \o Tail(box) = lines \o box
         /\ Append(lines, Head(box)) \in Seq(S) /\ Tail(box) \in Seq(S)
<1>1. /\ Head(box) \in S /\ Tail(box) \in Seq(S)
      /\ box = <<Head(box)>> \o Tail(box)
  OBVIOUS
<1> QED BY <1>1

(* Lines that were written are part of the stream.                          *)
LEMMA LinesConsecutive ==
  ASSUME NEW S, NEW lines \in Seq(S), NEW box \in Seq(S), Consecutive(lines \o box)
  PROVE  Consecutive(lines)
<1>1. PICK fs : fs = lines \o box
  OBVIOUS
<1>2. /\ fs \in Seq(S) /\ Len(lines) <= Len(fs)
      /\ \A j \in 1 .. Len(lines) : lines[j] = fs[j]
  BY <1>1
<1> QED BY <1>1, <1>2, PrefixConsecutive

-----------------------------------------------------------------------------
(* The capture.  Nothing is missing from what arrived in the socket and     *)
(* what was written, taken together, until a write fails; nothing is ever   *)
(* missing from what was written.                                           *)

Connecting == DOMAIN Following

CaptureOK ==
  /\ updates \in Seq(Changes)
  /\ capture = [pc |-> capture.pc, late |-> capture.late, good |-> capture.good]
  /\ capture.good \in BOOLEAN
  /\ out \in Seq(Frames(Len(updates)))
  /\ inbox \in Seq(Frames(Len(updates)))
  /\ file \in Seq(Frames(Len(updates)))

Streaming ==
  /\ Consecutive(out)
  /\ Consecutive(file)
  /\ capture.good => Consecutive(out \o inbox)
  /\ capture.good /\ peer = "open" => UpTo(out \o inbox, Len(updates))

Ready ==
  /\ capture.pc \in Connecting \cup {"open"} => capture.good /\ out = <<>>
  /\ capture.pc \in Connecting => inbox = <<>>
  /\ peer = "open" => capture.pc \notin Connecting /\ ~CaptureEnded

CaptureInv == CaptureOK /\ Streaming /\ Ready

(* The empty stream.                                                        *)
LEMMA EmptyStream ==
  /\ \A S : <<>> \in Seq(S) /\ <<>> \o <<>> = <<>>
  /\ Consecutive(<<>>)
  /\ \A n : UpTo(<<>>, n)
  BY DEF Consecutive, UpTo

(* The stages of the capture are told apart by their names.                 *)
LEMMA Stages ==
  /\ Connecting = {"sni", "resolve", "connect", "tls", "upgrade"}
  /\ \A pc \in Connecting \ {"upgrade"} : Following[pc] \in Connecting
  /\ Following["upgrade"] = "open"
  BY DEF Connecting, Following

(* The end of the program: what is left is the file.                        *)
LEMMA ExitOK ==
  ASSUME CaptureInv, NEW status, Exit(status), status \in {"success", "failure", "killed"},
         UNCHANGED updates, file' \in Seq(Frames(Len(updates))), Consecutive(file')
  PROVE  CaptureInv'
<1>1. /\ capture' = At(status) /\ peer' = "away" /\ inbox' = <<>> /\ out' = <<>>
      /\ Len(updates)' = Len(updates)
  BY DEF Exit
<1>2. capture'.pc = status /\ capture'.good = TRUE
      /\ capture' = [pc |-> capture'.pc, late |-> capture'.late, good |-> capture'.good]
  BY <1>1 DEF At
<1>3. CaptureOK'
  BY <1>1, <1>2, EmptyStream DEF CaptureInv, CaptureOK
<1>4. Streaming'
  BY <1>1, <1>2, EmptyStream DEF Streaming
<1>5. status \notin Connecting /\ status # "open"
  BY Stages
<1>6. Ready'
  BY <1>1, <1>2, <1>5 DEF Ready
<1> QED BY <1>3, <1>4, <1>6 DEF CaptureInv

(* A step that moves on without touching the stream.                        *)
LEMMA MoveOnOK ==
  ASSUME CaptureInv, UNCHANGED <<updates, inbox, out>>,
         file' \in Seq(Frames(Len(updates))), Consecutive(file'),
         capture' = [pc |-> capture'.pc, late |-> capture'.late, good |-> capture'.good],
         capture'.good = capture.good,
         peer' # "open" \/ peer' = peer,
         capture'.pc \notin Connecting \cup {"open"},
         capture.pc \notin Connecting, ~CaptureEnded, ~CaptureEnded'
  PROVE  CaptureInv'
<1>1. CaptureOK'
  BY DEF CaptureInv, CaptureOK
<1>2. Streaming'
  BY DEF CaptureInv, Streaming
<1>3. Ready'
  BY DEF Ready
<1> QED BY <1>1, <1>2, <1>3 DEF CaptureInv

(* The awaits up to the open stream.                                        *)
LEMMA ProceedOK ==
  ASSUME CaptureInv, Proceed, UNCHANGED updates
  PROVE  CaptureInv'
<1>1. /\ capture.pc \in Connecting /\ capture' = At(Following[capture.pc])
      /\ peer' = IF capture.pc = "upgrade" THEN "open" ELSE peer
      /\ UNCHANGED <<inbox, out, file>>
  BY DEF Proceed, Connecting
<1>2. inbox = <<>> /\ out = <<>> /\ peer # "open"
  BY <1>1 DEF CaptureInv, Ready
<1>3. /\ capture'.pc = Following[capture.pc] /\ capture'.good = TRUE
      /\ capture' = [pc |-> capture'.pc, late |-> capture'.late, good |-> capture'.good]
  BY <1>1 DEF At
<1>4. CaptureOK'
  BY <1>1, <1>3 DEF CaptureInv, CaptureOK
<1>5. Streaming'
  BY <1>1, <1>2, <1>3, EmptyStream DEF CaptureInv, Streaming
<1>6. Ready'
  <2>1. CASE capture.pc = "upgrade"
    BY <1>1, <1>2, <1>3, <2>1, Stages DEF Ready, CaptureEnded
  <2>2. CASE capture.pc # "upgrade"
    BY <1>1, <1>2, <1>3, <2>2, Stages DEF Ready
  <2> QED BY <2>1, <2>2
<1> QED BY <1>4, <1>5, <1>6 DEF CaptureInv

(* A frame is read, and its line is written or not.                         *)
LEMMA ReadFrameOK ==
  ASSUME CaptureInv, ReadFrame, UNCHANGED updates
  PROVE  CaptureInv'
<1>1. PICK n : n = Len(updates)
  OBVIOUS
<1>2. PICK lines : lines = Append(out, Head(inbox))
  OBVIOUS
<1>3. n \in Nat /\ n' = n /\ Len(updates)' = n
  BY <1>1 DEF CaptureInv, CaptureOK
<1>4. /\ capture.pc = "read" /\ inbox # <<>> /\ inbox' = Tail(inbox)
      /\ peer' = peer /\ file' = file
      /\ \/ /\ capture' = [capture EXCEPT !.pc = "loop"]
            /\ out' = IF capture.good THEN lines ELSE out
         \/ /\ capture.good
            /\ capture' = [capture EXCEPT !.pc = "loop", !.good = FALSE]
            /\ out' \in CutOff(lines)
  BY <1>2 DEF ReadFrame
<1>5. /\ out \in Seq(Frames(n)) /\ inbox \in Seq(Frames(n)) /\ file \in Seq(Frames(n))
      /\ capture = [pc |-> capture.pc, late |-> capture.late, good |-> capture.good]
      /\ capture.good \in BOOLEAN
  BY <1>1 DEF CaptureInv, CaptureOK
<1>6. /\ lines \o Tail(inbox) = out \o inbox
      /\ lines \in Seq(Frames(n)) /\ Tail(inbox) \in Seq(Frames(n))
  BY <1>2, <1>4, <1>5, ReadMoves
<1>7. /\ capture'.pc = "loop"
      /\ capture' = [pc |-> capture'.pc, late |-> capture'.late, good |-> capture'.good]
      /\ capture'.good \in BOOLEAN
      /\ capture'.good => capture.good /\ out' = lines
  BY <1>4, <1>5
<1>8. capture.good => Consecutive(lines)
  <2>1. capture.good => Consecutive(out \o inbox)
    BY DEF CaptureInv, Streaming
  <2> QED BY <1>6, <2>1, LinesConsecutive
<1>9. out' \in Seq(Frames(n)) /\ Consecutive(out')
  <2>1. CASE out' \in CutOff(lines) /\ capture.good
    BY <1>3, <1>6, <1>8, <2>1, CutOffConsecutive
  <2>2. CASE out' = lines /\ capture.good
    BY <1>6, <1>8, <2>2
  <2>3. CASE out' = out
    BY <1>5, <2>3 DEF CaptureInv, Streaming
  <2> QED BY <1>4, <2>1, <2>2, <2>3
<1>10. CaptureOK'
  BY <1>3, <1>4, <1>5, <1>6, <1>7, <1>9 DEF CaptureInv, CaptureOK
<1>11. Streaming'
  <2>1. capture'.good => out' \o inbox' = out \o inbox
    BY <1>4, <1>6, <1>7
  <2>2. /\ capture.good => Consecutive(out \o inbox)
        /\ capture.good /\ peer = "open" => UpTo(out \o inbox, n)
        /\ Consecutive(file)
    BY <1>1 DEF CaptureInv, Streaming
  <2>3. capture'.good => Consecutive(out' \o inbox')
    BY <1>7, <2>1, <2>2
  <2>4. capture'.good /\ peer' = "open" => UpTo(out' \o inbox', n)
    BY <1>4, <1>7, <2>1, <2>2
  <2> QED BY <1>3, <1>4, <1>9, <2>2, <2>3, <2>4 DEF Streaming
<1>12. Ready'
  BY <1>7, Stages DEF Ready, CaptureEnded
<1> QED BY <1>10, <1>11, <1>12 DEF CaptureInv

(* The steps of the capture.                                                *)
LEMMA CaptureStepOK ==
  ASSUME CaptureInv, CaptureStep, UNCHANGED updates
  PROVE  CaptureInv'
<1>1. /\ file \in Seq(Frames(Len(updates))) /\ Consecutive(file)
      /\ out \in Seq(Frames(Len(updates))) /\ Consecutive(out)
      /\ capture = [pc |-> capture.pc, late |-> capture.late, good |-> capture.good]
  BY DEF CaptureInv, CaptureOK, Streaming
<1>2. CASE Proceed
  BY <1>2, ProceedOK
<1>3. CASE Refused
  BY <1>1, <1>3, ExitOK DEF Refused
<1>4. CASE OpenFile
  <2>1. CASE Exit("failure") /\ UNCHANGED file
    BY <1>1, <2>1, ExitOK
  <2>2. CASE capture' = At("loop") /\ file' = <<>> /\ UNCHANGED <<peer, inbox, out>>
    <3>1. /\ capture'.pc = "loop" /\ capture'.good = TRUE
          /\ capture' = [pc |-> capture'.pc, late |-> capture'.late, good |-> capture'.good]
      BY <2>2 DEF At
    <3>2. capture.good = TRUE
      BY <1>4 DEF OpenFile, CaptureInv, Ready, CaptureOK
    <3>3. file' \in Seq(Frames(Len(updates))) /\ Consecutive(file')
      BY <2>2, EmptyStream
    <3>4. capture.pc = "open"
      BY <1>4 DEF OpenFile
    <3> QED BY <2>2, <3>1, <3>2, <3>3, <3>4, MoveOnOK, Stages DEF CaptureEnded
  <2> QED BY <1>4, <2>1, <2>2 DEF OpenFile
<1>5. CASE TestDeadline
  <2>1. /\ capture.pc = "loop" /\ UNCHANGED <<peer, inbox, out, file>>
        /\ capture' = [capture EXCEPT !.pc = IF capture.late THEN "flush" ELSE "read"]
    BY <1>5 DEF TestDeadline
  <2>2. /\ capture'.pc \in {"flush", "read"} /\ capture'.good = capture.good
        /\ capture' = [pc |-> capture'.pc, late |-> capture'.late, good |-> capture'.good]
    BY <1>1, <2>1
  <2> QED BY <1>1, <2>1, <2>2, MoveOnOK, Stages DEF CaptureEnded
<1>6. CASE ReadFrame
  BY <1>6, ReadFrameOK
<1>7. CASE ReadEnd
  <2>1. CASE Exit("failure") /\ file' = out
    BY <1>1, <2>1, ExitOK
  <2>2. CASE /\ capture' = [capture EXCEPT !.pc = "flush"]
             /\ UNCHANGED <<peer, inbox, out, file>>
    <3>1. /\ capture'.pc = "flush" /\ capture'.good = capture.good
          /\ capture' = [pc |-> capture'.pc, late |-> capture'.late, good |-> capture'.good]
      BY <1>1, <2>2
    <3>2. capture.pc = "read"
      BY <1>7 DEF ReadEnd
    <3> QED BY <1>1, <2>2, <3>1, <3>2, MoveOnOK, Stages DEF CaptureEnded
  <2> QED BY <1>7, <2>1, <2>2 DEF ReadEnd
<1>8. CASE Flush
  <2>1. /\ capture.pc = "flush" /\ UNCHANGED <<peer, inbox, out>> /\ file' = out
        /\ capture' = [capture EXCEPT !.pc = "close"]
    BY <1>8 DEF Flush
  <2>2. /\ capture'.pc = "close" /\ capture'.good = capture.good
        /\ capture' = [pc |-> capture'.pc, late |-> capture'.late, good |-> capture'.good]
    BY <1>1, <2>1
  <2> QED BY <1>1, <2>1, <2>2, MoveOnOK, Stages DEF CaptureEnded
<1>9. CASE Close
  BY <1>1, <1>9, ExitOK DEF Close
<1> QED BY <1>2, <1>3, <1>4, <1>5, <1>6, <1>7, <1>8, <1>9 DEF CaptureStep

(* The clock, the faults and the end of the connection.                     *)
LEMMA FaultsOK ==
  ASSUME CaptureInv, Deadline \/ Killed \/ HangUp, UNCHANGED updates
  PROVE  CaptureInv'
<1>1. /\ file \in Seq(Frames(Len(updates))) /\ Consecutive(file)
      /\ out \in Seq(Frames(Len(updates))) /\ Consecutive(out)
      /\ capture = [pc |-> capture.pc, late |-> capture.late, good |-> capture.good]
      /\ Len(updates) \in Nat
  BY DEF CaptureInv, CaptureOK, Streaming
<1>2. CASE Deadline
  <2>1. /\ capture.pc \in {"loop", "read"} /\ UNCHANGED <<peer, inbox, out, file>>
        /\ capture' = [capture EXCEPT !.late = TRUE]
    BY <1>2 DEF Deadline
  <2>2. /\ capture'.pc = capture.pc /\ capture'.good = capture.good
        /\ capture' = [pc |-> capture'.pc, late |-> capture'.late, good |-> capture'.good]
    BY <1>1, <2>1
  <2> QED BY <1>1, <2>1, <2>2, MoveOnOK, Stages DEF CaptureEnded
<1>3. CASE Killed
  <2>1. file' \in Seq(Frames(Len(updates))) /\ Consecutive(file')
    BY <1>1, <1>3, CutOffConsecutive DEF Killed
  <2> QED BY <1>3, <2>1, ExitOK DEF Killed
<1>4. CASE HangUp
  <2>1. /\ peer' # "open" /\ UNCHANGED <<capture, inbox, out, file>>
    BY <1>4 DEF HangUp
  <2>2. CaptureOK'
    BY <2>1 DEF CaptureInv, CaptureOK
  <2>3. Streaming'
    BY <2>1 DEF CaptureInv, Streaming
  <2>4. Ready'
    BY <2>1 DEF CaptureInv, Ready, CaptureEnded
  <2> QED BY <2>2, <2>3, <2>4 DEF CaptureInv
<1> QED BY <1>2, <1>3, <1>4

(* A frame arrives.                                                         *)
LEMMA DeliverOK ==
  ASSUME CaptureInv, NEW frame, Deliver(frame), updates' \in Seq(Changes),
         Frames(Len(updates)) \subseteq Frames(Len(updates')),
         frame \in Frames(Len(updates')),
         NEW r, r = Append(out \o inbox, frame),
         Consecutive(out \o inbox) /\ UpTo(out \o inbox, Len(updates))
           => Consecutive(r) /\ UpTo(r, Len(updates'))
  PROVE  CaptureInv'
<1>1. /\ peer = "open" /\ inbox' = Append(inbox, frame)
      /\ UNCHANGED <<capture, peer, out, file>>
  BY DEF Deliver
<1>2. /\ out \in Seq(Frames(Len(updates))) /\ inbox \in Seq(Frames(Len(updates)))
      /\ file \in Seq(Frames(Len(updates)))
  BY DEF CaptureInv, CaptureOK
<1>3. /\ out \in Seq(Frames(Len(updates'))) /\ inbox \in Seq(Frames(Len(updates')))
      /\ file \in Seq(Frames(Len(updates')))
  BY <1>2, SeqWider
<1>4. inbox' \in Seq(Frames(Len(updates')))
  BY <1>1, <1>3
<1>5. CaptureOK'
  BY <1>1, <1>3, <1>4 DEF CaptureInv, CaptureOK
<1>6. out' \o inbox' = r
  BY <1>1, <1>2
<1>7. Streaming'
  <2>1. Consecutive(out) /\ Consecutive(file)
    BY DEF CaptureInv, Streaming
  <2>2. capture.good => Consecutive(r) /\ UpTo(r, Len(updates'))
    BY <1>1 DEF CaptureInv, Streaming
  <2> QED BY <1>1, <1>6, <2>1, <2>2 DEF Streaming
<1>8. Ready'
  BY <1>1 DEF CaptureInv, Ready, CaptureEnded
<1> QED BY <1>5, <1>7, <1>8 DEF CaptureInv

(* The market moves, seen or not.                                           *)
LEMMA PublishOK ==
  ASSUME CaptureInv, NEW change \in Changes, Publish(change)
  PROVE  CaptureInv'
<1>1. PICK n : n = Len(updates)
  OBVIOUS
<1>2. /\ updates' = Append(updates, change)
      /\ IF peer = "open" THEN Deliver(Frame("update", n + 1)) ELSE UNCHANGED captureVars
  BY <1>1 DEF Publish
<1>3. n \in Nat /\ updates' \in Seq(Changes) /\ Len(updates') = n + 1
  BY <1>1, <1>2 DEF CaptureInv, CaptureOK
<1>4. Frames(n) \subseteq Frames(n + 1) /\ Frame("update", n + 1) \in Frames(n + 1)
  BY <1>3, FramesGrow
<1>5. /\ out \in Seq(Frames(n)) /\ inbox \in Seq(Frames(n)) /\ file \in Seq(Frames(n))
  BY <1>1 DEF CaptureInv, CaptureOK
<1>6. CASE peer = "open"
  <2>1. PICK r : r = Append(out \o inbox, Frame("update", n + 1))
    OBVIOUS
  <2>2. out \o inbox \in Seq(Frames(n))
    BY <1>5
  <2>3. Consecutive(out \o inbox) /\ UpTo(out \o inbox, n)
          => Consecutive(r) /\ UpTo(r, n + 1)
    BY <1>3, <2>1, <2>2, NextUpdate
  <2> QED BY <1>1, <1>2, <1>3, <1>4, <1>6, <2>1, <2>3, DeliverOK
<1>7. CASE peer # "open"
  <2>1. UNCHANGED <<capture, peer, inbox, out, file>>
    BY <1>2, <1>7 DEF captureVars
  <2>2. /\ out \in Seq(Frames(n + 1)) /\ inbox \in Seq(Frames(n + 1))
        /\ file \in Seq(Frames(n + 1))
    BY <1>4, <1>5, SeqWider
  <2>3. CaptureOK'
    BY <1>3, <2>1, <2>2 DEF CaptureInv, CaptureOK
  <2>4. Streaming'
    BY <1>7, <2>1 DEF CaptureInv, Streaming
  <2>5. Ready'
    BY <2>1 DEF CaptureInv, Ready, CaptureEnded
  <2> QED BY <2>3, <2>4, <2>5 DEF CaptureInv
<1> QED BY <1>6, <1>7

(* The stream carries something else.                                       *)
LEMMA SendNoticeOK ==
  ASSUME CaptureInv, SendNotice
  PROVE  CaptureInv'
<1>1. PICK frame \in {Frame("notice", k) : k \in DOMAIN Notices} \cup {Blank} :
        Deliver(frame)
  BY DEF SendNotice
<1>2. UNCHANGED updates
  BY DEF SendNotice, externalVars
<1>3. Len(updates) \in Nat /\ updates \in Seq(Changes)
  BY DEF CaptureInv, CaptureOK
<1>4. frame \in Frames(Len(updates)) /\ frame.kind # "update"
  <2>1. frame \in Frames(Len(updates))
    BY <1>3, FramesGrow
  <2> QED BY <2>1 DEF Frame, Blank
<1>5. PICK r : r = Append(out \o inbox, frame)
  OBVIOUS
<1>6. out \o inbox \in Seq(Frames(Len(updates)))
  BY DEF CaptureInv, CaptureOK
<1>7. Consecutive(out \o inbox) /\ UpTo(out \o inbox, Len(updates))
        => Consecutive(r) /\ UpTo(r, Len(updates'))
  BY <1>2, <1>4, <1>5, <1>6, OtherFrame
<1>8. Len(updates') = Len(updates)
  BY <1>2
<1> QED BY <1>1, <1>2, <1>3, <1>4, <1>5, <1>7, <1>8, DeliverOK

(* Before anything happens.                                                 *)
LEMMA CaptureInitOK ==
  ASSUME CaptureInit, updates = <<>>
  PROVE  CaptureInv
<1>1. /\ capture = At("sni") /\ peer = "away" /\ inbox = <<>> /\ out = <<>> /\ file = <<>>
  BY DEF CaptureInit
<1>2. /\ capture.pc = "sni" /\ capture.good = TRUE
      /\ capture = [pc |-> capture.pc, late |-> capture.late, good |-> capture.good]
  BY <1>1 DEF At
<1>3. CaptureOK
  BY <1>1, <1>2, EmptyStream DEF CaptureOK
<1>4. Streaming
  BY <1>1, <1>2, EmptyStream DEF Streaming
<1>5. Ready
  BY <1>1, <1>2, Stages DEF Ready, CaptureEnded
<1> QED BY <1>3, <1>4, <1>5 DEF CaptureInv

(* The programs that only read do not touch it.                             *)
LEMMA CaptureStutterOK ==
  ASSUME CaptureInv, UNCHANGED captureVars, UNCHANGED updates
  PROVE  CaptureInv'
<1>1. UNCHANGED <<capture, peer, inbox, out, file>>
  BY DEF captureVars
<1>2. CaptureOK'
  BY <1>1 DEF CaptureInv, CaptureOK
<1>3. Streaming'
  BY <1>1 DEF CaptureInv, Streaming
<1>4. Ready'
  BY <1>1 DEF CaptureInv, Ready, CaptureEnded
<1> QED BY <1>2, <1>3, <1>4 DEF CaptureInv

-----------------------------------------------------------------------------
(* The lines of a file, parsed one by one                                   *)

(* What each kind of line is for the parser.                                *)
LEMMA DocumentsAre ==
  ASSUME updates \in Seq(Changes), NEW f \in Frames(Len(updates))
  PROVE  /\ Document(f).kind = "blank" <=> f.kind = "blank"
         /\ f.kind = "update" =>
              /\ f.n \in 1 .. Len(updates)
              /\ parse_binance_depth_update(Document(f))
                   = Ok([finalUpdateId |-> f.n, levels |-> updates[f.n]])
         /\ f.kind \in {"notice", "torn"} => ~parse_binance_depth_update(Document(f)).ok
         /\ f.kind \in {"update", "notice", "blank", "torn"}
         /\ f.kind = "blank" <=> f = Blank
<1>1. Len(updates) \in Nat
  OBVIOUS
<1>2. /\ f.kind = "update" => f.n \in 1 .. Len(updates) /\ f = Frame("update", f.n)
      /\ f.kind \in {"update", "notice", "blank", "torn"}
      /\ f.kind = "notice" => f.n \in DOMAIN Notices /\ f = Frame("notice", f.n)
      /\ f.kind = "blank" <=> f = Blank
  BY <1>1, FramesAre
<1>3. CASE f.kind = "update"
  <2>1. Document(f) = [kind |-> "object", id |-> Number(f.n),
                       bids |-> Encoded(updates[f.n]["BID"]),
                       asks |-> Encoded(updates[f.n]["ASK"])]
    BY <1>3 DEF Document
  <2>2. updates[f.n] \in Changes
    BY <1>2, <1>3
  <2>3. updates[f.n] \in Change
    BY <2>2, MarketAssumption DEF Change, Entry
  <2>4. parse_binance_depth_update(Document(f))
          = Ok([finalUpdateId |-> f.n, levels |-> updates[f.n]])
    BY <2>1, <2>3, DocumentParses
  <2>5. Document(f).kind = "object"
    BY <2>1
  <2> QED BY <1>2, <1>3, <2>4, <2>5
<1>4. CASE f.kind = "notice"
  <2>1. Document(f) = Notices[f.n] /\ f.n \in DOMAIN Notices
    BY <1>2, <1>4 DEF Document
  <2>2. Notices[f.n].kind # "blank" /\ ~parse_binance_depth(Notices[f.n]).ok
    BY <2>1, MarketAssumption
  <2>3. ~(Notices[f.n].kind = "object" /\ parse_sides(Notices[f.n]).ok)
    BY <2>2, Zenon DEF parse_binance_depth, Ok
  <2>4. parse_binance_depth_update(Notices[f.n]) = Error
    BY <2>3, Zenon DEF parse_binance_depth_update
  <2> QED BY <1>2, <1>4, <2>1, <2>2, <2>4 DEF Error
<1>5. CASE f.kind \in {"blank", "torn"}
  <2>1. Document(f).kind = f.kind
    BY <1>5 DEF Document
  <2>2. parse_binance_depth_update(Document(f)) = Error
    BY <1>5, <2>1 DEF parse_binance_depth_update
  <2> QED BY <1>2, <1>5, <2>1, <2>2 DEF Error
<1> QED BY <1>2, <1>3, <1>4, <1>5

Update == [finalUpdateId : Nat, levels : Change]

(* The first m lines fs were parsed into feed.                              *)
Fed(feed, fs, m) ==
  /\ \A j \in 1 .. m : fs[j].kind \in {"update", "blank"}
  /\ Len(feed) = Cardinality({j \in 1 .. m : fs[j] # Blank})
  /\ \A k \in 1 .. Len(feed) :
       LET n == feed[1].finalUpdateId + k - 1
       IN  /\ n \in 1 .. Len(updates)
           /\ feed[k] = [finalUpdateId |-> n, levels |-> updates[n]]
  /\ feed # <<>> =>
       \E j \in 1 .. m :
         /\ fs[j].kind = "update"
         /\ fs[j].n = feed[1].finalUpdateId + Len(feed) - 1
         /\ \A i \in j + 1 .. m : fs[i].kind # "update"

(* Nothing was parsed yet.                                                  *)
LEMMA FedNothing ==
  ASSUME NEW fs
  PROVE  Fed(<<>>, fs, 0)
<1>1. {j \in 1 .. 0 : fs[j] # Blank} = {}
  OBVIOUS
<1>2. Cardinality({}) = 0
  BY FS_EmptySet
<1> QED BY <1>1, <1>2 DEF Fed

(* One more line to count, or not.                                          *)
LEMMA CountLine ==
  ASSUME NEW fs, NEW m \in Nat
  PROVE  Cardinality({j \in 1 .. m + 1 : fs[j] # Blank})
           = IF fs[m + 1] # Blank THEN Cardinality({j \in 1 .. m : fs[j] # Blank}) + 1
                                  ELSE Cardinality({j \in 1 .. m : fs[j] # Blank})
<1>1. PICK S : S = {j \in 1 .. m : fs[j] # Blank}
  OBVIOUS
<1>2. IsFiniteSet(1 .. m)
  BY FS_Interval
<1>3. S \in SUBSET (1 .. m)
  BY <1>1
<1>4. IsFiniteSet(S)
  BY <1>2, <1>3, FS_Subset
<1>5. m + 1 \notin S
  BY <1>1
<1>6. CASE fs[m + 1] # Blank
  <2>1. {j \in 1 .. m + 1 : fs[j] # Blank} = S \cup {m + 1}
    BY <1>1, <1>6
  <2>2. Cardinality(S \cup {m + 1}) = Cardinality(S) + 1
    BY <1>4, <1>5, FS_AddElement
  <2> QED BY <1>1, <1>6, <2>1, <2>2
<1>7. CASE fs[m + 1] = Blank
  <2>1. {j \in 1 .. m + 1 : fs[j] # Blank} = S
    BY <1>1, <1>7
  <2> QED BY <1>1, <1>7, <2>1
<1> QED BY <1>6, <1>7

(* A blank line.                                                            *)
LEMMA FedBlank ==
  ASSUME NEW feed, NEW fs, NEW m \in Nat, Fed(feed, fs, m), fs[m + 1] = Blank
  PROVE  Fed(feed, fs, m + 1)
<1>1. fs[m + 1].kind = "blank"
  BY DEF Blank, Frame
<1>2. \A j \in 1 .. m + 1 : fs[j].kind \in {"update", "blank"}
  <2> SUFFICES ASSUME NEW j \in 1 .. m + 1 PROVE fs[j].kind \in {"update", "blank"}
    OBVIOUS
  <2>1. j \in 1 .. m \/ j = m + 1
    OBVIOUS
  <2> QED BY <1>1, <2>1 DEF Fed
<1>3. Len(feed) = Cardinality({j \in 1 .. m + 1 : fs[j] # Blank})
  BY CountLine DEF Fed
<1>4. ASSUME feed # <<>>
      PROVE  \E j \in 1 .. m + 1 :
               /\ fs[j].kind = "update"
               /\ fs[j].n = feed[1].finalUpdateId + Len(feed) - 1
               /\ \A i \in j + 1 .. m + 1 : fs[i].kind # "update"
  <2>1. PICK j \in 1 .. m : /\ fs[j].kind = "update"
                            /\ fs[j].n = feed[1].finalUpdateId + Len(feed) - 1
                            /\ \A i \in j + 1 .. m : fs[i].kind # "update"
    BY <1>4 DEF Fed
  <2>2. ASSUME NEW i \in j + 1 .. m + 1 PROVE fs[i].kind # "update"
    <3>1. i \in j + 1 .. m \/ i = m + 1
      OBVIOUS
    <3> QED BY <1>1, <2>1, <3>1
  <2>3. j \in 1 .. m + 1
    OBVIOUS
  <2> QED BY <2>1, <2>2, <2>3
<1> QED BY <1>2, <1>3, <1>4 DEF Fed

(* An update: the one after the last.                                       *)
LEMMA FedUpdate ==
  ASSUME NEW feed \in Seq(Update), NEW fs, NEW m \in Nat, Fed(feed, fs, m),
         Consecutive(fs), m + 1 \in 1 .. Len(fs), Len(fs) \in Nat, Len(updates) \in Nat,
         fs[m + 1].kind = "update", fs[m + 1].n \in 1 .. Len(updates),
         NEW r, r = Append(feed, [finalUpdateId |-> fs[m + 1].n,
                                  levels |-> updates[fs[m + 1].n]])
  PROVE  Fed(r, fs, m + 1)
<1>1. PICK n : n = fs[m + 1].n
  OBVIOUS
<1>2. /\ Len(feed) \in Nat /\ Len(r) = Len(feed) + 1 /\ r # <<>>
      /\ \A k \in 1 .. Len(feed) : r[k] = feed[k]
      /\ r[Len(feed) + 1] = [finalUpdateId |-> n, levels |-> updates[n]]
      /\ n \in 1 .. Len(updates)
  BY <1>1
<1>3. r[1].finalUpdateId + Len(feed) = n
  <2>1. CASE feed = <<>>
    BY <1>2, <2>1
  <2>2. CASE feed # <<>>
    <3>1. PICK j \in 1 .. m : /\ fs[j].kind = "update"
                              /\ fs[j].n = feed[1].finalUpdateId + Len(feed) - 1
                              /\ \A i \in j + 1 .. m : fs[i].kind # "update"
      BY <2>2 DEF Fed
    <3>2. j \in 1 .. Len(fs) /\ j < m + 1 /\ m + 1 - 1 = m
      OBVIOUS
    <3>3. fs[m + 1].n = fs[j].n + 1
      BY <3>1, <3>2 DEF Consecutive
    <3>4. r[1] = feed[1] /\ feed[1] \in Update
      BY <1>2, <2>2
    <3>5. feed[1].finalUpdateId \in Nat
      BY <3>4 DEF Update
    <3> QED BY <1>1, <1>2, <3>1, <3>3, <3>4, <3>5
  <2> QED BY <2>1, <2>2
<1>4. \A j \in 1 .. m + 1 : fs[j].kind \in {"update", "blank"}
  <2> SUFFICES ASSUME NEW j \in 1 .. m + 1 PROVE fs[j].kind \in {"update", "blank"}
    OBVIOUS
  <2>1. j \in 1 .. m \/ j = m + 1
    OBVIOUS
  <2> QED BY <2>1 DEF Fed
<1>5. Len(r) = Cardinality({j \in 1 .. m + 1 : fs[j] # Blank})
  <2>1. fs[m + 1] # Blank
    BY DEF Blank, Frame
  <2>2. PICK c : c = Cardinality({j \in 1 .. m : fs[j] # Blank})
    OBVIOUS
  <2>3. Cardinality({j \in 1 .. m + 1 : fs[j] # Blank}) = c + 1
    BY <2>1, <2>2, CountLine
  <2>4. Len(feed) = c
    BY <2>2 DEF Fed
  <2> QED BY <1>2, <2>3, <2>4
<1>6. ASSUME NEW k \in 1 .. Len(r)
      PROVE  /\ r[1].finalUpdateId + k - 1 \in 1 .. Len(updates)
             /\ r[k] = [finalUpdateId |-> r[1].finalUpdateId + k - 1,
                        levels |-> updates[r[1].finalUpdateId + k - 1]]
  <2>1. CASE k \in 1 .. Len(feed)
    <3>1. feed # <<>> /\ r[1] = feed[1] /\ r[k] = feed[k]
      BY <1>2, <2>1
    <3> QED BY <2>1, <3>1 DEF Fed
  <2>2. CASE k = Len(feed) + 1
    <3>1. r[1].finalUpdateId \in Nat
      <4>1. CASE feed = <<>>
        <5>1. r[1] = [finalUpdateId |-> n, levels |-> updates[n]]
          BY <1>2, <4>1
        <5> QED BY <1>2, <5>1
      <4>2. CASE feed # <<>>
        <5>1. r[1] = feed[1] /\ feed[1] \in Update
          BY <1>2, <4>2
        <5> QED BY <5>1 DEF Update
      <4> QED BY <4>1, <4>2
    <3>2. r[1].finalUpdateId + k - 1 = n
      BY <1>2, <1>3, <2>2, <3>1
    <3> QED BY <1>2, <2>2, <3>2
  <2>3. k \in 1 .. Len(feed) \/ k = Len(feed) + 1
    BY <1>2
  <2> QED BY <2>1, <2>2, <2>3
<1>7. \E j \in 1 .. m + 1 :
        /\ fs[j].kind = "update"
        /\ fs[j].n = r[1].finalUpdateId + Len(r) - 1
        /\ \A i \in j + 1 .. m + 1 : fs[i].kind # "update"
  <2>1. m + 1 \in 1 .. m + 1 /\ \A i \in m + 1 + 1 .. m + 1 : FALSE
    OBVIOUS
  <2>2. n = r[1].finalUpdateId + Len(r) - 1
    BY <1>2, <1>3
  <2> QED BY <1>1, <2>1, <2>2
<1> QED BY <1>4, <1>5, <1>6, <1>7 DEF Fed

-----------------------------------------------------------------------------
(* The replay's inputs.  From the moment the replay reads them, nothing     *)
(* writes to the snapshot and the file any more.                            *)

Item == [side : Sides, price : Prices, volume : Volumes]

ReplayOK ==
  /\ replay = [mode |-> replay.mode, pc |-> replay.pc, snap |-> replay.snap,
               line_no |-> replay.line_no, feed |-> replay.feed,
               next |-> replay.next, todo |-> replay.todo, pass |-> replay.pass]
  /\ replay.line_no \in Nat
  /\ replay.feed \in Seq(Update)
  /\ replay.next \in 1 .. Len(replay.feed) + 1
  /\ replay.todo \in Seq(Item)
  /\ saved \in -1 .. Len(updates)

(* The snapshot has been parsed, and line_no lines.                         *)
Loaded ==
  /\ replay.snap = [lastUpdateId |-> saved, levels |-> Snapshot(saved)]
  /\ Fed(replay.feed, file, replay.line_no)
  /\ replay.line_no <= Len(file)

Refusing ==
  /\ replay.line_no \in 1 .. Len(file)
  /\ file[replay.line_no].kind \in {"torn", "notice"}
  /\ \A j \in 1 .. replay.line_no - 1 : file[j].kind \in {"update", "blank"}

(* What is true at each stage of the replay.                                *)
Stage ==
  /\ replay.pc \in {"load", "parse", "run", "passed", "abort"}
  /\ replay.pc # "load" => Replaying /\ CaptureEnded /\ saved # -1
  /\ replay.pc = "load" => replay.line_no = 0 /\ replay.feed = <<>>
  /\ replay.pc \in {"load", "parse"} => replay.next = 1 /\ replay.todo = <<>>
  /\ replay.pc \in {"parse", "run", "passed"} => Loaded
  /\ replay.pc \in {"run", "passed"} => replay.line_no = Len(file)
  /\ replay.pc = "passed" => replay.next = Len(replay.feed) + 1 /\ replay.todo = <<>>
  /\ replay.pc = "abort" => Refusing

ReplayInv == ReplayOK /\ Stage

(* Updates are changes.                                                     *)
LEMMA ChangesAre ==
  ASSUME updates \in Seq(Changes)
  PROVE  updates \in Seq(Change)
<1>1. \A c \in Changes : c \in Change
  BY MarketAssumption DEF Change, Entry
<1> QED BY <1>1

(* The entries of a change, in the order of the loops over them.            *)
LEMMA InOrderType ==
  ASSUME NEW c \in Change
  PROVE  InOrder(c) \in Seq(Item)
<1> DEFINE Entries(side) == [k \in DOMAIN c[side] |->
                               [side |-> side, price |-> c[side][k].price,
                                volume |-> c[side][k].volume]]
<1>1. ASSUME NEW side \in Sides PROVE Entries(side) \in Seq(Item)
  <2>1. c[side] \in Seq(Entry)
    BY DEF Change
  <2>2. \A k \in DOMAIN c[side] : c[side][k].price \in Prices /\ c[side][k].volume \in Volumes
    <3>1. \A k \in DOMAIN c[side] : c[side][k] \in Entry
      BY <2>1
    <3> QED BY <3>1 DEF Entry
  <2>3. \A k \in DOMAIN c[side] : Entries(side)[k] \in Item
    BY <2>2 DEF Item
  <2>4. DOMAIN c[side] = 1 .. Len(c[side]) /\ Len(c[side]) \in Nat
    BY <2>1
  <2>5. PICK n : n = Len(c[side])
    OBVIOUS
  <2>6. Entries(side) \in [1 .. n -> Item] /\ n \in Nat
    BY <2>3, <2>4, <2>5
  <2> HIDE DEF Entries
  <2> QED BY <2>6
<1>2. Entries("BID") \in Seq(Item) /\ Entries("ASK") \in Seq(Item)
  BY <1>1 DEF Sides
<1>3. InOrder(c) = Entries("BID") \o Entries("ASK")
  BY DEF InOrder
<1> HIDE DEF Entries
<1> QED BY <1>2, <1>3

(* The replay does not move, and its inputs do not change while it uses     *)
(* them.                                                                    *)
LEMMA ReplayWaitsOK ==
  ASSUME ReplayInv, UNCHANGED <<replay, program>>, saved' \in -1 .. Len(updates'),
         Replaying /\ CaptureEnded /\ saved # -1 => UNCHANGED <<capture, file, updates, saved>>
  PROVE  ReplayInv'
<1>1. ReplayOK'
  BY DEF ReplayInv, ReplayOK
<1>2. CASE replay.pc = "load"
  <2>1. Stage'
    BY <1>2 DEF ReplayInv, Stage
  <2> QED BY <1>1, <2>1 DEF ReplayInv
<1>3. CASE replay.pc # "load"
  <2>1. UNCHANGED <<capture, file, updates, saved, replay, program>>
    BY <1>3 DEF ReplayInv, Stage
  <2>2. Loaded' <=> Loaded
    BY <2>1 DEF Loaded, Fed, Snapshot, LiveLevels, Market
  <2>3. Refusing' <=> Refusing
    BY <2>1 DEF Refusing
  <2>4. (Replaying /\ CaptureEnded)' <=> (Replaying /\ CaptureEnded)
    BY <2>1 DEF Replaying, CaptureEnded
  <2> QED BY <1>1, <2>1, <2>2, <2>3, <2>4 DEF ReplayInv, Stage
<1> QED BY <1>1, <1>2, <1>3 DEF ReplayInv

(* The saved snapshot is a snapshot: it always parses.                      *)
LEMMA LoadSnapshotOK ==
  ASSUME ReplayInv, updates \in Seq(Changes), Replaying, CaptureEnded, saved # -1,
         file \in Seq(Frames(Len(updates))),
         LoadSnapshot(SnapshotDocument(saved)),
         UNCHANGED <<capture, file, updates, saved, program>>
  PROVE  /\ ReplayInv'
         /\ replay' = [replay EXCEPT !.pc = "parse",
                         !.snap = [lastUpdateId |-> saved, levels |-> Snapshot(saved)]]
<1>1. updates \in Seq(Change)
  BY ChangesAre
<1>2. saved \in Nat /\ saved <= Len(updates) /\ Len(file) \in Nat
  BY DEF ReplayInv, ReplayOK
<1>3. PICK doc : doc = SnapshotDocument(saved)
  OBVIOUS
<1>4. parse_binance_depth(doc) = Ok([lastUpdateId |-> saved, levels |-> Snapshot(saved)])
  BY <1>1, <1>2, <1>3, SnapshotIsMarket
<1>5. /\ parse_binance_depth(doc).ok
      /\ parse_binance_depth(doc).value = [lastUpdateId |-> saved, levels |-> Snapshot(saved)]
  BY <1>4 DEF Ok
<1>6. /\ replay.pc = "load"
      /\ replay' = [replay EXCEPT !.pc = "parse",
                      !.snap = [lastUpdateId |-> saved, levels |-> Snapshot(saved)]]
  BY <1>3, <1>5, Zenon DEF LoadSnapshot
<1>7. /\ replay.line_no = 0 /\ replay.feed = <<>>
      /\ replay.next = 1 /\ replay.todo = <<>>
  BY <1>6 DEF ReplayInv, Stage
<1>8. /\ ReplayOK'
      /\ replay'.pc = "parse"
      /\ replay'.snap = [lastUpdateId |-> saved, levels |-> Snapshot(saved)]
      /\ replay'.line_no = 0 /\ replay'.feed = <<>>
      /\ replay'.next = 1 /\ replay'.todo = <<>>
  BY <1>6, <1>7 DEF ReplayInv, ReplayOK
<1>9. Snapshot(saved)' = Snapshot(saved)
  BY DEF Snapshot, LiveLevels, Market
<1>10. Fed(<<>>, file', 0)
  BY FedNothing
<1>11. Fed(<<>>, file, 0)'
  BY <1>10 DEF Fed
<1>12. Loaded'
  BY <1>2, <1>8, <1>9, <1>11 DEF Loaded
<1>13. (Replaying /\ CaptureEnded)'
  BY DEF Replaying, CaptureEnded
<1> QED BY <1>6, <1>8, <1>12, <1>13 DEF ReplayInv, Stage

(* One line more, or the end.                                               *)
LEMMA ParseLineOK ==
  ASSUME ReplayInv, updates \in Seq(Changes), file \in Seq(Frames(Len(updates))),
         Consecutive(file), Replaying, CaptureEnded, saved # -1, ParseLine(Lines),
         UNCHANGED <<capture, file, updates, saved, program>>
  PROVE  ReplayInv'
<1>1. PICK m : m = replay.line_no + 1
  OBVIOUS
<1>2. /\ replay.pc = "parse" /\ Loaded
      /\ replay.line_no \in Nat /\ replay.line_no = m - 1
      /\ Len(file) \in Nat /\ Len(updates) \in Nat
      /\ replay.next = 1 /\ replay.todo = <<>>
  BY <1>1 DEF ReplayInv, ReplayOK, Stage, ParseLine
<1>3. /\ m \in 1 .. Len(file)
      /\ Lines[m] = Document(file[m])
      /\ file[m] \in Frames(Len(updates))
  <2>1. Len(Lines) = Len(file) /\ DOMAIN file = 1 .. Len(file)
    BY <1>2 DEF Lines
  <2>2. m \in 1 .. Len(file)
    BY <1>1, <1>2, <2>1 DEF ParseLine
  <2> QED BY <2>1, <2>2 DEF Lines
<1>4. /\ Document(file[m]).kind = "blank" <=> file[m].kind = "blank"
      /\ file[m].kind = "update" =>
           /\ file[m].n \in 1 .. Len(updates)
           /\ parse_binance_depth_update(Document(file[m]))
                = Ok([finalUpdateId |-> file[m].n, levels |-> updates[file[m].n]])
      /\ file[m].kind \in {"notice", "torn"}
           => ~parse_binance_depth_update(Document(file[m])).ok
      /\ file[m].kind \in {"update", "notice", "blank", "torn"}
      /\ file[m].kind = "blank" <=> file[m] = Blank
  BY <1>3, DocumentsAre
<1>5. PICK read : read = [replay EXCEPT !.line_no = @ + 1]
  OBVIOUS
<1>6. \/ /\ file[m].kind = "blank" /\ replay' = read
      \/ /\ file[m].kind = "update"
         /\ replay' = [read EXCEPT !.feed = Append(@, [finalUpdateId |-> file[m].n,
                                                       levels |-> updates[file[m].n]])]
      \/ /\ file[m].kind \in {"notice", "torn"}
         /\ replay' = [read EXCEPT !.pc = "abort"]
  <2>1. \/ /\ Document(file[m]).kind = "blank"
           /\ replay' = read
        \/ /\ Document(file[m]).kind # "blank"
           /\ replay' = IF parse_binance_depth_update(Document(file[m])).ok
                THEN [read EXCEPT !.feed =
                        Append(@, parse_binance_depth_update(Document(file[m])).value)]
                ELSE [read EXCEPT !.pc = "abort"]
    BY <1>1, <1>3, <1>5, Zenon DEF ParseLine
  <2>2. CASE file[m].kind = "blank"
    BY <1>4, <2>1, <2>2
  <2>3. CASE file[m].kind = "update"
    <3>1. PICK u : u = [finalUpdateId |-> file[m].n, levels |-> updates[file[m].n]]
      OBVIOUS
    <3>2. /\ parse_binance_depth_update(Document(file[m])).ok
          /\ parse_binance_depth_update(Document(file[m])).value = u
      BY <1>4, <2>3, <3>1 DEF Ok
    <3>3. Document(file[m]).kind # "blank"
      BY <1>4, <2>3
    <3>4. replay' = [read EXCEPT !.feed = Append(@, u)]
      BY <2>1, <3>2, <3>3, Zenon
    <3> QED BY <2>3, <3>1, <3>4
  <2>4. CASE file[m].kind \in {"notice", "torn"}
    <3>1. Document(file[m]).kind # "blank"
      BY <1>4, <2>4
    <3>2. ~parse_binance_depth_update(Document(file[m])).ok
      BY <1>4, <2>4
    <3>3. replay' = [read EXCEPT !.pc = "abort"]
      BY <2>1, <3>1, <3>2, Zenon
    <3> QED BY <2>4, <3>3
  <2> QED BY <1>4, <2>2, <2>3, <2>4
<1>7. /\ read = [mode |-> replay.mode, pc |-> replay.pc, snap |-> replay.snap,
                 line_no |-> m, feed |-> replay.feed,
                 next |-> replay.next, todo |-> replay.todo, pass |-> replay.pass]
      /\ replay.feed \in Seq(Update)
  BY <1>1, <1>5 DEF ReplayInv, ReplayOK
<1>8. /\ Snapshot(saved)' = Snapshot(saved)
      /\ (Replaying /\ CaptureEnded)'
  BY DEF Snapshot, LiveLevels, Market, Replaying, CaptureEnded
<1>9. CASE file[m].kind = "blank" /\ replay' = read
  <2>1. Fed(replay.feed, file, m)
    <3>1. Fed(replay.feed, file, m - 1) /\ m - 1 \in Nat /\ m - 1 + 1 = m
      BY <1>2, <1>3 DEF Loaded
    <3>2. file[m - 1 + 1] = Blank
      BY <1>4, <1>9, <3>1
    <3>3. Fed(replay.feed, file, m - 1 + 1)
      BY <3>1, <3>2, FedBlank
    <3> QED BY <3>1, <3>3
  <2>2. Fed(replay.feed, file, m)'
    BY <1>7, <1>9, <2>1, <1>1 DEF Fed
  <2> QED BY <1>2, <1>3, <1>7, <1>8, <1>9, <2>2 DEF ReplayInv, ReplayOK, Stage, Loaded
<1>10. CASE /\ file[m].kind = "update"
            /\ replay' = [read EXCEPT !.feed = Append(@, [finalUpdateId |-> file[m].n,
                                                          levels |-> updates[file[m].n]])]
  <2>1. PICK r : r = Append(replay.feed, [finalUpdateId |-> file[m].n,
                                          levels |-> updates[file[m].n]])
    OBVIOUS
  <2>2. file[m].n \in 1 .. Len(updates)
    BY <1>4, <1>10
  <2>3. r \in Seq(Update) /\ Len(r) = Len(replay.feed) + 1
    <3>1. updates[file[m].n] \in Change
      BY <2>2, ChangesAre
    <3>2. [finalUpdateId |-> file[m].n, levels |-> updates[file[m].n]] \in Update
      BY <2>2, <3>1 DEF Update
    <3> QED BY <1>7, <2>1, <3>2
  <2>4. Fed(r, file, m)
    <3>1. Fed(replay.feed, file, m - 1) /\ m - 1 \in Nat /\ m - 1 + 1 = m
      BY <1>2, <1>3 DEF Loaded
    <3>2. Fed(r, file, m - 1 + 1)
      BY <1>2, <1>3, <1>7, <1>10, <2>1, <2>2, <3>1, FedUpdate
    <3> QED BY <3>1, <3>2
  <2>5. replay' = [mode |-> replay.mode, pc |-> replay.pc, snap |-> replay.snap,
                   line_no |-> m, feed |-> r,
                   next |-> replay.next, todo |-> replay.todo, pass |-> replay.pass]
    BY <1>7, <1>10, <2>1
  <2>6. Fed(replay.feed, file, replay.line_no)'
    <3>1. replay'.feed = r /\ replay'.line_no = m /\ file' = file /\ updates' = updates
      BY <2>5
    <3> QED BY <2>4, <3>1, ZenonT(30) DEF Fed
  <2> QED BY <1>2, <1>3, <1>7, <1>8, <2>3, <2>5, <2>6 DEF ReplayInv, ReplayOK, Stage, Loaded
<1>11. CASE file[m].kind \in {"notice", "torn"} /\ replay' = [read EXCEPT !.pc = "abort"]
  <2>1. \A j \in 1 .. m - 1 : file[j].kind \in {"update", "blank"}
    BY <1>2 DEF Loaded, Fed
  <2>2. replay' = [mode |-> replay.mode, pc |-> "abort", snap |-> replay.snap,
                   line_no |-> m, feed |-> replay.feed,
                   next |-> replay.next, todo |-> replay.todo, pass |-> replay.pass]
    BY <1>7, <1>11
  <2>3. Refusing'
    BY <1>3, <1>11, <2>1, <2>2 DEF Refusing
  <2>4. ReplayOK'
    BY <1>3, <1>7, <2>2 DEF ReplayInv, ReplayOK
  <2> QED BY <1>8, <2>2, <2>3, <2>4 DEF Stage, ReplayInv
<1> QED BY <1>6, <1>9, <1>10, <1>11

(* A step of the passes: replay keeps its inputs.                           *)
Moves(pc, next, todo) ==
  \E mode, pass :
    replay' = [mode |-> mode, pc |-> pc, snap |-> replay.snap,
               line_no |-> replay.line_no, feed |-> replay.feed,
               next |-> next, todo |-> todo, pass |-> pass]

(* It needs the inputs to be complete.                                      *)
LEMMA SameInputs ==
  ASSUME ReplayInv, Replaying, CaptureEnded, saved # -1,
         UNCHANGED <<capture, file, updates, saved, program>>,
         replay.pc \in {"parse", "run", "passed"},
         replay.pc = "parse" => replay.line_no = Len(file),
         NEW pc \in {"run", "passed"}, NEW next \in 1 .. Len(replay.feed) + 1,
         NEW todo \in Seq(Item), Moves(pc, next, todo),
         pc = "passed" => next = Len(replay.feed) + 1 /\ todo = <<>>
  PROVE  ReplayInv'
<1>1. ReplayOK'
  BY DEF ReplayInv, ReplayOK, Moves
<1>2. /\ replay'.snap = replay.snap /\ replay'.feed = replay.feed
      /\ replay'.line_no = replay.line_no
      /\ replay'.pc = pc /\ replay'.next = next /\ replay'.todo = todo
  BY DEF Moves
<1>3. Loaded /\ replay.line_no = Len(file)
  BY DEF ReplayInv, Stage
<1>4. Loaded'
  BY <1>2, <1>3, ZenonT(30) DEF Loaded, Fed, Snapshot, LiveLevels, Market
<1>5. (Replaying /\ CaptureEnded)' /\ saved' # -1
  BY DEF Replaying, CaptureEnded
<1>6. replay'.line_no = Len(file')
  BY <1>2, <1>3
<1>7. Stage'
  BY <1>2, <1>4, <1>5, <1>6 DEF Stage
<1> QED BY <1>1, <1>7 DEF ReplayInv

(* The snapshot of a replay is a change, and so are the updates.            *)
LEMMA InputsAreChanges ==
  ASSUME ReplayInv, updates \in Seq(Changes), replay.pc \in {"parse", "run", "passed"}
  PROVE  /\ replay.snap = [lastUpdateId |-> saved, levels |-> Snapshot(saved)]
         /\ saved \in Nat /\ saved <= Len(updates)
         /\ replay.snap.levels \in Change
         /\ \A k \in 1 .. Len(replay.feed) : replay.feed[k].levels \in Change
<1>1. replay.snap = [lastUpdateId |-> saved, levels |-> Snapshot(saved)]
  BY DEF ReplayInv, Stage, Loaded
<1>2. saved \in Nat /\ saved <= Len(updates) /\ replay.feed \in Seq(Update)
  BY DEF ReplayInv, ReplayOK, Stage
<1>3. Snapshot(saved) \in Change
  BY <1>2, ChangesAre, SnapshotIsMarket
<1>4. \A k \in 1 .. Len(replay.feed) : replay.feed[k] \in Update
  BY <1>2
<1> QED BY <1>1, <1>2, <1>3, <1>4 DEF Update

(* The steps of the replay.                                                 *)
LEMMA ReplayStepOK ==
  ASSUME ReplayInv, updates \in Seq(Changes), file \in Seq(Frames(Len(updates))),
         Consecutive(file), ReplayStep
  PROVE  ReplayInv'
<1>1. /\ Replaying /\ CaptureEnded /\ saved # -1
      /\ UNCHANGED <<capture, file, updates, saved, program>>
  BY DEF ReplayStep, captureVars, externalVars
<1>2. /\ replay = [mode |-> replay.mode, pc |-> replay.pc, snap |-> replay.snap,
                   line_no |-> replay.line_no, feed |-> replay.feed,
                   next |-> replay.next, todo |-> replay.todo, pass |-> replay.pass]
      /\ replay.feed \in Seq(Update)
      /\ replay.next \in 1 .. Len(replay.feed) + 1
      /\ replay.todo \in Seq(Item)
      /\ Len(replay.feed) \in Nat
  BY DEF ReplayInv, ReplayOK
<1>3. CASE LoadSnapshot(SnapshotDocument(saved))
  BY <1>1, <1>3, LoadSnapshotOK
<1>4. CASE ParseLine(Lines)
  BY <1>1, <1>4, ParseLineOK
<1>5. CASE ParseEnd(Lines)
  <2>1. /\ replay.pc = "parse"
        /\ replay.line_no = Len(file)
    <3>1. file \in Seq(Frames(Len(updates))) /\ DOMAIN file = 1 .. Len(file)
      OBVIOUS
    <3>2. Len(Lines) = Len(file)
      BY <3>1 DEF Lines
    <3> QED BY <1>5, <3>2 DEF ParseEnd
  <2>2. PICK mode : replay' = [replay EXCEPT !.pc = "run", !.mode = mode,
                                 !.todo = InOrder(replay.snap.levels)]
    BY <1>5 DEF ParseEnd
  <2>3. PICK todo : todo = InOrder(replay.snap.levels)
    OBVIOUS
  <2>4. todo \in Seq(Item)
    BY <2>1, <2>3, InputsAreChanges, InOrderType
  <2>5. Moves("run", replay.next, todo)
    BY <1>2, <2>2, <2>3 DEF Moves
  <2> QED BY <1>1, <1>2, <2>1, <2>4, <2>5, SameInputs
<1>6. CASE SetNextLevel
  <2>1. replay.pc = "run" /\ replay.todo # <<>> /\ replay' = [replay EXCEPT !.todo = Tail(@)]
    BY <1>6 DEF SetNextLevel
  <2>2. PICK todo : todo = Tail(replay.todo)
    OBVIOUS
  <2>3. todo \in Seq(Item)
    BY <1>2, <2>1, <2>2
  <2>4. Moves("run", replay.next, todo)
    BY <1>2, <2>1, <2>2 DEF Moves
  <2> QED BY <1>1, <1>2, <2>1, <2>3, <2>4, SameInputs
<1>7. CASE Apply
  <2>1. /\ replay.pc = "run" /\ replay.next <= Len(replay.feed)
        /\ replay' = [replay EXCEPT !.next = @ + 1,
                        !.todo = InOrder(replay.feed[replay.next].levels)]
    BY <1>7 DEF Apply, Finished
  <2>2. PICK todo, next : /\ todo = InOrder(replay.feed[replay.next].levels)
                          /\ next = replay.next + 1
    OBVIOUS
  <2>3. replay.next \in 1 .. Len(replay.feed)
    BY <1>2, <2>1
  <2>4. replay.feed[replay.next].levels \in Change
    BY <2>1, <2>3, InputsAreChanges
  <2>5. todo \in Seq(Item) /\ next \in 1 .. Len(replay.feed) + 1
    BY <1>2, <2>2, <2>3, <2>4, InOrderType
  <2>6. Moves("run", next, todo)
    BY <1>2, <2>1, <2>2 DEF Moves
  <2> QED BY <1>1, <1>2, <2>1, <2>5, <2>6, SameInputs
<1>8. CASE PassEnd
  <2>1. /\ replay.pc = "run" /\ replay.next > Len(replay.feed) /\ replay.todo = <<>>
        /\ replay' = [replay EXCEPT !.pc = "passed", !.pass = @ + 1]
    BY <1>8 DEF PassEnd, Finished
  <2>2. PICK pass : replay' = [replay EXCEPT !.pc = "passed", !.pass = pass]
    BY <2>1
  <2>3. replay.next = Len(replay.feed) + 1
    BY <1>2, <2>1
  <2>4. Moves("passed", replay.next, replay.todo)
    BY <1>2, <2>2 DEF Moves
  <2> QED BY <1>1, <1>2, <2>1, <2>3, <2>4, SameInputs
<1>9. CASE NextPass
  <2>1. /\ replay.pc = "passed"
        /\ \/ replay' = [replay EXCEPT !.pc = "run", !.next = 1]
           \/ replay' = [replay EXCEPT !.pc = "run", !.next = 1,
                                       !.todo = InOrder(replay.snap.levels)]
    BY <1>9 DEF NextPass
  <2>2. PICK todo : /\ todo \in Seq(Item)
                    /\ replay' = [replay EXCEPT !.pc = "run", !.next = 1, !.todo = todo]
    <3>1. CASE replay' = [replay EXCEPT !.pc = "run", !.next = 1]
      <4>1. replay' = [replay EXCEPT !.pc = "run", !.next = 1, !.todo = replay.todo]
        BY <1>2, <3>1
      <4> QED BY <1>2, <4>1
    <3>2. CASE replay' = [replay EXCEPT !.pc = "run", !.next = 1,
                                        !.todo = InOrder(replay.snap.levels)]
      BY <2>1, <3>2, InputsAreChanges, InOrderType
    <3> QED BY <2>1, <3>1, <3>2
  <2>3. Moves("run", 1, todo)
    BY <1>2, <2>2 DEF Moves
  <2>4. 1 \in 1 .. Len(replay.feed) + 1
    BY <1>2
  <2> QED BY <1>1, <1>2, <2>1, <2>2, <2>3, <2>4, SameInputs
<1> QED BY <1>3, <1>4, <1>5, <1>6, <1>7, <1>8, <1>9 DEF ReplayStep

(* Before anything happens.                                                 *)
LEMMA ReplayInitOK ==
  ASSUME MarketInit
  PROVE  ReplayInv
<1>1. /\ replay.pc = "load" /\ replay.line_no = 0 /\ replay.feed = <<>>
      /\ replay.next = 1 /\ replay.todo = <<>>
      /\ saved = -1 /\ updates = <<>>
      /\ replay = [mode |-> replay.mode, pc |-> replay.pc, snap |-> replay.snap,
                   line_no |-> replay.line_no, feed |-> replay.feed,
                   next |-> replay.next, todo |-> replay.todo, pass |-> replay.pass]
  BY DEF MarketInit, ReplayIdle
<1>2. ReplayOK
  BY <1>1 DEF ReplayOK
<1>3. Stage
  BY <1>1 DEF Stage
<1> QED BY <1>2, <1>3 DEF ReplayInv

-----------------------------------------------------------------------------
(* The programs together                                                    *)

InputInv == CaptureInv /\ ReplayInv

(* A capture that has ended, or was never started, does nothing.            *)
LEMMA EndedIsQuiet ==
  ASSUME CaptureInv, CaptureEnded
  PROVE  ~Capturing /\ ~TimePasses /\ ~CaptureFaults /\ ~SendNotice
<1>1. peer # "open"
  BY DEF CaptureInv, Ready
<1>2. capture.pc \in {"success", "failure", "killed"}
  BY DEF CaptureEnded
<1>3. DOMAIN Following = {"sni", "resolve", "connect", "tls", "upgrade"}
  BY Stages DEF Connecting
<1>4. ~CaptureStep
  BY <1>2, <1>3 DEF CaptureStep, Proceed, Refused, OpenFile, TestDeadline, ReadFrame,
     ReadEnd, Flush, Close
<1>5. ~Deadline /\ ~Killed /\ ~HangUp /\ \A f : ~Deliver(f)
  BY <1>1, <1>2 DEF Deadline, Killed, HangUp, Deliver
<1> QED BY <1>4, <1>5 DEF Capturing, TimePasses, CaptureFaults, SendNotice

(* Every step of the system keeps the inputs of the replay in order.        *)
LEMMA InputStepOK ==
  ASSUME InputInv, [MarketNext]_allVars
  PROVE  InputInv'
<1>1. /\ updates \in Seq(Changes) /\ Len(updates) \in Nat
      /\ file \in Seq(Frames(Len(updates))) /\ Consecutive(file)
      /\ saved \in -1 .. Len(updates)
      /\ CaptureInv /\ ReplayInv
  BY DEF InputInv, CaptureInv, CaptureOK, Streaming, ReplayInv, ReplayOK
<1>2. ASSUME NEW change \in Changes, Publish(change)
      PROVE  InputInv'
  <2>1. /\ UNCHANGED <<replay, program, saved>>
        /\ Watched
        /\ updates' = Append(updates, change)
    BY <1>2 DEF Publish
  <2>2. ~(Replaying /\ CaptureEnded /\ saved # -1)
    BY <2>1 DEF Watched, Replaying
  <2>3. saved' \in -1 .. Len(updates')
    BY <1>1, <2>1
  <2> QED BY <1>1, <1>2, <2>1, <2>2, <2>3, PublishOK, ReplayWaitsOK DEF InputInv
<1>3. CASE SendNotice
  <2>1. UNCHANGED <<replay, program, saved, updates>>
    BY <1>3 DEF SendNotice, externalVars
  <2>2. ~CaptureEnded
    BY <1>1, <1>3, EndedIsQuiet
  <2> QED BY <1>1, <1>3, <2>1, <2>2, SendNoticeOK, ReplayWaitsOK DEF InputInv
<1>4. CASE SaveSnapshot
  <2>1. /\ UNCHANGED <<replay, program, updates, captureVars>>
        /\ saved = -1 /\ saved' = Len(updates)
    BY <1>4 DEF SaveSnapshot
  <2>2. saved' \in -1 .. Len(updates')
    BY <1>1, <2>1
  <2> QED BY <1>1, <2>1, <2>2, CaptureStutterOK, ReplayWaitsOK DEF InputInv
<1>5. CASE Capturing
  <2>1. CaptureStep /\ UNCHANGED <<replay, program, saved, updates>>
    BY <1>5 DEF Capturing, externalVars
  <2>2. ~CaptureEnded
    BY <1>1, <1>5, EndedIsQuiet
  <2> QED BY <1>1, <2>1, <2>2, CaptureStepOK, ReplayWaitsOK DEF InputInv
<1>6. CASE TimePasses \/ CaptureFaults
  <2>1. /\ Deadline \/ Killed \/ HangUp
        /\ UNCHANGED <<replay, program, saved, updates>>
    BY <1>6 DEF TimePasses, CaptureFaults, externalVars
  <2>2. ~CaptureEnded
    BY <1>1, <1>6, EndedIsQuiet
  <2> QED BY <1>1, <2>1, <2>2, FaultsOK, ReplayWaitsOK DEF InputInv
<1>7. CASE ReplayStep
  <2>1. UNCHANGED <<captureVars, updates>>
    BY <1>7 DEF ReplayStep, externalVars
  <2> QED BY <1>1, <1>7, <2>1, CaptureStutterOK, ReplayStepOK DEF InputInv
<1>8. CASE ToolStep \/ BookStep \/ Ended \/ UNCHANGED allVars
  <2>1. UNCHANGED <<captureVars, updates, replay, program, saved>>
    BY <1>8 DEF ToolStep, BookStep, Ended, allVars, externalVars
  <2>2. UNCHANGED <<capture, file>>
    BY <2>1 DEF captureVars
  <2> QED BY <1>1, <2>1, <2>2, CaptureStutterOK, ReplayWaitsOK DEF InputInv
<1> QED BY <1>2, <1>3, <1>4, <1>5, <1>6, <1>7, <1>8 DEF MarketNext

(* What is replayed is what the property says.                              *)
LEMMA InputsContiguous == InputInv => FeedContiguous
<1> SUFFICES ASSUME InputInv PROVE FeedContiguous
  OBVIOUS
<1>1. /\ ReplayInv /\ DOMAIN file = 1 .. Len(file)
      /\ Len(updates) \in Nat /\ DOMAIN updates = 1 .. Len(updates)
      /\ DOMAIN replay.feed = 1 .. Len(replay.feed)
  <2>1. /\ file \in Seq(Frames(Len(updates))) /\ updates \in Seq(Changes)
        /\ replay.feed \in Seq(Update)
    BY DEF InputInv, CaptureInv, CaptureOK, ReplayInv, ReplayOK
  <2> QED BY <2>1 DEF InputInv
<1>2. ASSUME replay.pc \in {"run", "passed"}
      PROVE  /\ Len(replay.feed) = Cardinality({j \in DOMAIN file : file[j] # Blank})
             /\ \A k \in DOMAIN replay.feed :
                  LET n == replay.feed[1].finalUpdateId + k - 1
                  IN  /\ n \in DOMAIN updates
                      /\ replay.feed[k] = [finalUpdateId |-> n, levels |-> updates[n]]
  <2>1. Fed(replay.feed, file, Len(file))
    BY <1>1, <1>2 DEF ReplayInv, Stage, Loaded
  <2> QED BY <1>1, <2>1 DEF Fed
<1>3. ASSUME replay.pc = "abort"
      PROVE  /\ replay.line_no \in DOMAIN file
             /\ file[replay.line_no].kind \in {"torn", "notice"}
             /\ \A j \in 1 .. replay.line_no - 1 : file[j].kind \in {"update", "blank"}
  BY <1>1, <1>3 DEF ReplayInv, Stage, Refusing
<1> QED BY <1>2, <1>3 DEF FeedContiguous

(* The replay applies consecutive, whole updates of the market, whatever    *)
(* ended the capture and whatever else the stream carried (ws_capture_main, *)
(* parse_binance_depth_updates), for every market and number of updates.    *)
THEOREM ReplaysConsecutiveUpdates == MarketSpec => []FeedContiguous
<1>1. MarketInit => InputInv
  <2> SUFFICES ASSUME MarketInit PROVE InputInv
    OBVIOUS
  <2>1. CaptureInit /\ updates = <<>>
    BY DEF MarketInit
  <2> QED BY <2>1, CaptureInitOK, ReplayInitOK DEF InputInv
<1>2. InputInv /\ [MarketNext]_allVars => InputInv'
  BY InputStepOK
<1> QED BY <1>1, <1>2, InputsContiguous, PTL DEF MarketSpec

-----------------------------------------------------------------------------
(* What the levels of a book show                                           *)

(* They show the size v at price p of side: 0 if there is no such level.    *)
Shown(levels, side, p, v) ==
  \/ \E i \in 1 .. Len(levels[side]) :
       levels[side][i].price = p /\ levels[side][i].total_volume = v /\ v > 0
  \/ v = 0 /\ \A i \in 1 .. Len(levels[side]) : levels[side][i].price # p

Shows(levels, g) == \A side \in Sides, p \in Prices : Shown(levels, side, p, g[side][p])

(* m shows v at price p of side, and what levels shows everywhere else.     *)
ShowsAt(levels, m, side, p, v) ==
  \A s \in Sides, q \in Prices, w \in Nat :
    IF s = side /\ q = p THEN w = v => Shown(m, s, q, w)
                         ELSE Shown(levels, s, q, w) => Shown(m, s, q, w)

SetSize(g, side, p, v) == [g EXCEPT ![side][p] = v]

(* Setting a size.                                                          *)
LEMMA SetSizeIs ==
  ASSUME NEW g \in SizeMap, NEW side \in Sides, NEW p \in Prices, NEW v \in Nat
  PROVE  /\ SetSize(g, side, p, v) \in SizeMap
         /\ \A s \in Sides, q \in Prices :
              /\ SetSize(g, side, p, v)[s][q] = IF s = side /\ q = p THEN v ELSE g[s][q]
              /\ g[s][q] \in Nat
<1>1. g \in [Sides -> [Prices -> Nat]]
  BY DEF SizeMap
<1>2. SetSize(g, side, p, v) = [g EXCEPT ![side] = [g[side] EXCEPT ![p] = v]]
  BY DEF SetSize
<1>3. g[side] \in [Prices -> Nat] /\ \A s \in Sides : g[s] \in [Prices -> Nat]
  BY <1>1
<1>4. PICK row : row = [g[side] EXCEPT ![p] = v]
  OBVIOUS
<1>5. row \in [Prices -> Nat] /\ \A q \in Prices : row[q] = IF q = p THEN v ELSE g[side][q]
  BY <1>3, <1>4
<1>6. /\ SetSize(g, side, p, v) \in [Sides -> [Prices -> Nat]]
      /\ \A s \in Sides : SetSize(g, side, p, v)[s] = IF s = side THEN row ELSE g[s]
  BY <1>1, <1>2, <1>4, <1>5
<1>7. SetSize(g, side, p, v) \in SizeMap
  BY <1>6 DEF SizeMap
<1>8. ASSUME NEW s \in Sides, NEW q \in Prices
      PROVE  /\ SetSize(g, side, p, v)[s][q] = IF s = side /\ q = p THEN v ELSE g[s][q]
             /\ g[s][q] \in Nat
  BY <1>3, <1>5, <1>6
<1> QED BY <1>7, <1>8

(* The sizes shown after such a change.                                     *)
LEMMA ShowsSet ==
  ASSUME NEW levels, NEW m, NEW side \in Sides, NEW p \in Prices, NEW v \in Nat,
         NEW g \in SizeMap, Shows(levels, g), ShowsAt(levels, m, side, p, v)
  PROVE  Shows(m, SetSize(g, side, p, v))
<1>1. PICK h : h = SetSize(g, side, p, v)
  OBVIOUS
<1>2. \A s \in Sides, q \in Prices :
        h[s][q] = (IF s = side /\ q = p THEN v ELSE g[s][q]) /\ g[s][q] \in Nat
  BY <1>1, SetSizeIs
<1>3. ASSUME NEW s \in Sides, NEW q \in Prices PROVE Shown(m, s, q, h[s][q])
  <2>1. CASE s = side /\ q = p
    BY <1>2, <2>1 DEF ShowsAt
  <2>2. CASE ~(s = side /\ q = p)
    <3>1. h[s][q] = g[s][q] /\ g[s][q] \in Nat
      BY <1>2, <2>2
    <3>2. Shown(levels, s, q, g[s][q])
      BY DEF Shows
    <3> QED BY <2>2, <3>1, <3>2 DEF ShowsAt
  <2> QED BY <2>1, <2>2
<1> QED BY <1>1, <1>3 DEF Shows

(* A level is given another size.                                           *)
LEMMA ShowsRevalued ==
  ASSUME NEW n, NEW levels, LevelsOK(levels, n), NEW side \in Sides,
         NEW it \in 1 .. Len(levels[side]), NEW m, SamePrices(levels, m, side, it),
         NEW v, v > 0, m[side][it].total_volume = v
  PROVE  ShowsAt(levels, m, side, levels[side][it].price, v)
<1> SUFFICES ASSUME NEW s \in Sides, NEW q \in Prices, NEW w \in Nat,
                    IF s = side /\ q = levels[side][it].price THEN w = v
                                                              ELSE Shown(levels, s, q, w)
             PROVE  Shown(m, s, q, w)
  BY DEF ShowsAt
<1>1. /\ Len(m[s]) = Len(levels[s])
      /\ \A i \in 1 .. Len(levels[s]) :
           /\ m[s][i].price = levels[s][i].price
           /\ s # side \/ i # it => m[s][i] = levels[s][i]
  BY DEF SamePrices
<1>2. CASE s = side /\ q = levels[side][it].price
  BY <1>1, <1>2 DEF Shown
<1>3. CASE ~(s = side /\ q = levels[side][it].price)
  BY <1>1, <1>3 DEF Shown
<1> QED BY <1>2, <1>3

(* A level keeps its size.                                                  *)
LEMMA ShowsAgain ==
  ASSUME NEW levels, NEW side, NEW it, NEW m, SamePrices(levels, m, side, it),
         m[side][it].total_volume = levels[side][it].total_volume,
         NEW g, Shows(levels, g)
  PROVE  Shows(m, g)
<1> SUFFICES ASSUME NEW s \in Sides, NEW q \in Prices
             PROVE  Shown(m, s, q, g[s][q])
  BY DEF Shows
<1>1. /\ Len(m[s]) = Len(levels[s])
      /\ \A i \in 1 .. Len(levels[s]) :
           /\ m[s][i].price = levels[s][i].price
           /\ s # side \/ i # it => m[s][i] = levels[s][i]
  BY DEF SamePrices
<1>2. \A i \in 1 .. Len(levels[s]) : m[s][i].total_volume = levels[s][i].total_volume
  BY <1>1
<1>3. Shown(levels, s, q, g[s][q])
  BY DEF Shows
<1> QED BY <1>1, <1>2, <1>3 DEF Shown

(* A level is erased.                                                       *)
LEMMA ShowsErased ==
  ASSUME NEW n, NEW levels, LevelsOK(levels, n), Sorted(levels), NEW side \in Sides,
         NEW it \in 1 .. Len(levels[side])
  PROVE  ShowsAt(levels, Without(levels, side, it), side, levels[side][it].price, 0)
<1>1. PICK m : m = Without(levels, side, it)
  OBVIOUS
<1>2. /\ \A s \in Sides \ {side} : m[s] = levels[s]
      /\ Len(m[side]) = Len(levels[side]) - 1
      /\ \A j \in 1 .. Len(levels[side]) - 1 :
           m[side][j] = IF j < it THEN levels[side][j] ELSE levels[side][j + 1]
  BY <1>1, WithoutFacts
<1>3. Len(levels[side]) \in Nat
  BY LevelsFacts
<1>4. ASSUME NEW q \in Prices, NEW w \in Nat, q # levels[side][it].price,
             Shown(levels, side, q, w)
      PROVE  Shown(m, side, q, w)
  <2>1. CASE \E i \in 1 .. Len(levels[side]) :
               levels[side][i].price = q /\ levels[side][i].total_volume = w /\ w > 0
    <3>1. PICK i \in 1 .. Len(levels[side]) :
            levels[side][i].price = q /\ levels[side][i].total_volume = w /\ w > 0
      BY <2>1
    <3>2. i # it
      BY <1>4, <3>1
    <3>3. CASE i < it
      <4>1. i \in 1 .. Len(m[side]) /\ m[side][i] = levels[side][i]
        BY <1>2, <1>3, <3>3
      <4> QED BY <3>1, <4>1 DEF Shown
    <3>4. CASE i > it
      <4>1. /\ i - 1 \in 1 .. Len(m[side]) /\ ~(i - 1 < it) /\ i - 1 + 1 = i
        BY <1>2, <1>3, <3>4
      <4>2. m[side][i - 1] = levels[side][i]
        BY <1>2, <4>1
      <4> QED BY <3>1, <4>1, <4>2 DEF Shown
    <3> QED BY <3>2, <3>3, <3>4
  <2>2. CASE w = 0 /\ \A i \in 1 .. Len(levels[side]) : levels[side][i].price # q
    <3>1. \A i \in 1 .. Len(m[side]) : m[side][i].price # q
      <4> SUFFICES ASSUME NEW i \in 1 .. Len(m[side]) PROVE m[side][i].price # q
        OBVIOUS
      <4>1. i \in 1 .. Len(levels[side]) /\ i + 1 \in 1 .. Len(levels[side])
        BY <1>2, <1>3
      <4>2. m[side][i] = levels[side][i] \/ m[side][i] = levels[side][i + 1]
        BY <1>2
      <4> QED BY <2>2, <4>1, <4>2
    <3> QED BY <2>2, <3>1 DEF Shown
  <2> QED BY <1>4, <2>1, <2>2 DEF Shown
<1>5. \A i \in 1 .. Len(m[side]) : m[side][i].price # levels[side][it].price
  <2> SUFFICES ASSUME NEW i \in 1 .. Len(m[side]),
                      m[side][i].price = levels[side][it].price
               PROVE  FALSE
    OBVIOUS
  <2>1. CASE i < it
    <3>1. i \in 1 .. Len(levels[side]) /\ m[side][i] = levels[side][i]
      BY <1>2, <1>3, <2>1
    <3> QED BY <2>1, <3>1, SortedPrices
  <2>2. CASE ~(i < it)
    <3>1. i + 1 \in 1 .. Len(levels[side]) /\ m[side][i] = levels[side][i + 1]
      BY <1>2, <1>3, <2>2
    <3>2. i + 1 = it
      BY <3>1, SortedPrices
    <3> QED BY <2>2, <3>2
  <2> QED BY <2>1, <2>2
<1>6. ASSUME NEW s \in Sides, NEW q \in Prices, NEW w \in Nat,
             IF s = side /\ q = levels[side][it].price THEN w = 0
                                                       ELSE Shown(levels, s, q, w)
      PROVE  Shown(m, s, q, w)
  <2>1. CASE s # side
    BY <1>2, <1>6, <2>1 DEF Shown
  <2>2. CASE s = side /\ q # levels[side][it].price
    BY <1>4, <1>6, <2>2
  <2>3. CASE s = side /\ q = levels[side][it].price
    BY <1>5, <1>6, <2>3 DEF Shown
  <2> QED BY <2>1, <2>2, <2>3
<1> QED BY <1>1, <1>6 DEF ShowsAt

(* Where find_level finds no level for a price there is none.               *)
LEMMA NotThere ==
  ASSUME NEW n, NEW levels, LevelsOK(levels, n), Sorted(levels), NEW side \in Sides,
         NEW price \in Prices, NEW it \in find_level(levels[side], side, price),
         ~Exists(levels[side], it, price)
  PROVE  \A i \in 1 .. Len(levels[side]) : levels[side][i].price # price
<1>1. /\ Len(levels[side]) \in Nat /\ DOMAIN levels[side] = 1 .. Len(levels[side])
      /\ \A i \in 1 .. Len(levels[side]) : levels[side][i].price \in Nat
      /\ price \in Nat
  BY LevelsFacts, BookAssumption
<1>2. /\ it \in 1 .. Len(levels[side]) + 1
      /\ \A j \in 1 .. it - 1 : Better(side, levels[side][j].price, price)
      /\ \A j \in it .. Len(levels[side]) : ~Better(side, levels[side][j].price, price)
  BY DEF find_level
<1> SUFFICES ASSUME NEW i \in 1 .. Len(levels[side]), levels[side][i].price = price
             PROVE  FALSE
  OBVIOUS
<1>3. ~Better(side, price, price)
  BY <1>1 DEF Better
<1>4. ~(i < it)
  <2> SUFFICES ASSUME i < it PROVE FALSE
    OBVIOUS
  <2>1. i \in 1 .. it - 1
    BY <1>1, <1>2
  <2>2. Better(side, price, price)
    BY <1>2, <2>1
  <2> QED BY <1>3, <2>2
<1>5. it \in 1 .. Len(levels[side]) /\ i # it
  BY <1>1, <1>2, <1>4 DEF Exists
<1>6. it < i
  BY <1>1, <1>2, <1>4, <1>5
<1>7. Better(side, levels[side][it].price, levels[side][i].price)
  BY <1>1, <1>5, <1>6 DEF Sorted, SortedSide
<1>8. ~Better(side, levels[side][it].price, price)
  BY <1>1, <1>2, <1>5
<1> QED BY <1>7, <1>8

(* m has the levels of levels, and one of size v and with this head at price *)
(* of side.                                                                 *)
AddsLevel(levels, m, side, price, v, head) ==
  /\ \E i \in 1 .. Len(m[side]) :
       /\ m[side][i].price = price
       /\ m[side][i].total_volume = v
       /\ m[side][i].head = head
  /\ \A s \in Sides : \A j \in 1 .. Len(levels[s]) :
       \E i \in 1 .. Len(m[s]) : m[s][i] = levels[s][j]
  /\ \A s \in Sides : \A i \in 1 .. Len(m[s]) :
       \/ s = side /\ m[s][i].price = price
       \/ \E j \in 1 .. Len(levels[s]) : m[s][i].price = levels[s][j].price

(* Of the pools, only the sizes and the free list matter here.              *)
SameSlots(p, q) == p.free_list = q.free_list /\ Len(p.nodes) = Len(q.nodes)

(* A level for a price that has none is made of one order.                  *)
LEMMA RestNew ==
  ASSUME NEW b, BookOK(b), ~Exhausted(b.pool), Sorted(b.levels), Occupied(b.levels),
         NEW id \in OrderIds, NEW side \in Sides, NEW price \in Prices,
         NEW volume \in Int, NEW it \in find_level(b.levels[side], side, price),
         ~Exists(b.levels[side], it, price),
         NEW c, c = rest(b, it, id, side, price, volume)
  PROVE  /\ AddsLevel(b.levels, c.levels, side, price, volume, AllocatedIndex(b.pool))
         /\ SameSlots(c.pool, allocate(b.pool, [id |-> id, volume |-> volume]))
<1>1. PICK n, m, node, w : /\ n = Len(b.pool.nodes)
                           /\ m = WithPrice(b.levels, side, it, price)
                           /\ node = AllocatedIndex(b.pool)
                           /\ w = [id |-> id, volume |-> volume]
  OBVIOUS
<1>2. n \in Nat /\ PoolOK(b.pool) /\ LevelsOK(b.levels, n) /\ w.volume = volume
  BY <1>1, BookFields
<1>3. /\ it \in 1 .. Len(m[side]) /\ m[side][it].price = price
      /\ Inserted(b.levels, m, side, it, price)
  BY <1>1, <1>2, WithPriceFacts
<1>4. \A j \in 1 .. Len(b.levels[side]) : b.levels[side][j].price # price
  BY <1>2, NotThere
<1>5. m[side][it] = NewLevel(price)
  BY <1>3, <1>4 DEF Inserted
<1>6. m[side][it].tail = 0 /\ m[side][it].total_volume = 0
  BY <1>5 DEF NewLevel, kNull, null_index
<1>7. node # 0
  <2>1. w \in RestingOrder
    BY <1>1 DEF RestingOrder
  <2> QED BY <1>1, <1>2, <2>1, AllocateOK
<1>8. RestedIn(b, c, m, allocate(b.pool, w), side, it, node, w)
  BY <1>1, <1>6, <1>7, RestFacts
<1>9. /\ SamePrices(m, c.levels, side, it)
      /\ c.levels[side][it].head = node
      /\ c.levels[side][it].total_volume = volume
      /\ c.pool.free_list = allocate(b.pool, w).free_list
      /\ Len(c.pool.nodes) = Len(allocate(b.pool, w).nodes)
  <2>1. c.levels[side][it].total_volume = 0 + volume
    BY <1>2, <1>6, <1>8 DEF RestedIn
  <2> QED BY <1>6, <1>8, <2>1 DEF RestedIn
<1>10. \A s \in Sides : /\ Len(c.levels[s]) = Len(m[s])
                        /\ \A i \in 1 .. Len(m[s]) :
                             /\ c.levels[s][i].price = m[s][i].price
                             /\ s # side \/ i # it => c.levels[s][i] = m[s][i]
  BY <1>9 DEF SamePrices
<1>11. \E i \in 1 .. Len(c.levels[side]) :
         /\ c.levels[side][i].price = price
         /\ c.levels[side][i].total_volume = volume
         /\ c.levels[side][i].head = node
  BY <1>3, <1>9, <1>10
<1>12. ASSUME NEW s \in Sides, NEW j \in 1 .. Len(b.levels[s])
       PROVE  \E i \in 1 .. Len(c.levels[s]) : c.levels[s][i] = b.levels[s][j]
  <2>1. PICK i \in 1 .. Len(m[s]) : m[s][i] = b.levels[s][j]
    BY <1>3 DEF Inserted
  <2>2. s # side \/ i # it
    BY <1>3, <1>4, <2>1
  <2> QED BY <1>10, <2>1, <2>2
<1>13. ASSUME NEW s \in Sides, NEW i \in 1 .. Len(c.levels[s])
       PROVE  \/ s = side /\ c.levels[s][i].price = price
              \/ \E j \in 1 .. Len(b.levels[s]) : c.levels[s][i].price = b.levels[s][j].price
  <2>1. i \in 1 .. Len(m[s]) /\ c.levels[s][i].price = m[s][i].price
    BY <1>10
  <2>2. \/ \E j \in 1 .. Len(b.levels[s]) : m[s][i] = b.levels[s][j]
        \/ s = side /\ i = it
    BY <1>3, <2>1 DEF Inserted
  <2> QED BY <1>3, <2>1, <2>2
<1> QED BY <1>1, <1>9, <1>11, <1>12, <1>13 DEF AddsLevel, SameSlots

(* So the book shows what it showed, and the order.                         *)
LEMMA ShowsRested ==
  ASSUME NEW n, NEW levels, LevelsOK(levels, n), NEW m, NEW side \in Sides,
         NEW price \in Prices, NEW v, v > 0, NEW head,
         AddsLevel(levels, m, side, price, v, head)
  PROVE  ShowsAt(levels, m, side, price, v)
<1> SUFFICES ASSUME NEW s \in Sides, NEW q \in Prices, NEW w \in Nat,
                    IF s = side /\ q = price THEN w = v ELSE Shown(levels, s, q, w)
             PROVE  Shown(m, s, q, w)
  BY DEF ShowsAt
<1>1. CASE s = side /\ q = price
  BY <1>1 DEF Shown, AddsLevel
<1>2. CASE ~(s = side /\ q = price)
  <2>1. CASE \E j \in 1 .. Len(levels[s]) :
               levels[s][j].price = q /\ levels[s][j].total_volume = w /\ w > 0
    <3>1. PICK j \in 1 .. Len(levels[s]) :
            levels[s][j].price = q /\ levels[s][j].total_volume = w /\ w > 0
      BY <2>1
    <3>2. PICK i \in 1 .. Len(m[s]) : m[s][i] = levels[s][j]
      BY DEF AddsLevel
    <3> QED BY <3>1, <3>2 DEF Shown
  <2>2. CASE w = 0 /\ \A j \in 1 .. Len(levels[s]) : levels[s][j].price # q
    <3>1. ASSUME NEW i \in 1 .. Len(m[s]) PROVE m[s][i].price # q
      <4>1. \/ s = side /\ m[s][i].price = price
            \/ \E j \in 1 .. Len(levels[s]) : m[s][i].price = levels[s][j].price
        BY DEF AddsLevel
      <4> QED BY <1>2, <2>2, <4>1
    <3> QED BY <2>2, <3>1 DEF Shown
  <2> QED BY <1>2, <2>1, <2>2 DEF Shown
<1> QED BY <1>1, <1>2

(* What is shown at every price is what the book shows.                     *)
LEMMA ShowsBookShows ==
  ASSUME BookOK(book), Sorted(book.levels), NEW g \in SizeMap, Shows(book.levels, g)
  PROVE  BookShows(g)
<1> SUFFICES ASSUME NEW side \in Sides, NEW present,
                    present = {p \in Prices : g[side][p] > 0}
             PROVE  /\ Sizes(book.levels[side]) = {<<p, g[side][p]>> : p \in present}
                    /\ Len(book.levels[side]) = Cardinality(present)
  BY DEF BookShows
<1>1. PICK n : n = Len(book.levels[side])
  OBVIOUS
<1>2. /\ n \in Nat /\ DOMAIN book.levels[side] = 1 .. n
      /\ LevelsOK(book.levels, Len(book.pool.nodes))
  BY <1>1, BookFields, LevelsFacts
<1>3. \A i \in 1 .. n : book.levels[side][i].price \in Prices
  BY <1>1, LevelFields
<1>4. \A p \in Prices : g[side][p] \in Nat /\ Shown(book.levels, side, p, g[side][p])
  BY DEF Shows, SizeMap
<1>5. \A i, j \in 1 .. n :
        book.levels[side][i].price = book.levels[side][j].price => i = j
  BY <1>1, <1>2, SortedPrices
<1>6. ASSUME NEW i \in 1 .. n
      PROVE  /\ book.levels[side][i].price \in present
             /\ book.levels[side][i].total_volume = g[side][book.levels[side][i].price]
  <2>1. PICK p : p = book.levels[side][i].price
    OBVIOUS
  <2>2. Shown(book.levels, side, p, g[side][p]) /\ p \in Prices
    BY <1>3, <1>4, <2>1
  <2>3. PICK j \in 1 .. n : /\ book.levels[side][j].price = p
                            /\ book.levels[side][j].total_volume = g[side][p]
                            /\ g[side][p] > 0
    BY <1>1, <2>1, <2>2 DEF Shown
  <2>4. i = j
    BY <1>5, <2>1, <2>3
  <2> QED BY <2>1, <2>2, <2>3, <2>4
<1>7. ASSUME NEW p \in present
      PROVE  \E i \in 1 .. n : /\ book.levels[side][i].price = p
                               /\ book.levels[side][i].total_volume = g[side][p]
  BY <1>1, <1>4 DEF Shown
<1>8. Sizes(book.levels[side]) = {<<p, g[side][p]>> : p \in present}
  <2>1. Sizes(book.levels[side]) = {<<book.levels[side][i].price,
                                      book.levels[side][i].total_volume>> : i \in 1 .. n}
    BY <1>2 DEF Sizes
  <2>2. ASSUME NEW i \in 1 .. n
        PROVE  <<book.levels[side][i].price, book.levels[side][i].total_volume>>
                 \in {<<p, g[side][p]>> : p \in present}
    BY <1>6
  <2>3. ASSUME NEW p \in present
        PROVE  <<p, g[side][p]>> \in {<<book.levels[side][i].price,
                                       book.levels[side][i].total_volume>> : i \in 1 .. n}
    BY <1>7
  <2> QED BY <2>1, <2>2, <2>3
<1>9. n = Cardinality(present)
  <2>1. PICK f : f = [i \in 1 .. n |-> book.levels[side][i].price]
    OBVIOUS
  <2>2. f \in [1 .. n -> present]
    BY <1>6, <2>1
  <2>3. IsInjective(f)
    BY <1>5, <2>1 DEF IsInjective
  <2>4. \A p \in present : \E i \in 1 .. n : f[i] = p
    BY <1>7, <2>1
  <2>5. f \in Bijection(1 .. n, present)
    BY <2>2, <2>3, <2>4 DEF Bijection, Injection, Surjection
  <2>6. ExistsBijection(1 .. n, present)
    BY <2>5 DEF ExistsBijection
  <2>7. IsFiniteSet(1 .. n) /\ Cardinality(1 .. n) = n
    BY <1>2, FS_Interval
  <2> QED BY <2>6, <2>7, FS_Bijection
<1> QED BY <1>1, <1>8, <1>9

-----------------------------------------------------------------------------
(* Slots.  In a book that holds at most one order per price, as those here  *)
(* do between two calls, a slot that is not free is the head of a level.    *)

IsFree(pool, slot) == \E k \in 1 .. Len(pool.free_list) : pool.free_list[k] = slot

IsAHead(levels, slot) ==
  \E s \in Sides : \E i \in 1 .. Len(levels[s]) : levels[s][i].head = slot

Heads(b) == \A slot \in 1 .. Len(b.pool.nodes) : IsFree(b.pool, slot) \/ IsAHead(b.levels, slot)

PricesIn(levels, T) ==
  \A s \in Sides : \A i \in 1 .. Len(levels[s]) : <<s, levels[s][i].price>> \in T

(* pop_front, field by field.                                               *)
LEMMA PopFields ==
  ASSUME NEW b, BookOK(b), NEW side \in Sides, NEW it \in 1 .. Len(b.levels[side]),
         b.levels[side][it].head # kNull, NEW c, c = pop_front(b, side, it)
  PROVE  /\ SamePrices(b.levels, c.levels, side, it)
         /\ c.levels[side][it].total_volume = b.levels[side][it].total_volume
         /\ c.pool.free_list = Append(b.pool.free_list, b.levels[side][it].head)
         /\ Len(c.pool.nodes) = Len(b.pool.nodes)
<1>1. PICK n, lvl, next : /\ n = Len(b.pool.nodes) /\ lvl = b.levels[side][it]
                          /\ next = b.pool.nodes[lvl.head].next
  OBVIOUS
<1>2. PICK tail : tail = IF next # kNull THEN lvl.tail ELSE kNull
  OBVIOUS
<1>3. /\ n \in Nat /\ lvl.head \in 1 .. n /\ lvl.tail \in 0 .. n
      /\ lvl.total_volume \in Int /\ lvl.price \in Prices
  BY <1>1, BookFields, LevelFields DEF kNull, null_index
<1>4. next \in 0 .. n /\ tail \in 0 .. n
  BY <1>1, <1>2, <1>3, BookFields DEF kNull, null_index
<1>5. PICK L : L = [price |-> lvl.price, total_volume |-> lvl.total_volume,
                    head |-> next, tail |-> tail]
  OBVIOUS
<1>6. L \in LevelType(n) /\ L.price = lvl.price /\ L.total_volume = lvl.total_volume
  BY <1>3, <1>4, <1>5 DEF LevelType
<1>7. c.levels = PutLevel(b.levels, side, it, L)
  BY <1>1, <1>2, <1>5 DEF pop_front, PutLevel
<1>8. SamePrices(b.levels, c.levels, side, it) /\ c.levels[side][it] = L
  BY <1>1, <1>6, <1>7, BookFields, LevelUpdate
<1>9. c.pool.free_list = Append(b.pool.free_list, lvl.head)
  BY <1>1 DEF pop_front, deallocate, set_prev
<1>10. Len(c.pool.nodes) = Len(b.pool.nodes)
  BY PopFrontOK DEF UpdateOK
<1> QED BY <1>1, <1>6, <1>8, <1>9, <1>10

(* Slots stay heads or free if a level only loses its head to the free      *)
(* list.                                                                    *)
LEMMA HeadsKept ==
  ASSUME NEW b, Heads(b), NEW c, Len(c.pool.nodes) = Len(b.pool.nodes),
         \A k \in 1 .. Len(b.pool.free_list) : IsFree(c.pool, b.pool.free_list[k]),
         \A s \in Sides : \A i \in 1 .. Len(b.levels[s]) :
           \/ IsAHead(c.levels, b.levels[s][i].head)
           \/ IsFree(c.pool, b.levels[s][i].head)
           \/ b.levels[s][i].head = kNull
  PROVE  Heads(c)
<1> SUFFICES ASSUME NEW slot \in 1 .. Len(b.pool.nodes)
             PROVE  IsFree(c.pool, slot) \/ IsAHead(c.levels, slot)
  BY DEF Heads
<1>1. slot # kNull
  BY DEF kNull, null_index
<1>2. CASE IsFree(b.pool, slot)
  BY <1>2 DEF IsFree
<1>3. CASE IsAHead(b.levels, slot)
  BY <1>1, <1>3 DEF IsAHead
<1> QED BY <1>2, <1>3 DEF Heads

(* The new free list of deallocate.                                         *)
LEMMA FreedToo ==
  ASSUME NEW b, BookOK(b), NEW pool, NEW slot,
         pool.free_list = Append(b.pool.free_list, slot)
  PROVE  /\ IsFree(pool, slot)
         /\ \A k \in 1 .. Len(b.pool.free_list) : IsFree(pool, b.pool.free_list[k])
<1>1. b.pool.free_list \in Seq(Index(b) \ {kNull})
  BY DEF BookOK
<1>2. PICK free, n : free = b.pool.free_list /\ n = Len(free)
  OBVIOUS
<1>3. /\ n \in Nat
      /\ Len(pool.free_list) = n + 1
      /\ pool.free_list[n + 1] = slot
      /\ \A k \in 1 .. n : pool.free_list[k] = free[k]
  BY <1>1, <1>2
<1>4. IsFree(pool, slot)
  BY <1>3 DEF IsFree
<1>5. \A k \in 1 .. n : IsFree(pool, free[k])
  BY <1>3 DEF IsFree
<1> QED BY <1>2, <1>4, <1>5

(* Popping a level.                                                         *)
LEMMA HeadsPopped ==
  ASSUME NEW b, BookOK(b), Heads(b), NEW side \in Sides,
         NEW it \in 1 .. Len(b.levels[side]), b.levels[side][it].head # kNull,
         NEW c, c = pop_front(b, side, it)
  PROVE  Heads(c)
<1>1. /\ SamePrices(b.levels, c.levels, side, it)
      /\ c.pool.free_list = Append(b.pool.free_list, b.levels[side][it].head)
      /\ Len(c.pool.nodes) = Len(b.pool.nodes)
  BY PopFields
<1>2. /\ IsFree(c.pool, b.levels[side][it].head)
      /\ \A k \in 1 .. Len(b.pool.free_list) : IsFree(c.pool, b.pool.free_list[k])
  BY <1>1, FreedToo
<1>3. ASSUME NEW s \in Sides, NEW i \in 1 .. Len(b.levels[s])
      PROVE  \/ IsAHead(c.levels, b.levels[s][i].head)
             \/ IsFree(c.pool, b.levels[s][i].head)
  <2>1. CASE s = side /\ i = it
    BY <1>2, <2>1
  <2>2. CASE ~(s = side /\ i = it)
    BY <1>1, <2>2 DEF SamePrices, IsAHead
  <2> QED BY <2>1, <2>2
<1> QED BY <1>1, <1>2, <1>3, HeadsKept

(* Erasing an empty level.                                                  *)
LEMMA HeadsErased ==
  ASSUME NEW b, BookOK(b), Heads(b), NEW side \in Sides,
         NEW it \in 1 .. Len(b.levels[side]), b.levels[side][it].head = kNull,
         NEW c, c.pool = b.pool, c.levels = Without(b.levels, side, it)
  PROVE  Heads(c)
<1>1. /\ \A s \in Sides \ {side} : c.levels[s] = b.levels[s]
      /\ Len(c.levels[side]) = Len(b.levels[side]) - 1
      /\ \A j \in 1 .. Len(b.levels[side]) - 1 :
           c.levels[side][j] = IF j < it THEN b.levels[side][j] ELSE b.levels[side][j + 1]
      /\ Len(b.levels[side]) \in Nat
  <2>1. PICK n, levels : n = Len(b.pool.nodes) /\ levels = b.levels
    OBVIOUS
  <2>2. LevelsOK(levels, n) /\ it \in 1 .. Len(levels[side])
    BY <2>1, BookFields
  <2>3. Len(levels[side]) \in Nat
    BY <2>2, LevelsFacts
  <2>4. PICK m : m = Without(levels, side, it)
    OBVIOUS
  <2>5. /\ \A s \in Sides \ {side} : m[s] = levels[s]
        /\ Len(m[side]) = Len(levels[side]) - 1
        /\ \A j \in 1 .. Len(levels[side]) - 1 :
             m[side][j] = IF j < it THEN levels[side][j] ELSE levels[side][j + 1]
    BY <2>2, <2>4, WithoutFacts
  <2> QED BY <2>1, <2>3, <2>4, <2>5
<1>2. ASSUME NEW s \in Sides, NEW i \in 1 .. Len(b.levels[s]), s # side \/ i # it
      PROVE  IsAHead(c.levels, b.levels[s][i].head)
  <2>1. CASE s # side
    BY <1>1, <2>1 DEF IsAHead
  <2>2. CASE s = side /\ i < it
    <3>1. i \in 1 .. Len(c.levels[side]) /\ c.levels[side][i] = b.levels[side][i]
      BY <1>1, <2>2
    <3> QED BY <2>2, <3>1 DEF IsAHead
  <2>3. CASE s = side /\ i > it
    <3>1. i - 1 \in 1 .. Len(c.levels[side]) /\ ~(i - 1 < it) /\ i - 1 + 1 = i
      BY <1>1, <2>3
    <3>2. c.levels[side][i - 1] = b.levels[side][i]
      BY <1>1, <3>1
    <3> QED BY <2>3, <3>1, <3>2 DEF IsAHead
  <2> QED BY <1>1, <1>2, <2>1, <2>2, <2>3
<1>3. \A k \in 1 .. Len(b.pool.free_list) : IsFree(c.pool, b.pool.free_list[k])
  BY DEF IsFree
<1> QED BY <1>2, <1>3, HeadsKept

(* Resting an order at a price that has none.                               *)
LEMMA HeadsRested ==
  ASSUME NEW b, BookOK(b), Heads(b), ~Exhausted(b.pool), NEW w \in RestingOrder,
         NEW c, SameSlots(c.pool, allocate(b.pool, w)), NEW side \in Sides, NEW price, NEW v,
         AddsLevel(b.levels, c.levels, side, price, v, AllocatedIndex(b.pool))
  PROVE  Heads(c)
<1>1. PICK p, q : p = b.pool /\ q = allocate(p, w)
  OBVIOUS
<1>7. /\ c.pool.free_list = q.free_list /\ Len(c.pool.nodes) = Len(q.nodes)
      /\ IsAHead(c.levels, AllocatedIndex(p))
  BY <1>1 DEF SameSlots, AddsLevel, IsAHead
<1>2. /\ p.nodes \in Seq(Node(RestingOrder, 0 .. Len(p.nodes)))
      /\ p.free_list \in Seq(1 .. Len(p.nodes))
  BY <1>1, BookFields DEF PoolOK
<1>3. ASSUME NEW slot, IsAHead(b.levels, slot) PROVE IsAHead(c.levels, slot)
  <2>1. PICK s \in Sides : \E j \in 1 .. Len(b.levels[s]) : b.levels[s][j].head = slot
    BY <1>3 DEF IsAHead
  <2>2. PICK j \in 1 .. Len(b.levels[s]) : b.levels[s][j].head = slot
    BY <2>1
  <2>3. PICK i \in 1 .. Len(c.levels[s]) : c.levels[s][i] = b.levels[s][j]
    BY DEF AddsLevel
  <2> QED BY <2>2, <2>3 DEF IsAHead
<1> SUFFICES ASSUME NEW slot \in 1 .. Len(q.nodes), slot # AllocatedIndex(p)
             PROVE  IsFree(c.pool, slot) \/ IsAHead(c.levels, slot)
  BY <1>1, <1>7 DEF Heads
<1>4. slot \in 1 .. Len(p.nodes)
  BY <1>1, AllocateFields, BookFields
<1>5. CASE IsAHead(b.levels, slot)
  BY <1>3, <1>5
<1>6. CASE IsFree(p, slot)
  <2>1. PICK k \in 1 .. Len(p.free_list) : p.free_list[k] = slot
    BY <1>6 DEF IsFree
  <2>2. p.free_list # <<>> /\ Len(p.free_list) \in Nat
    BY <1>2, <2>1
  <2>3. q.free_list = Front(p.free_list) /\ AllocatedIndex(p) = p.free_list[Len(p.free_list)]
    BY <1>1, <2>2 DEF allocate, AllocatedIndex, Last
  <2>4. k # Len(p.free_list)
    BY <2>1, <2>3
  <2>5. /\ k \in 1 .. Len(Front(p.free_list))
        /\ Front(p.free_list)[k] = p.free_list[k]
    BY <1>2, <2>1, <2>2, <2>4 DEF Front
  <2> QED BY <1>1, <1>7, <2>1, <2>3, <2>5 DEF IsFree
<1>8. IsFree(p, slot) \/ IsAHead(b.levels, slot)
  BY <1>1, <1>4 DEF Heads
<1> QED BY <1>5, <1>6, <1>8

(* The pool grows only when every slot is the head of a level, so never     *)
(* beyond the number of prices.                                             *)
LEMMA GrowsForAPrice ==
  ASSUME NEW b, BookOK(b), Sorted(b.levels), Heads(b),
         NEW T, IsFiniteSet(T), PricesIn(b.levels, T),
         b.pool.free_list = <<>>, NEW side \in Sides, NEW price, <<side, price>> \in T,
         \A i \in 1 .. Len(b.levels[side]) : b.levels[side][i].price # price
  PROVE  Len(b.pool.nodes) + 1 <= Cardinality(T)
<1>1. PICK n : n = Len(b.pool.nodes)
  OBVIOUS
<1>2. n \in Nat
  BY <1>1, BookFields
<1>3. \A slot \in 1 .. n : IsAHead(b.levels, slot)
  BY <1>1 DEF Heads, IsFree
<1>4. PICK f : f = [slot \in 1 .. n + 1 |->
                      IF slot = n + 1 THEN <<side, price>>
                      ELSE CHOOSE at \in T :
                             \E i \in 1 .. Len(b.levels[at[1]]) :
                               /\ at[1] \in Sides
                               /\ b.levels[at[1]][i].price = at[2]
                               /\ b.levels[at[1]][i].head = slot]
  OBVIOUS
<1>5. ASSUME NEW slot \in 1 .. n
      PROVE  /\ f[slot] \in T
             /\ f[slot][1] \in Sides
             /\ \E i \in 1 .. Len(b.levels[f[slot][1]]) :
                  /\ b.levels[f[slot][1]][i].price = f[slot][2]
                  /\ b.levels[f[slot][1]][i].head = slot
  <2>0. PICK s \in Sides : \E i \in 1 .. Len(b.levels[s]) : b.levels[s][i].head = slot
    BY <1>3 DEF IsAHead
  <2>1. PICK i \in 1 .. Len(b.levels[s]) : b.levels[s][i].head = slot
    BY <2>0
  <2>2. PICK at : at = <<s, b.levels[s][i].price>>
    OBVIOUS
  <2>3. /\ at \in T /\ at[1] \in Sides
        /\ i \in 1 .. Len(b.levels[at[1]])
        /\ b.levels[at[1]][i].price = at[2]
        /\ b.levels[at[1]][i].head = slot
    BY <2>1, <2>2 DEF PricesIn
  <2>4. f[slot] = CHOOSE x \in T :
                    \E j \in 1 .. Len(b.levels[x[1]]) :
                      /\ x[1] \in Sides
                      /\ b.levels[x[1]][j].price = x[2]
                      /\ b.levels[x[1]][j].head = slot
    <3>1. slot \in 1 .. n + 1 /\ slot # n + 1
      BY <1>2
    <3> QED BY <1>4, <3>1, Zenon
  <2> QED BY <2>3, <2>4
<1>6. f[n + 1] = <<side, price>>
  BY <1>2, <1>4
<1>7. f \in [1 .. n + 1 -> T]
  <2>1. \A slot \in 1 .. n + 1 : f[slot] \in T
    <3> SUFFICES ASSUME NEW slot \in 1 .. n + 1 PROVE f[slot] \in T
      OBVIOUS
    <3>1. slot \in 1 .. n \/ slot = n + 1
      BY <1>2
    <3> QED BY <1>5, <1>6, <3>1
  <2>2. DOMAIN f = 1 .. n + 1 /\ f = [slot \in DOMAIN f |-> f[slot]]
    BY <1>4
  <2> QED BY <2>1, <2>2
<1>8. ASSUME NEW j \in 1 .. n + 1, NEW k \in 1 .. n + 1, f[j] = f[k]
      PROVE  j = k
  <2>1. \A i \in 1 .. n : f[i] # f[n + 1]
    <3> SUFFICES ASSUME NEW i \in 1 .. n, f[i] = f[n + 1] PROVE FALSE
      OBVIOUS
    <3>1. f[i][1] = side /\ f[i][2] = price
      BY <1>6
    <3> QED BY <1>5, <3>1
  <2>2. CASE j \in 1 .. n /\ k \in 1 .. n
    <3>1. PICK s, p : s = f[j][1] /\ p = f[j][2]
      OBVIOUS
    <3>2. PICK u \in 1 .. Len(b.levels[s]) : b.levels[s][u].price = p /\ b.levels[s][u].head = j
      BY <1>5, <2>2, <3>1
    <3>3. PICK v \in 1 .. Len(b.levels[s]) : b.levels[s][v].price = p /\ b.levels[s][v].head = k
      <4>1. f[k][1] = s /\ f[k][2] = p
        BY <1>8, <3>1
      <4> QED BY <1>5, <2>2, <4>1
    <3>4. s \in Sides
      BY <1>5, <2>2, <3>1
    <3>5. u = v
      <4>1. PICK levels, N : levels = b.levels /\ N = Len(b.pool.nodes)
        OBVIOUS
      <4>2. LevelsOK(levels, N) /\ Sorted(levels)
        BY <4>1, BookFields
      <4>3. /\ u \in 1 .. Len(levels[s]) /\ v \in 1 .. Len(levels[s])
            /\ levels[s][u].price = levels[s][v].price
        BY <3>2, <3>3, <4>1
      <4> QED BY <3>4, <4>2, <4>3, SortedPrices
    <3> QED BY <3>2, <3>3, <3>5
  <2>3. (j \in 1 .. n \/ j = n + 1) /\ (k \in 1 .. n \/ k = n + 1)
    BY <1>2
  <2> QED BY <1>8, <2>1, <2>2, <2>3
<1>9. f \in Injection(1 .. n + 1, T)
  BY <1>7, <1>8 DEF Injection, IsInjective
<1>10. Cardinality(1 .. n + 1) <= Cardinality(T)
  BY <1>9, FS_Injection
<1>11. Cardinality(1 .. n + 1) = n + 1
  <2>1. 1 \in Int /\ n + 1 \in Int /\ 1 <= n + 1 /\ n + 1 - 1 + 1 = n + 1
    BY <1>2
  <2> QED BY <2>1, FS_Interval
<1> QED BY <1>1, <1>10, <1>11

-----------------------------------------------------------------------------
(* The calls these programs make                                            *)

CallingOK ==
  /\ Inv
  /\ call = Idle \/ call = Aborted \/ call.op \in {"clear_level", "collapse_level"}
  /\ call.op = "collapse_level" => call.volume > 0

(* What will be shown once the running call has returned.                   *)
Pending(g) ==
  IF call.op = "clear_level" THEN SetSize(g, call.side, CalledLevel.price, 0)
  ELSE IF call.op = "collapse_level"
    THEN SetSize(g, call.side, CalledLevel.price, call.volume)
  ELSE g

Heading(G) == \E g \in SizeMap : Shows(book.levels, g) /\ G = Pending(g)

(* The book stays within the sides and prices of T.                         *)
Within(T) ==
  /\ Heads(book)
  /\ PricesIn(book.levels, T)
  /\ Len(book.pool.nodes) <= Cardinality(T)

(* Between two calls the book shows what it is heading for.                 *)
LEMMA IdleShows ==
  ASSUME call = Idle, NEW G
  PROVE  Heading(G) <=> G \in SizeMap /\ Shows(book.levels, G)
<1>1. \A g : Pending(g) = g
  BY Records DEF Pending
<1> QED BY <1>1 DEF Heading

(* The same in the next state.                                              *)
LEMMA IdleShowsNext ==
  ASSUME call' = Idle, NEW G \in SizeMap, Shows(book'.levels, G)
  PROVE  Heading(G)'
<1>1. \A g : Pending(g)' = g
  BY Records DEF Pending
<1>2. Shows(book.levels, G)'
  BY DEF Shows, Shown
<1> QED BY <1>1, <1>2 DEF Heading

(* What is headed for are sizes.                                            *)
LEMMA HeadingType ==
  ASSUME CallingOK, NEW G, Heading(G)
  PROVE  G \in SizeMap
<1>1. PICK g \in SizeMap : G = Pending(g)
  BY DEF Heading
<1>2. CASE call.op = "clear_level"
  <2>1. call.side \in Sides /\ CalledLevel.price \in Prices
    <3>1. BookOK(book) /\ call.side \in Sides /\ call.it \in 1 .. Len(book.levels[call.side])
      BY <1>2, InvFacts DEF CallingOK
    <3> QED BY <3>1, LevelFields DEF CalledLevel
  <2> QED BY <1>1, <1>2, <2>1, SetSizeIs DEF Pending
<1>3. CASE call.op = "collapse_level"
  <2>1. /\ call.side \in Sides /\ CalledLevel.price \in Prices
        /\ call.volume \in Int /\ call.volume > 0
    <3>1. /\ BookOK(book) /\ call.side \in Sides
          /\ call.it \in 1 .. Len(book.levels[call.side])
          /\ call \in [op : {"collapse_level"}, side : Sides, it : Nat, volume : Int,
                       node : Index(book)]
      BY <1>3, InvFacts DEF CallingOK
    <3>2. call.volume \in Int /\ call.volume > 0
      BY <1>3, <3>1 DEF CallingOK
    <3> QED BY <3>1, <3>2, LevelFields DEF CalledLevel
  <2>2. call.volume \in Nat
    BY <2>1
  <2> QED BY <1>1, <1>3, <2>1, <2>2, SetSizeIs DEF Pending
<1>4. CASE call.op \notin {"clear_level", "collapse_level"}
  BY <1>1, <1>4 DEF Pending
<1> QED BY <1>2, <1>3, <1>4

(* One order at a price that has none, unless the pool is exhausted.        *)
LEMMA RestSets ==
  ASSUME CallingOK, call = Idle, NEW side \in Sides, NEW price \in Prices,
         NEW v \in Nat, v > 0, NEW it \in find_level(book.levels[side], side, price),
         ~Exists(book.levels[side], it, price),
         ~Exhausted(book.pool), book' = rest(book, it, kAnonymous, side, price, v)
  PROVE  /\ \A G : /\ G \in SizeMap
                   /\ Shows(book.levels, G)
                   => Shows(book'.levels, SetSize(G, side, price, v))
         /\ \A T : IsFiniteSet(T) /\ <<side, price>> \in T /\ Within(T) => Within(T)'
<1>1. /\ BookOK(book) /\ Sorted(book.levels) /\ Occupied(book.levels)
      /\ kAnonymous \in OrderIds
  BY InvFacts, BookAssumption DEF CallingOK
<1>2. PICK w, b, c : w = [id |-> kAnonymous, volume |-> v] /\ b = book /\ c = book'
  OBVIOUS
<1>3. /\ AddsLevel(b.levels, c.levels, side, price, v, AllocatedIndex(b.pool))
      /\ SameSlots(c.pool, allocate(b.pool, w))
  <2>1. /\ BookOK(b) /\ ~Exhausted(b.pool) /\ Sorted(b.levels) /\ Occupied(b.levels)
        /\ it \in find_level(b.levels[side], side, price)
        /\ ~Exists(b.levels[side], it, price)
        /\ c = rest(b, it, kAnonymous, side, price, v)
        /\ v \in Int
    BY <1>1, <1>2
  <2> QED BY <1>1, <1>2, <2>1, RestNew
<1>4. ShowsAt(b.levels, c.levels, side, price, v)
  BY <1>1, <1>2, <1>3, BookFields, ShowsRested
<1>5. ASSUME NEW G \in SizeMap, Shows(book.levels, G)
      PROVE  Shows(book'.levels, SetSize(G, side, price, v))
  BY <1>2, <1>4, <1>5, ShowsSet
<1>6. ASSUME NEW T, IsFiniteSet(T), <<side, price>> \in T, Within(T)
      PROVE  Within(T)'
  <2>1. w \in RestingOrder
    BY <1>1, <1>2 DEF RestingOrder
  <2>3. Heads(c)
    <3>1. BookOK(b) /\ Heads(b) /\ ~Exhausted(b.pool)
      BY <1>1, <1>2, <1>6 DEF Within
    <3> QED BY <1>3, <2>1, <3>1, HeadsRested
  <2>4. PricesIn(c.levels, T)
    <3> SUFFICES ASSUME NEW s \in Sides, NEW i \in 1 .. Len(c.levels[s])
                 PROVE  <<s, c.levels[s][i].price>> \in T
      BY DEF PricesIn
    <3>1. CASE s = side /\ c.levels[s][i].price = price
      BY <1>6, <3>1
    <3>2. CASE \E j \in 1 .. Len(b.levels[s]) : c.levels[s][i].price = b.levels[s][j].price
      BY <1>2, <1>6, <3>2 DEF Within, PricesIn
    <3> QED BY <1>3, <3>1, <3>2 DEF AddsLevel
  <2>5. Len(c.pool.nodes) <= Cardinality(T)
    <3>1. PoolOK(b.pool) /\ Len(b.pool.nodes) <= Cardinality(T)
      BY <1>1, <1>2, <1>6, BookFields DEF Within
    <3>2. CASE b.pool.free_list # <<>>
      <4>1. allocate(b.pool, w).nodes
              = [b.pool.nodes EXCEPT ![Last(b.pool.free_list)] =
                  [value |-> w, next |-> null_index, prev |-> null_index]]
        BY <3>2 DEF allocate
      <4>2. Len(allocate(b.pool, w).nodes) = Len(b.pool.nodes)
        BY <3>1, <4>1 DEF PoolOK
      <4> QED BY <1>3, <3>1, <4>2 DEF SameSlots
    <3>3. CASE b.pool.free_list = <<>>
      <4>1. \A i \in 1 .. Len(book.levels[side]) : book.levels[side][i].price # price
        BY <1>1, BookFields, NotThere
      <4>2. Len(b.pool.nodes) + 1 <= Cardinality(T)
        BY <1>1, <1>2, <1>6, <3>3, <4>1, GrowsForAPrice DEF Within
      <4>3. Len(allocate(b.pool, w).nodes) = Len(b.pool.nodes) + 1
        BY <3>1, <3>3 DEF allocate, PoolOK
      <4> QED BY <1>3, <4>2, <4>3 DEF SameSlots
    <3> QED BY <3>2, <3>3
  <2> QED BY <1>2, <2>3, <2>4, <2>5 DEF Within
<1> QED BY <1>5, <1>6

(* A call that does not rest an order at once leaves the book as it is.     *)
LEMMA SameWithin ==
  ASSUME UNCHANGED book, NEW T, Within(T)
  PROVE  Within(T)'
BY DEF Within, Heads, IsFree, IsAHead, PricesIn

(* A level that is not there shows 0.                                       *)
LEMMA ShowsNothing ==
  ASSUME NEW levels, NEW side \in Sides, NEW price \in Prices,
         \A i \in 1 .. Len(levels[side]) : levels[side][i].price # price
  PROVE  ShowsAt(levels, levels, side, price, 0)
BY DEF ShowsAt, Shown

(* The end of add_order, and of a set_level that makes its level: the size  *)
(* is shown, unless the pool was exhausted.                                 *)
LEMMA RestAndReturnSets ==
  ASSUME CallingOK, call = Idle, NEW side \in Sides, NEW price \in Prices,
         NEW v \in Nat, v > 0, RestAndReturn(kAnonymous, side, price, v),
         \A i \in 1 .. Len(book.levels[side]) : book.levels[side][i].price # price
  PROVE  /\ CallingOK'
         /\ call' # Aborted => \A G : Heading(G) => Heading(SetSize(G, side, price, v))'
         /\ \A T : IsFiniteSet(T) /\ <<side, price>> \in T /\ Within(T) => Within(T)'
<1>1. /\ BookOK(book) /\ Sorted(book.levels) /\ Occupied(book.levels)
      /\ kAnonymous \in OrderIds /\ v \in Int
  BY InvFacts, BookAssumption DEF CallingOK
<1>2. CallingOK'
  <2>1. Inv'
    BY <1>1, RestAndReturnOK
  <2>2. call' = Aborted \/ call' = Idle
    BY DEF RestAndReturn
  <2> QED BY <2>1, <2>2, Records DEF CallingOK
<1>3. CASE Exhausted(book.pool)
  <2>1. call' = Aborted /\ UNCHANGED book
    BY <1>3 DEF RestAndReturn
  <2> QED BY <1>2, <2>1, SameWithin
<1>4. CASE ~Exhausted(book.pool)
  <2>1. /\ call' = Idle
        /\ \E it \in find_level(book.levels[side], side, price) :
             book' = rest(book, it, kAnonymous, side, price, v)
    BY <1>4 DEF RestAndReturn
  <2>2. PICK it \in find_level(book.levels[side], side, price) :
          book' = rest(book, it, kAnonymous, side, price, v)
    BY <2>1
  <2>3. ~Exists(book.levels[side], it, price)
    <3>1. it \in 1 .. Len(book.levels[side]) + 1 /\ Len(book.levels[side]) \in Nat
      BY <1>1, BookFields, LevelsFacts DEF find_level
    <3> QED BY <3>1 DEF Exists
  <2>4. /\ \A G : /\ G \in SizeMap
                  /\ Shows(book.levels, G)
                  => Shows(book'.levels, SetSize(G, side, price, v))
        /\ \A T : IsFiniteSet(T) /\ <<side, price>> \in T /\ Within(T) => Within(T)'
    BY <1>4, <2>2, <2>3, RestSets
  <2>5. ASSUME NEW G, Heading(G) PROVE Heading(SetSize(G, side, price, v))'
    <3>1. G \in SizeMap /\ Shows(book.levels, G)
      BY <2>5, IdleShows
    <3>2. PICK H : H = SetSize(G, side, price, v)
      OBVIOUS
    <3>3. H \in SizeMap /\ Shows(book'.levels, H)
      BY <2>4, <3>1, <3>2, SetSizeIs
    <3>4. Heading(H)'
      BY <2>1, <3>3, IdleShowsNext
    <3> QED BY <3>2, <3>4
  <2> QED BY <1>2, <2>4, <2>5
<1> QED BY <1>3, <1>4

(* set_level takes its course towards the size it is given.                 *)
LEMMA SetLevelSets ==
  ASSUME CallingOK, NEW side \in Sides, NEW price \in Prices, NEW v \in Volumes,
         SetLevel(side, price, v)
  PROVE  /\ CallingOK'
         /\ call' # Aborted => \A G : Heading(G) => Heading(SetSize(G, side, price, v))'
         /\ \A T : IsFiniteSet(T) /\ <<side, price>> \in T /\ Within(T) => Within(T)'
<1>1. /\ BookOK(book) /\ Sorted(book.levels) /\ v \in Nat /\ call = Idle
      /\ LevelsOK(book.levels, Len(book.pool.nodes))
  BY InvFacts, BookFields, MarketAssumption DEF CallingOK, SetLevel
<1>2. Inv'
  BY SetLevelOK DEF CallingOK
<1>3. PICK it \in find_level(book.levels[side], side, price) :
        LET exists == Exists(book.levels[side], it, price)
        IN  \/ /\ v <= 0
               /\ call' = IF exists THEN [op |-> "clear_level", side |-> side, it |-> it]
                                    ELSE Idle
               /\ UNCHANGED book
            \/ /\ v > 0
               /\ ~exists
               /\ RestAndReturn(kAnonymous, side, price, v)
            \/ /\ v > 0
               /\ exists
               /\ LET head == book.levels[side][it].head
                  IN  call' = [op |-> "collapse_level", side |-> side, it |-> it,
                               volume |-> v,
                               node |-> book.pool.nodes[head].next]
               /\ UNCHANGED book
  BY DEF SetLevel
<1>4. CASE Exists(book.levels[side], it, price) /\ v = 0
  <2>1. /\ call' = [op |-> "clear_level", side |-> side, it |-> it] /\ book' = book
        /\ book.levels[side][it].price = price
    BY <1>3, <1>4 DEF Exists
  <2>2. call'.op = "clear_level" /\ call'.side = side /\ CalledLevel'.price = price
    BY <2>1 DEF CalledLevel
  <2>3. CallingOK'
    BY <1>2, <2>2 DEF CallingOK
  <2>4. ASSUME NEW G, Heading(G) PROVE Heading(SetSize(G, side, price, v))'
    <3>1. G \in SizeMap /\ Shows(book.levels, G)
      BY <1>1, <2>4, IdleShows
    <3>2. Pending(G)' = SetSize(G, side, price, v)
      BY <1>4, <2>2 DEF Pending
    <3>3. Shows(book.levels, G)'
      BY <2>1, <3>1
    <3> QED BY <3>1, <3>2, <3>3 DEF Heading
  <2> QED BY <2>1, <2>3, <2>4, SameWithin
<1>5. CASE ~Exists(book.levels[side], it, price) /\ v = 0
  <2>1. call' = Idle /\ book' = book
    BY <1>3, <1>5
  <2>2. CallingOK'
    BY <1>2, <2>1, Records DEF CallingOK
  <2>3. ShowsAt(book.levels, book.levels, side, price, v)
    <3>1. \A i \in 1 .. Len(book.levels[side]) : book.levels[side][i].price # price
      BY <1>1, <1>5, NotThere
    <3> QED BY <1>5, <3>1, ShowsNothing
  <2>4. ASSUME NEW G, Heading(G) PROVE Heading(SetSize(G, side, price, v))'
    <3>1. G \in SizeMap /\ Shows(book.levels, G)
      BY <1>1, <2>4, IdleShows
    <3>2. PICK H : H = SetSize(G, side, price, v)
      OBVIOUS
    <3>3. H \in SizeMap /\ Shows(book.levels, H)
      BY <1>1, <2>3, <3>1, <3>2, SetSizeIs, ShowsSet
    <3>4. Heading(H)'
      BY <2>1, <3>3, IdleShowsNext
    <3> QED BY <3>2, <3>4
  <2> QED BY <2>1, <2>2, <2>4, SameWithin
<1>6. CASE ~Exists(book.levels[side], it, price) /\ v > 0
  <2>1. RestAndReturn(kAnonymous, side, price, v)
    BY <1>1, <1>3, <1>6
  <2>2. \A i \in 1 .. Len(book.levels[side]) : book.levels[side][i].price # price
    BY <1>1, <1>6, NotThere
  <2> QED BY <1>1, <1>6, <2>1, <2>2, RestAndReturnSets
<1>7. CASE Exists(book.levels[side], it, price) /\ v > 0
  <2>1. /\ call' = [op |-> "collapse_level", side |-> side, it |-> it, volume |-> v,
                    node |-> book.pool.nodes[book.levels[side][it].head].next]
        /\ book' = book /\ book.levels[side][it].price = price
    BY <1>1, <1>3, <1>7 DEF Exists
  <2>2. /\ call'.op = "collapse_level" /\ call'.side = side /\ call'.volume = v
        /\ CalledLevel'.price = price
    BY <2>1 DEF CalledLevel
  <2>3. CallingOK'
    BY <1>2, <1>7, <2>2 DEF CallingOK
  <2>4. ASSUME NEW G, Heading(G) PROVE Heading(SetSize(G, side, price, v))'
    <3>1. G \in SizeMap /\ Shows(book.levels, G)
      BY <1>1, <2>4, IdleShows
    <3>2. Pending(G)' = SetSize(G, side, price, v)
      BY <2>2 DEF Pending
    <3>3. Shows(book.levels, G)'
      BY <2>1, <3>1
    <3> QED BY <3>1, <3>2, <3>3 DEF Heading
  <2> QED BY <2>1, <2>3, <2>4, SameWithin
<1>8. v = 0 \/ v > 0
  BY <1>1
<1> QED BY <1>4, <1>5, <1>6, <1>7, <1>8

(* add_order at a price that has no order.                                  *)
LEMMA AddOrderSets ==
  ASSUME CallingOK, NEW side \in Sides, NEW price \in Prices, NEW v \in Nat, v > 0,
         AddOrder(side, price, v), NEW G, Heading(G), G[side][price] = 0
  PROVE  /\ CallingOK'
         /\ call' # Aborted => Heading(SetSize(G, side, price, v))'
<1>1. call = Idle /\ RestAndReturn(kAnonymous, side, price, v)
  BY DEF AddOrder
<1>2. G \in SizeMap /\ Shows(book.levels, G)
  BY <1>1, IdleShows
<1>3. \A i \in 1 .. Len(book.levels[side]) : book.levels[side][i].price # price
  <2>1. Shown(book.levels, side, price, 0)
    BY <1>2 DEF Shows
  <2> QED BY <2>1 DEF Shown
<1> QED BY <1>1, <1>3, RestAndReturnSets

(* A pop of a level that is being removed.                                  *)
LEMMA ClearStepHeads ==
  ASSUME CallingOK, ClearStep
  PROVE  /\ CallingOK'
         /\ \A G : Heading(G) => Heading(G)'
         /\ \A T : Within(T) => Within(T)'
<1>1. /\ BookOK(book) /\ call.op = "clear_level" /\ call.side \in Sides
      /\ call.it \in 1 .. Len(book.levels[call.side])
      /\ CalledLevel.head # kNull /\ UNCHANGED call
      /\ book' = pop_front(book, call.side, call.it)
  BY InvFacts DEF CallingOK, ClearStep
<1>2. CallingOK'
  <2>1. Inv'
    BY ClearStepOK DEF CallingOK
  <2> QED BY <1>1, <2>1 DEF CallingOK
<1>3. /\ SamePrices(book.levels, book'.levels, call.side, call.it)
      /\ book'.levels[call.side][call.it].total_volume
           = book.levels[call.side][call.it].total_volume
      /\ book'.pool.free_list
           = Append(book.pool.free_list, book.levels[call.side][call.it].head)
      /\ Len(book'.pool.nodes) = Len(book.pool.nodes)
  <2>1. PICK b, c, side, it : b = book /\ c = book' /\ side = call.side /\ it = call.it
    OBVIOUS
  <2>2. /\ BookOK(b) /\ side \in Sides /\ it \in 1 .. Len(b.levels[side])
        /\ b.levels[side][it].head # kNull /\ c = pop_front(b, side, it)
    BY <1>1, <2>1 DEF CalledLevel
  <2>3. /\ SamePrices(b.levels, c.levels, side, it)
        /\ c.levels[side][it].total_volume = b.levels[side][it].total_volume
        /\ c.pool.free_list = Append(b.pool.free_list, b.levels[side][it].head)
        /\ Len(c.pool.nodes) = Len(b.pool.nodes)
    BY <2>2, PopFields
  <2> QED BY <2>1, <2>3
<1>4. ASSUME NEW G, Heading(G) PROVE Heading(G)'
  <2>1. PICK g \in SizeMap : Shows(book.levels, g) /\ G = Pending(g)
    BY <1>4 DEF Heading
  <2>2. Shows(book'.levels, g)
    BY <1>3, <2>1, ShowsAgain
  <2>3. CalledLevel'.price = CalledLevel.price
    BY <1>1, <1>3 DEF CalledLevel, SamePrices
  <2>4. Pending(g)' = Pending(g)
    BY <1>1, <2>3 DEF Pending
  <2> QED BY <2>1, <2>2, <2>4 DEF Heading
<1>5. ASSUME NEW T, Within(T) PROVE Within(T)'
  <2>1. Heads(book')
    BY <1>1, <1>5, HeadsPopped DEF Within, CalledLevel
  <2>2. PricesIn(book'.levels, T)
    BY <1>3, <1>5 DEF Within, PricesIn, SamePrices
  <2> QED BY <1>3, <1>5, <2>1, <2>2 DEF Within
<1> QED BY <1>2, <1>4, <1>5

(* The removed level goes.                                                  *)
LEMMA ClearReturnHeads ==
  ASSUME CallingOK, ClearReturn
  PROVE  /\ CallingOK'
         /\ \A G : Heading(G) => Heading(G)'
         /\ \A T : Within(T) => Within(T)'
<1>1. /\ BookOK(book) /\ Sorted(book.levels)
      /\ call.op = "clear_level" /\ call.side \in Sides
      /\ call.it \in 1 .. Len(book.levels[call.side])
      /\ CalledLevel.head = kNull /\ call' = Idle
      /\ book' = erase_if_empty(book, call.side, call.it)
  BY InvFacts DEF CallingOK, ClearReturn
<1>2. CallingOK'
  <2>1. Inv'
    BY DrainReturnOK DEF CallingOK
  <2> QED BY <1>1, <2>1, Records DEF CallingOK
<1>3. PICK side, it : side = call.side /\ it = call.it
  OBVIOUS
<1>4. /\ book'.pool = book.pool /\ book'.levels = Without(book.levels, side, it)
      /\ side \in Sides /\ it \in 1 .. Len(book.levels[side])
      /\ book.levels[side][it].head = kNull
  BY <1>1, <1>3 DEF erase_if_empty, Without, CalledLevel
<1>5. ASSUME NEW G, Heading(G) PROVE Heading(G)'
  <2>1. PICK g \in SizeMap : Shows(book.levels, g) /\ G = Pending(g)
    BY <1>5 DEF Heading
  <2>2. PICK price : price = book.levels[side][it].price
    OBVIOUS
  <2>3. price \in Prices /\ G = SetSize(g, side, price, 0)
    <3>1. price \in Prices
      BY <1>1, <1>4, <2>2, LevelFields
    <3> QED BY <1>1, <1>3, <2>1, <2>2, <3>1 DEF Pending, CalledLevel
  <2>4. ShowsAt(book.levels, book'.levels, side, price, 0)
    BY <1>1, <1>4, <2>2, BookFields, ShowsErased
  <2>5. Shows(book'.levels, G) /\ G \in SizeMap
    BY <2>1, <2>3, <2>4, <1>4, ShowsSet, SetSizeIs
  <2> QED BY <1>1, <2>5, IdleShowsNext
<1>6. ASSUME NEW T, Within(T) PROVE Within(T)'
  <2>1. Heads(book')
    BY <1>1, <1>4, <1>6, HeadsErased DEF Within
  <2>2. PricesIn(book'.levels, T)
    <3>1. /\ \A s \in Sides \ {side} : book'.levels[s] = book.levels[s]
          /\ Len(book'.levels[side]) = Len(book.levels[side]) - 1
          /\ \A j \in 1 .. Len(book.levels[side]) - 1 :
               book'.levels[side][j] =
                 IF j < it THEN book.levels[side][j] ELSE book.levels[side][j + 1]
          /\ Len(book.levels[side]) \in Nat
      <4>1. LevelsOK(book.levels, Len(book.pool.nodes)) /\ side \in Sides
        BY <1>1, <1>4, BookFields
      <4>2. Len(book.levels[side]) \in Nat
        BY <4>1, LevelsFacts
      <4>3. PICK m : m = Without(book.levels, side, it)
        OBVIOUS
      <4>4. /\ \A s \in Sides \ {side} : m[s] = book.levels[s]
            /\ Len(m[side]) = Len(book.levels[side]) - 1
            /\ \A j \in 1 .. Len(book.levels[side]) - 1 :
                 m[side][j] =
                   IF j < it THEN book.levels[side][j] ELSE book.levels[side][j + 1]
        BY <1>4, <4>1, <4>3, WithoutFacts, SMTT(30)
      <4> QED BY <1>4, <4>2, <4>3, <4>4
    <3> SUFFICES ASSUME NEW s \in Sides, NEW i \in 1 .. Len(book'.levels[s])
                 PROVE  <<s, book'.levels[s][i].price>> \in T
      BY DEF PricesIn
    <3>2. CASE s # side
      BY <1>6, <3>1, <3>2 DEF Within, PricesIn
    <3>3. CASE s = side /\ i < it
      <4>1. i \in 1 .. Len(book.levels[s]) /\ book'.levels[s][i] = book.levels[s][i]
        BY <3>1, <3>3
      <4> QED BY <1>6, <4>1 DEF Within, PricesIn
    <3>4. CASE s = side /\ ~(i < it)
      <4>1. i + 1 \in 1 .. Len(book.levels[s]) /\ book'.levels[s][i] = book.levels[s][i + 1]
        BY <3>1, <3>4
      <4> QED BY <1>6, <4>1 DEF Within, PricesIn
    <3> QED BY <3>2, <3>3, <3>4
  <2> QED BY <1>4, <1>6, <2>1, <2>2 DEF Within
<1> QED BY <1>2, <1>5, <1>6

(* A node behind the head goes.                                             *)
LEMMA CollapseStepHeads ==
  ASSUME CallingOK, CollapseStep
  PROVE  /\ CallingOK'
         /\ \A G : Heading(G) => Heading(G)'
         /\ \A T : Within(T) => Within(T)'
<1>1. /\ BookOK(book) /\ call.op = "collapse_level" /\ call.side \in Sides
      /\ call.it \in 1 .. Len(book.levels[call.side])
      /\ call \in [op : {"collapse_level"}, side : Sides, it : Nat, volume : Int,
                   node : Index(book)]
      /\ call.volume > 0
      /\ call' = [call EXCEPT !.node = book.pool.nodes[call.node].next]
      /\ book'.levels = book.levels
      /\ book'.pool = deallocate(book.pool, call.node)
  BY InvFacts DEF CallingOK, CollapseStep
<1>2. /\ call'.op = call.op /\ call'.side = call.side /\ call'.it = call.it
      /\ call'.volume = call.volume
  BY <1>1
<1>3. CallingOK'
  <2>1. Inv'
    BY CollapseStepOK DEF CallingOK
  <2> QED BY <1>1, <1>2, <2>1 DEF CallingOK
<1>4. ASSUME NEW G, Heading(G) PROVE Heading(G)'
  <2>1. PICK g \in SizeMap : Shows(book.levels, g) /\ G = Pending(g)
    BY <1>4 DEF Heading
  <2>2. Shows(book'.levels, g)
    BY <1>1, <2>1
  <2>3. Pending(g)' = Pending(g)
    BY <1>1, <1>2 DEF Pending, CalledLevel
  <2> QED BY <2>1, <2>2, <2>3 DEF Heading
<1>5. ASSUME NEW T, Within(T) PROVE Within(T)'
  <2>1. /\ book'.pool.free_list = Append(book.pool.free_list, call.node)
        /\ Len(book'.pool.nodes) = Len(book.pool.nodes)
    BY <1>1 DEF deallocate
  <2>2. Heads(book')
    <3>1. \A k \in 1 .. Len(book.pool.free_list) :
            IsFree(book'.pool, book.pool.free_list[k])
      BY <1>1, <2>1, FreedToo
    <3>2. \A s \in Sides : \A i \in 1 .. Len(book.levels[s]) :
            IsAHead(book'.levels, book.levels[s][i].head)
      BY <1>1 DEF IsAHead
    <3> QED BY <1>5, <2>1, <3>1, <3>2, HeadsKept DEF Within
  <2> QED BY <1>1, <1>5, <2>1, <2>2 DEF Within
<1> QED BY <1>3, <1>4, <1>5

(* The head of a collapsed level takes the new size.                        *)
LEMMA CollapseReturnHeads ==
  ASSUME CallingOK, CollapseReturn
  PROVE  /\ CallingOK'
         /\ \A G : Heading(G) => Heading(G)'
         /\ \A T : Within(T) => Within(T)'
<1>1. /\ BookOK(book) /\ Sorted(book.levels)
      /\ call.op = "collapse_level" /\ call.side \in Sides
      /\ call.it \in 1 .. Len(book.levels[call.side])
      /\ call \in [op : {"collapse_level"}, side : Sides, it : Nat, volume : Int,
                   node : Index(book)]
      /\ call.volume > 0 /\ call' = Idle
  BY InvFacts DEF CallingOK, CollapseReturn
<1>2. CallingOK'
  <2>1. Inv'
    BY CollapseReturnOK DEF CallingOK
  <2> QED BY <1>1, <2>1, Records DEF CallingOK
<1>3. PICK side, it, v : side = call.side /\ it = call.it /\ v = call.volume
  OBVIOUS
<1>4. PICK lvl : lvl = book.levels[side][it]
  OBVIOUS
<1>5. PICK L : L = [price |-> lvl.price, total_volume |-> v, head |-> lvl.head,
                    tail |-> lvl.head]
  OBVIOUS
<1>6. /\ side \in Sides /\ it \in 1 .. Len(book.levels[side]) /\ v \in Int /\ v > 0
      /\ lvl.price \in Prices /\ lvl.head \in 0 .. Len(book.pool.nodes)
      /\ LevelsOK(book.levels, Len(book.pool.nodes))
  <2>1. side \in Sides /\ it \in 1 .. Len(book.levels[side]) /\ v \in Int /\ v > 0
    BY <1>1, <1>3
  <2> QED BY <1>1, <1>4, <2>1, LevelFields, BookFields
<1>7. /\ book'.levels = PutLevel(book.levels, side, it, L)
      /\ book'.pool.free_list = book.pool.free_list
      /\ Len(book'.pool.nodes) = Len(book.pool.nodes)
  <2>1. CalledLevel = lvl
    BY <1>3, <1>4 DEF CalledLevel
  <2>2. book'.levels = PutLevel(book.levels, side, it, L)
    BY <1>3, <1>5, <2>1 DEF CollapseReturn, PutLevel
  <2>3. book'.pool = set_value(set_next(book.pool, lvl.head, kNull), lvl.head,
                               [id |-> book.pool.nodes[lvl.head].value.id, volume |-> v])
    BY <1>3, <2>1 DEF CollapseReturn
  <2> QED BY <2>2, <2>3 DEF set_value, set_next
<1>8. /\ SamePrices(book.levels, book'.levels, side, it)
      /\ book'.levels[side][it] = L
  <2>1. L \in LevelType(Len(book.pool.nodes)) /\ L.price = book.levels[side][it].price
    BY <1>4, <1>5, <1>6 DEF LevelType
  <2> QED BY <1>6, <1>7, <2>1, LevelUpdate
<1>9. ASSUME NEW G, Heading(G) PROVE Heading(G)'
  <2>1. PICK g \in SizeMap : Shows(book.levels, g) /\ G = Pending(g)
    BY <1>9 DEF Heading
  <2>2. G = SetSize(g, side, lvl.price, v)
    BY <1>1, <1>3, <1>4, <2>1 DEF Pending, CalledLevel
  <2>3. ShowsAt(book.levels, book'.levels, side, lvl.price, v)
    <3>1. book'.levels[side][it].total_volume = v
      BY <1>5, <1>8
    <3> QED BY <1>4, <1>6, <1>8, <3>1, ShowsRevalued
  <2>4. Shows(book'.levels, G) /\ G \in SizeMap
    <3>1. v \in Nat
      BY <1>6
    <3> QED BY <1>6, <2>1, <2>2, <2>3, <3>1, ShowsSet, SetSizeIs
  <2> QED BY <1>1, <2>4, IdleShowsNext
<1>10. ASSUME NEW T, Within(T) PROVE Within(T)'
  <2>1. Heads(book')
    <3>1. \A k \in 1 .. Len(book.pool.free_list) :
            IsFree(book'.pool, book.pool.free_list[k])
      BY <1>7 DEF IsFree
    <3>2. ASSUME NEW s \in Sides, NEW i \in 1 .. Len(book.levels[s])
          PROVE  IsAHead(book'.levels, book.levels[s][i].head)
      <4>1. /\ i \in 1 .. Len(book'.levels[s])
            /\ book'.levels[s][i].head = book.levels[s][i].head
        BY <1>4, <1>5, <1>8 DEF SamePrices
      <4> QED BY <4>1 DEF IsAHead
    <3> QED BY <1>7, <1>10, <3>1, <3>2, HeadsKept DEF Within
  <2>2. PricesIn(book'.levels, T)
    BY <1>8, <1>10 DEF Within, PricesIn, SamePrices
  <2> QED BY <1>7, <1>10, <2>1, <2>2 DEF Within
<1> QED BY <1>2, <1>9, <1>10

(* Every step of a running call.                                            *)
LEMMA RunningHeads ==
  ASSUME CallingOK, Running
  PROVE  /\ CallingOK'
         /\ \A G : Heading(G) => Heading(G)'
         /\ \A T : Within(T) => Within(T)'
<1>1. ClearStep \/ ClearReturn \/ CollapseStep \/ CollapseReturn
  BY Records DEF CallingOK, Running, MatchStep, MatchReturn, DeleteStep, DeleteReturn
<1>2. CASE ClearStep
  BY <1>2, ClearStepHeads
<1>3. CASE ClearReturn
  BY <1>3, ClearReturnHeads
<1>4. CASE CollapseStep
  BY <1>4, CollapseStepHeads
<1>5. CASE CollapseReturn
  BY <1>5, CollapseReturnHeads
<1> QED BY <1>1, <1>2, <1>3, <1>4, <1>5

-----------------------------------------------------------------------------
(* What is still to be set                                                  *)

(* The entries for a price that are still to be set, and what the last of   *)
(* them sets.                                                               *)
EntriesAt(todo, side, p) ==
  {k \in 1 .. Len(todo) : todo[k].side = side /\ todo[k].price = p}

EntrySize(todo, side, p, before) ==
  LastOr(EntriesAt(todo, side, p), [k \in 1 .. Len(todo) |-> todo[k].volume], before)

(* It is what the last of them sets.                                        *)
LEMMA EntrySizeIs ==
  ASSUME NEW todo \in Seq(Item), NEW side, NEW p, NEW before
  PROVE  /\ \A k : IsLast(k, EntriesAt(todo, side, p))
                     => EntrySize(todo, side, p, before) = todo[k].volume
         /\ \/ EntriesAt(todo, side, p) = {}
            \/ \E k : IsLast(k, EntriesAt(todo, side, p))
         /\ EntriesAt(todo, side, p) = {} => EntrySize(todo, side, p, before) = before
<1>1. PICK T, val, n : /\ T = EntriesAt(todo, side, p)
                       /\ val = [k \in 1 .. Len(todo) |-> todo[k].volume]
                       /\ n = Len(todo)
  OBVIOUS
<1>2. n \in Nat /\ T \in SUBSET (1 .. n)
  BY <1>1 DEF EntriesAt
<1>3. /\ \A k : IsLast(k, T) => LastOr(T, val, before) = val[k]
      /\ T = {} \/ \E k : IsLast(k, T)
  BY <1>2, LastOrIs
<1>4. EntrySize(todo, side, p, before) = LastOr(T, val, before)
  BY <1>1 DEF EntrySize
<1>5. ASSUME NEW k, IsLast(k, T)
      PROVE  EntrySize(todo, side, p, before) = todo[k].volume
  <2>1. k \in 1 .. Len(todo)
    BY <1>1, <1>2, <1>5 DEF IsLast
  <2> QED BY <1>1, <1>3, <1>4, <1>5, <2>1
<1>6. T = {} => EntrySize(todo, side, p, before) = before
  BY <1>4 DEF LastOr
<1> QED BY <1>1, <1>3, <1>5, <1>6

(* The first of them is set.                                                *)
LEMMA EntryHead ==
  ASSUME NEW todo \in Seq(Item), todo # <<>>, NEW side, NEW p, NEW before, NEW now,
         now = IF Head(todo).side = side /\ Head(todo).price = p
                 THEN Head(todo).volume ELSE before
  PROVE  EntrySize(todo, side, p, before) = EntrySize(Tail(todo), side, p, now)
<1>1. PICK t, n : t = Tail(todo) /\ n = Len(todo)
  OBVIOUS
<1>2. /\ n \in Nat /\ n >= 1 /\ t \in Seq(Item) /\ Len(t) = n - 1
      /\ \A k \in 1 .. n - 1 : t[k] = todo[k + 1]
      /\ Head(todo) = todo[1]
  BY <1>1
<1>3. PICK T, U : T = EntriesAt(todo, side, p) /\ U = EntriesAt(t, side, p)
  OBVIOUS
<1>4. /\ \A k \in 1 .. n - 1 : k \in U <=> k + 1 \in T
      /\ U \subseteq 1 .. n - 1 /\ T \subseteq 1 .. n
      /\ 1 \in T <=> todo[1].side = side /\ todo[1].price = p
  BY <1>1, <1>2, <1>3 DEF EntriesAt
<1>5. CASE U = {}
  <2>1. EntrySize(t, side, p, now) = now
    <3>1. \A v : EntrySize(t, side, p, v) = v
      BY <1>3, <1>5 DEF EntrySize, LastOr
    <3> QED BY <3>1
  <2>2. CASE 1 \in T
    <3>1. IsLast(1, T)
      <4> SUFFICES ASSUME NEW j \in T PROVE j <= 1
        BY <2>2 DEF IsLast
      <4> SUFFICES ASSUME j > 1 PROVE FALSE
        BY <1>2, <1>4
      <4>1. j - 1 \in 1 .. n - 1 /\ j - 1 + 1 = j
        BY <1>2, <1>4
      <4> QED BY <1>4, <1>5, <4>1
    <3>2. EntrySize(todo, side, p, before) = todo[1].volume
      BY <1>3, <3>1, EntrySizeIs
    <3> QED BY <1>1, <1>2, <1>4, <2>1, <2>2, <3>2
  <2>3. CASE 1 \notin T
    <3>1. T = {}
      <4> SUFFICES ASSUME NEW j \in T PROVE FALSE
        OBVIOUS
      <4>1. j \in 1 .. n /\ j # 1
        BY <1>4, <2>3
      <4>2. j - 1 \in 1 .. n - 1 /\ j - 1 + 1 = j
        BY <1>2, <4>1
      <4> QED BY <1>4, <1>5, <4>2
    <3>2. EntrySize(todo, side, p, before) = before
      BY <1>3, <3>1, EntrySizeIs
    <3> QED BY <1>1, <1>2, <1>4, <2>1, <2>3, <3>2
  <2> QED BY <2>2, <2>3
<1>6. CASE U # {}
  <2>1. PICK k : IsLast(k, U)
    BY <1>2, <1>3, <1>6, EntrySizeIs
  <2>2. k \in 1 .. n - 1 /\ k + 1 \in T
    BY <1>4, <2>1 DEF IsLast
  <2>3. IsLast(k + 1, T)
    <3> SUFFICES ASSUME NEW j \in T PROVE j <= k + 1
      BY <2>2 DEF IsLast
    <3>1. j \in 1 .. n
      BY <1>4
    <3>2. CASE j = 1
      BY <1>2, <2>2, <3>2
    <3>3. CASE j # 1
      <4>1. j - 1 \in 1 .. n - 1 /\ j - 1 + 1 = j
        BY <1>2, <3>1, <3>3
      <4>2. j - 1 \in U
        BY <1>4, <4>1
      <4>3. j - 1 <= k
        BY <2>1, <4>2 DEF IsLast
      <4> QED BY <2>2, <3>1, <4>3
    <3> QED BY <3>2, <3>3
  <2>4. EntrySize(t, side, p, now) = t[k].volume
    BY <1>2, <1>3, <2>1, EntrySizeIs
  <2>5. EntrySize(todo, side, p, before) = todo[k + 1].volume
    BY <1>3, <2>3, EntrySizeIs
  <2> QED BY <1>1, <1>2, <2>2, <2>4, <2>5
<1> QED BY <1>5, <1>6

(* One sequence after another.                                              *)
IsConcat(t, A, B) ==
  /\ Len(A) \in Nat /\ Len(B) \in Nat /\ Len(t) = Len(A) + Len(B)
  /\ \A k \in 1 .. Len(A) : t[k] = A[k]
  /\ \A k \in 1 .. Len(B) : t[Len(A) + k] = B[k]

LEMMA AfterAnother ==
  ASSUME NEW S, NEW A \in Seq(S), NEW B \in Seq(S)
  PROVE  IsConcat(A \o B, A, B)
BY DEF IsConcat

EntryOf(side, l) == [side |-> side, price |-> l.price, volume |-> l.volume]

Loops(x, y) == [k \in DOMAIN x |-> EntryOf("BID", x[k])]
                 \o [k \in DOMAIN y |-> EntryOf("ASK", y[k])]

AreLoops(t, x, y, m, n) ==
  /\ m \in Nat /\ n \in Nat /\ Len(t) = m + n
  /\ \A k \in 1 .. m : t[k] = EntryOf("BID", x[k])
  /\ \A k \in 1 .. n : t[m + k] = EntryOf("ASK", y[k])

LEMMA EntryOfFields ==
  \A side, l : /\ EntryOf(side, l).side = side
               /\ EntryOf(side, l).price = l.price
               /\ EntryOf(side, l).volume = l.volume
BY DEF EntryOf

(* The loops over the bids x and the asks y of a change.                    *)
LEMMA LoopsAre ==
  ASSUME NEW x \in Seq(Entry), NEW y \in Seq(Entry), NEW t, t = Loops(x, y),
         NEW m, m = Len(x), NEW n, n = Len(y)
  PROVE  AreLoops(t, x, y, m, n)
<1>1. PICK A, B : /\ A = [k \in DOMAIN x |-> EntryOf("BID", x[k])]
                  /\ B = [k \in DOMAIN y |-> EntryOf("ASK", y[k])]
  OBVIOUS
<1>3. m \in Nat /\ n \in Nat /\ DOMAIN x = 1 .. m /\ DOMAIN y = 1 .. n
  OBVIOUS
<1>4. PICK S : S = {EntryOf("BID", x[k]) : k \in 1 .. m} \cup {EntryOf("ASK", y[k]) : k \in 1 .. n}
  OBVIOUS
<1>5. A \in [1 .. m -> S] /\ B \in [1 .. n -> S]
  BY <1>1, <1>3, <1>4
<1>6. A \in Seq(S) /\ B \in Seq(S) /\ Len(A) = m /\ Len(B) = n
  <2>1. A \in Seq(S) /\ DOMAIN A = 1 .. m
    BY <1>3, <1>5
  <2>2. B \in Seq(S) /\ DOMAIN B = 1 .. n
    BY <1>3, <1>5
  <2> QED BY <1>3, <2>1, <2>2
<1>7. /\ Len(t) = m + n
      /\ \A k \in 1 .. m : t[k] = A[k]
      /\ \A k \in 1 .. n : t[m + k] = B[k]
  <2>1. t = A \o B
    BY <1>1 DEF Loops
  <2>2. /\ Len(t) = Len(A) + Len(B)
        /\ \A k \in 1 .. Len(A) : t[k] = A[k]
        /\ \A k \in 1 .. Len(B) : t[Len(A) + k] = B[k]
    <3>1. IsConcat(t, A, B)
      BY <1>6, <2>1, AfterAnother
    <3> QED BY <3>1 DEF IsConcat
  <2> QED BY <1>6, <2>2
<1> QED BY <1>1, <1>3, <1>7 DEF AreLoops

(* Where the entries for a price are, on either side.                       *)
LEMMA InOrderAt ==
  ASSUME NEW c \in Change, NEW todo, todo = InOrder(c), NEW side \in Sides, NEW p
  PROVE  \E d \in Nat :
           /\ Len(c[side]) \in Nat
           /\ \A k \in 1 .. Len(c[side]) :
                /\ d + k \in EntriesAt(todo, side, p) <=> k \in Sets(c, side, p)
                /\ todo[d + k].volume = c[side][k].volume
           /\ \A j \in EntriesAt(todo, side, p) : j - d \in Sets(c, side, p)
<1>1. PICK x, y, q : x = c["BID"] /\ y = c["ASK"] /\ q = c[side]
  OBVIOUS
<1>2. PICK m, n : m = Len(x) /\ n = Len(y)
  OBVIOUS
<1>3. /\ x \in Seq(Entry) /\ y \in Seq(Entry) /\ q \in Seq(Entry)
      /\ todo = Loops(x, y)
  <2>1. x \in Seq(Entry) /\ y \in Seq(Entry) /\ q \in Seq(Entry)
    BY <1>1 DEF Change, Sides
  <2>2. todo = Loops(x, y)
    BY <1>1 DEF InOrder, Loops, EntryOf
  <2> QED BY <2>1, <2>2
<1>4. /\ m \in Nat /\ n \in Nat /\ Len(todo) = m + n
      /\ \A k \in 1 .. m : todo[k] = EntryOf("BID", x[k])
      /\ \A k \in 1 .. n : todo[m + k] = EntryOf("ASK", y[k])
  <2>1. AreLoops(todo, x, y, m, n)
    BY <1>2, <1>3, LoopsAre
  <2> QED BY <2>1 DEF AreLoops
<1>5. \A k : k \in Sets(c, side, p) <=> k \in 1 .. Len(q) /\ q[k].price = p
  BY <1>1, <1>3 DEF Sets
<1>6. \A k : k \in EntriesAt(todo, side, p)
               <=> k \in 1 .. m + n /\ todo[k].side = side /\ todo[k].price = p
  BY <1>4 DEF EntriesAt
<1>7. \E d \in Nat :
        /\ Len(q) \in Nat
        /\ \A k \in 1 .. Len(q) :
             /\ d + k \in 1 .. m + n /\ todo[d + k].side = side
             /\ todo[d + k].price = q[k].price
             /\ todo[d + k].volume = q[k].volume
        /\ \A j \in 1 .. m + n : todo[j].side = side =>
             j - d \in 1 .. Len(q) /\ d + (j - d) = j
  <2>0. \A j \in 1 .. m + n : j \in 1 .. m \/ (j - m \in 1 .. n /\ m + (j - m) = j)
    BY <1>4
  <2>1. CASE side = "BID"
    <3>1. q = x /\ Len(q) = m
      BY <1>1, <1>2, <2>1
    <3>2. \A k \in 1 .. m : /\ 0 + k \in 1 .. m + n /\ todo[0 + k].side = side
                            /\ todo[0 + k].price = x[k].price
                            /\ todo[0 + k].volume = x[k].volume
      BY <1>4, <2>1, EntryOfFields
    <3>3. ASSUME NEW j \in 1 .. m + n, todo[j].side = side
          PROVE  j - 0 \in 1 .. m /\ 0 + (j - 0) = j
      <4>1. ~(j - m \in 1 .. n /\ m + (j - m) = j)
        <5> SUFFICES ASSUME j - m \in 1 .. n, m + (j - m) = j PROVE FALSE
          OBVIOUS
        <5>1. todo[m + (j - m)].side = "ASK"
          BY <1>4, EntryOfFields
        <5> QED BY <2>1, <3>3, <5>1
      <4> QED BY <2>0, <4>1
    <3> QED BY <1>4, <3>1, <3>2, <3>3
  <2>2. CASE side = "ASK"
    <3>1. q = y /\ Len(q) = n
      BY <1>1, <1>2, <2>2
    <3>2. \A k \in 1 .. n : /\ m + k \in 1 .. m + n /\ todo[m + k].side = side
                            /\ todo[m + k].price = y[k].price
                            /\ todo[m + k].volume = y[k].volume
      BY <1>4, <2>2, EntryOfFields
    <3>3. ASSUME NEW j \in 1 .. m + n, todo[j].side = side
          PROVE  j - m \in 1 .. n /\ m + (j - m) = j
      <4>1. j \notin 1 .. m
        BY <1>4, <2>2, <3>3, EntryOfFields
      <4> QED BY <2>0, <4>1
    <3> QED BY <1>4, <3>1, <3>2, <3>3
  <2> QED BY <2>1, <2>2 DEF Sides
<1>8. PICK d \in Nat :
        /\ Len(q) \in Nat
        /\ \A k \in 1 .. Len(q) :
             /\ d + k \in 1 .. m + n /\ todo[d + k].side = side
             /\ todo[d + k].price = q[k].price
             /\ todo[d + k].volume = q[k].volume
        /\ \A j \in 1 .. m + n : todo[j].side = side =>
             j - d \in 1 .. Len(q) /\ d + (j - d) = j
  BY <1>7
<1>9. ASSUME NEW j \in EntriesAt(todo, side, p)
      PROVE  j - d \in Sets(c, side, p)
  <2>1. j \in 1 .. m + n /\ todo[j].side = side /\ todo[j].price = p
    BY <1>6
  <2>2. j - d \in 1 .. Len(q) /\ d + (j - d) = j
    BY <1>8, <2>1
  <2>3. q[j - d].price = p
    BY <1>8, <2>1, <2>2
  <2> QED BY <1>5, <2>2, <2>3
<1>10. \A k \in 1 .. Len(q) : d + k \in EntriesAt(todo, side, p) <=> k \in Sets(c, side, p)
  BY <1>5, <1>6, <1>8
<1> QED BY <1>1, <1>8, <1>9, <1>10

(* They set what the change sets.                                           *)
LEMMA InOrderSets ==
  ASSUME NEW c \in Change, NEW todo, todo = InOrder(c)
  PROVE  /\ \A side \in Sides : \A p, before :
              EntrySize(todo, side, p, before) = SizeOr(c, side, p, before)
         /\ \A k \in 1 .. Len(todo) :
              todo[k].side \in Sides /\ Sets(c, todo[k].side, todo[k].price) # {}
<1>1. todo \in Seq(Item)
  BY InOrderType
<1>2. ASSUME NEW k \in 1 .. Len(todo)
      PROVE  todo[k].side \in Sides /\ Sets(c, todo[k].side, todo[k].price) # {}
  <2>0. todo[k] \in Item
    BY <1>1
  <2>1. todo[k].side \in Sides
    BY <2>0 DEF Item
  <2>2. PICK side, p : side = todo[k].side /\ p = todo[k].price
    OBVIOUS
  <2>3. k \in EntriesAt(todo, side, p)
    BY <2>2 DEF EntriesAt
  <2>4. Sets(c, side, p) # {}
    BY <2>1, <2>2, <2>3, InOrderAt
  <2> QED BY <2>1, <2>2, <2>4
<1>3. ASSUME NEW side \in Sides, NEW p, NEW before
      PROVE  EntrySize(todo, side, p, before) = SizeOr(c, side, p, before)
  <2>1. PICK T, S : T = EntriesAt(todo, side, p) /\ S = Sets(c, side, p)
    OBVIOUS
  <2>3. PICK d \in Nat :
          /\ \A k \in 1 .. Len(c[side]) :
               /\ d + k \in T <=> k \in S
               /\ todo[d + k].volume = c[side][k].volume
          /\ \A j \in T : j - d \in S
    BY <2>1, InOrderAt
  <2>4. CASE S = {}
    <3>1. T = {}
      BY <2>3, <2>4
    <3>2. EntrySize(todo, side, p, before) = before
      BY <2>1, <3>1 DEF EntrySize, LastOr
    <3> QED BY <2>1, <2>4, <3>2 DEF SizeOr
  <2>5. CASE S # {}
    <3>1. PICK k : IsLast(k, S)
      BY <2>1, <2>5, SizeInIs
    <3>2. /\ k \in S /\ k \in 1 .. Len(c[side]) /\ S \in SUBSET (1 .. Len(c[side]))
          /\ SizeIn(c, side, p) = c[side][k].volume
      BY <2>1, <3>1, SizeInIs DEF IsLast
    <3>3. IsLast(d + k, T)
      <4>1. d + k \in T
        BY <2>3, <3>2
      <4> SUFFICES ASSUME NEW j \in T PROVE j <= d + k
        BY <4>1 DEF IsLast
      <4>2. j - d <= k
        BY <2>3, <3>1 DEF IsLast
      <4>3. j \in Int
        BY <2>1 DEF EntriesAt
      <4> QED BY <2>3, <3>2, <4>2, <4>3
    <3>4. EntrySize(todo, side, p, before) = todo[d + k].volume
      BY <1>1, <2>1, <3>3, EntrySizeIs
    <3> QED BY <2>1, <2>3, <2>5, <3>2, <3>4 DEF SizeOr
  <2> QED BY <2>4, <2>5
<1> QED BY <1>2, <1>3

(* The changes R, of which those after the n-th and the entries of todo are *)
(* still to be set, lead from the sizes G to those after all of them.       *)
CourseOf(R, n, todo, G) ==
  \A side \in Sides, p \in Prices :
    SizeFrom(R, n + 1, side, p, EntrySize(todo, side, p, G[side][p]))
      = SizesAfter(R)[side][p]

NoSizes == [side \in Sides |-> [p \in Prices |-> 0]]

TouchedBy(R) ==
  {at \in Sides \X Prices : \E k \in DOMAIN R : Sets(R[k], at[1], at[2]) # {}}

ItemsIn(todo, T) == \A k \in 1 .. Len(todo) : <<todo[k].side, todo[k].price>> \in T

(* The entries of nothing.                                                  *)
LEMMA EntryNone ==
  ASSUME NEW side, NEW p, NEW before
  PROVE  EntrySize(<<>>, side, p, before) = before
<1>1. EntriesAt(<<>>, side, p) = {}
  BY DEF EntriesAt
<1> QED BY <1>1 DEF EntrySize, LastOr

(* The seed leads there from an empty book.                                 *)
LEMMA CourseStarts ==
  ASSUME NEW R \in Seq(Change), R # <<>>
  PROVE  CourseOf(R, 1, InOrder(R[1]), NoSizes) /\ NoSizes \in SizeMap
<1>1. 1 \in 1 .. Len(R) /\ R[1] \in Change /\ 1 \in 1 .. Len(R) + 1
  OBVIOUS
<1>2. PICK c, todo : c = R[1] /\ todo = InOrder(c)
  OBVIOUS
<1>3. ASSUME NEW side \in Sides, NEW p \in Prices
      PROVE  SizeFrom(R, 2, side, p, EntrySize(todo, side, p, NoSizes[side][p]))
               = SizesAfter(R)[side][p]
  <2>1. NoSizes[side][p] = 0
    BY DEF NoSizes
  <2>2. EntrySize(todo, side, p, 0) = SizeOr(c, side, p, 0)
    BY <1>1, <1>2, InOrderSets
  <2>3. SizeFrom(R, 1, side, p, 0) = SizeFrom(R, 1 + 1, side, p, SizeOr(R[1], side, p, 0))
    BY <1>1, SizeFromNext
  <2>4. SizesAfter(R)[side][p] = SizeFrom(R, 1, side, p, 0)
    BY SizesAfterType
  <2> QED BY <1>2, <2>1, <2>2, <2>3, <2>4
<1>4. NoSizes \in SizeMap
  BY DEF NoSizes, SizeMap
<1> QED BY <1>2, <1>3, <1>4 DEF CourseOf

(* So does the next change, if the entries of the last have been set.       *)
LEMMA CourseApplies ==
  ASSUME NEW R \in Seq(Change), NEW n \in Nat, n + 1 \in 1 .. Len(R), NEW G,
         CourseOf(R, n, <<>>, G)
  PROVE  CourseOf(R, n + 1, InOrder(R[n + 1]), G)
<1>1. PICK m, c, todo : m = n + 1 /\ c = R[m] /\ todo = InOrder(c)
  OBVIOUS
<1>2. m \in 1 .. Len(R) /\ c \in Change
  BY <1>1
<1>3. ASSUME NEW side \in Sides, NEW p \in Prices
      PROVE  SizeFrom(R, m + 1, side, p, EntrySize(todo, side, p, G[side][p]))
               = SizesAfter(R)[side][p]
  <2>1. PICK before : before = G[side][p]
    OBVIOUS
  <2>2. EntrySize(<<>>, side, p, before) = before
    BY EntryNone
  <2>3. SizeFrom(R, m, side, p, before) = SizesAfter(R)[side][p]
    BY <1>1, <2>1, <2>2 DEF CourseOf
  <2>4. EntrySize(todo, side, p, before) = SizeOr(c, side, p, before)
    BY <1>1, <1>2, InOrderSets
  <2>5. SizeFrom(R, m, side, p, before)
          = SizeFrom(R, m + 1, side, p, SizeOr(R[m], side, p, before))
    BY <1>2, SizeFromNext
  <2> QED BY <1>1, <2>1, <2>3, <2>4, <2>5
<1> QED BY <1>1, <1>3 DEF CourseOf

(* Setting the next entry keeps the course.                                 *)
LEMMA CourseSets ==
  ASSUME NEW R, NEW n, NEW todo \in Seq(Item), todo # <<>>, NEW G \in SizeMap,
         Head(todo).volume \in Nat, CourseOf(R, n, todo, G)
  PROVE  CourseOf(R, n, Tail(todo),
                  SetSize(G, Head(todo).side, Head(todo).price, Head(todo).volume))
<1>1. PICK l, t : l = Head(todo) /\ t = Tail(todo)
  OBVIOUS
<1>2. l.side \in Sides /\ l.price \in Prices /\ l.volume \in Nat
  <2>1. l \in Item
    BY <1>1
  <2> QED BY <1>1, <2>1 DEF Item
<1>3. PICK H : H = SetSize(G, l.side, l.price, l.volume)
  OBVIOUS
<1>4. ASSUME NEW side \in Sides, NEW p \in Prices
      PROVE  SizeFrom(R, n + 1, side, p, EntrySize(t, side, p, H[side][p]))
               = SizesAfter(R)[side][p]
  <2>1. H[side][p] = IF l.side = side /\ l.price = p THEN l.volume ELSE G[side][p]
    BY <1>2, <1>3, SetSizeIs
  <2>2. PICK now, before : now = H[side][p] /\ before = G[side][p]
    OBVIOUS
  <2>3. EntrySize(todo, side, p, before) = EntrySize(t, side, p, now)
    <3>1. now = IF Head(todo).side = side /\ Head(todo).price = p
                  THEN Head(todo).volume ELSE before
      BY <1>1, <2>1, <2>2
    <3> QED BY <1>1, <3>1, EntryHead
  <2>4. SizeFrom(R, n + 1, side, p, EntrySize(todo, side, p, before))
          = SizesAfter(R)[side][p]
    BY <2>2 DEF CourseOf
  <2> QED BY <2>2, <2>3, <2>4
<1> QED BY <1>1, <1>3, <1>4 DEF CourseOf

(* At the end of a pass the sizes are those after all changes.              *)
LEMMA CourseEnds ==
  ASSUME NEW R \in Seq(Change), NEW G \in SizeMap, CourseOf(R, Len(R), <<>>, G)
  PROVE  G = SizesAfter(R)
<1>1. ASSUME NEW side \in Sides, NEW p \in Prices
      PROVE  G[side][p] = SizesAfter(R)[side][p]
  <2>1. PICK m, before : m = Len(R) + 1 /\ before = G[side][p]
    OBVIOUS
  <2>2. EntrySize(<<>>, side, p, before) = before
    BY EntryNone
  <2>3. Untouched(R, m, side, p)
    <3>1. Len(R) \in Nat
      OBVIOUS
    <3> QED BY <2>1, <3>1 DEF Untouched
  <2>4. SizeFrom(R, m, side, p, before) = before
    BY <2>3, SizeUntouched
  <2> QED BY <2>1, <2>2, <2>4 DEF CourseOf
<1>2. SizesAfter(R) \in SizeMap
  BY SizesAfterType
<1>3. \A side \in Sides : G[side] = SizesAfter(R)[side]
  <2> SUFFICES ASSUME NEW side \in Sides PROVE G[side] = SizesAfter(R)[side]
    OBVIOUS
  <2>1. G[side] \in [Prices -> Nat] /\ SizesAfter(R)[side] \in [Prices -> Nat]
    BY <1>2 DEF SizeMap
  <2> QED BY <1>1, <2>1
<1> QED BY <1>2, <1>3 DEF SizeMap

(* And another pass over the same book leads there again.                   *)
LEMMA CourseAgain ==
  ASSUME NEW R \in Seq(Change), R # <<>>
  PROVE  CourseOf(R, 1, <<>>, SizesAfter(R))
<1>1. 2 \in 1 .. Len(R) + 1
  OBVIOUS
<1>2. ASSUME NEW side \in Sides, NEW p \in Prices
      PROVE  SizeFrom(R, 2, side, p, EntrySize(<<>>, side, p, SizesAfter(R)[side][p]))
               = SizesAfter(R)[side][p]
  <2>1. PICK after : after = SizesAfter(R)[side][p]
    OBVIOUS
  <2>2. after = SizeFrom(R, 1, side, p, 0)
    BY <2>1, SizesAfterType
  <2>3. SizeFrom(R, 2, side, p, after) = after
    BY <1>1, <2>2, SizeFromAgain
  <2> QED BY <2>1, <2>3, EntryNone
<1> QED BY <1>2 DEF CourseOf

(* The entries of a change that is replayed.                                *)
LEMMA ItemsTouched ==
  ASSUME NEW R \in Seq(Change), NEW k \in 1 .. Len(R)
  PROVE  ItemsIn(InOrder(R[k]), TouchedBy(R))
<1>1. PICK c, todo : c = R[k] /\ todo = InOrder(c)
  OBVIOUS
<1>2. c \in Change /\ todo \in Seq(Item)
  BY <1>1, InOrderType
<1>3. ASSUME NEW j \in 1 .. Len(todo)
      PROVE  <<todo[j].side, todo[j].price>> \in TouchedBy(R)
  <2>1. todo[j] \in Item
    BY <1>2
  <2>2. PICK side, p : side = todo[j].side /\ p = todo[j].price
    OBVIOUS
  <2>3. side \in Sides /\ p \in Prices /\ Sets(c, side, p) # {}
    BY <1>1, <1>2, <2>1, <2>2, InOrderSets DEF Item
  <2>4. k \in DOMAIN R
    OBVIOUS
  <2>5. <<side, p>> \in TouchedBy(R)
    BY <1>1, <2>3, <2>4 DEF TouchedBy
  <2> QED BY <2>2, <2>5
<1> QED BY <1>1, <1>3 DEF ItemsIn

(* They are finitely many.                                                  *)
LEMMA TouchedFinite ==
  ASSUME NEW R
  PROVE  IsFiniteSet(TouchedBy(R)) /\ Cardinality(TouchedBy(R)) \in Nat
<1>1. IsFiniteSet(Sides)
  <2>1. Sides = {"BID"} \cup {"ASK"}
    BY DEF Sides
  <2>2. IsFiniteSet({"BID"}) /\ IsFiniteSet({"ASK"})
    BY FS_Singleton
  <2> QED BY <2>1, <2>2, FS_Union
<1>2. IsFiniteSet(Sides \X Prices)
  BY <1>1, PricesFinite, FS_Product
<1>3. TouchedBy(R) \subseteq Sides \X Prices
  BY DEF TouchedBy
<1>4. IsFiniteSet(TouchedBy(R))
  BY <1>2, <1>3, FS_Subset
<1> QED BY <1>4, FS_CardinalityType

-----------------------------------------------------------------------------
(* The passes of a replay.  While it runs, the changes and entries that are *)
(* still to be set lead from what the book shows, or is about to show once  *)
(* set_level returns, to the sizes after the whole feed.                    *)

Fresh ==
  /\ book.pool.nodes = <<>>
  /\ book.pool.free_list = <<>>
  /\ \A side \in Sides : book.levels[side] = <<>>

OnCourse == \E G : Heading(G) /\ CourseOf(Replayed, replay.next, replay.todo, G)

PassInv ==
  /\ CallingOK
  /\ replay.pc \in {"load", "parse", "abort"} => Fresh /\ call = Idle
  /\ replay.pc = "passed" => call = Idle
  /\ replay.pc \in {"run", "passed"} =>
       /\ ItemsIn(replay.todo, Touched)
       /\ Within(Touched)
       /\ call # Aborted => OnCourse

SteadyInv == InputInv /\ (Replaying => PassInv)

(* What is replayed: the snapshot, then the updates.                        *)
LEMMA ReplayedIs ==
  ASSUME ReplayInv, updates \in Seq(Changes), replay.pc \in {"parse", "run", "passed"}
  PROVE  /\ Replayed \in Seq(Change) /\ Replayed # <<>>
         /\ Len(Replayed) = Len(replay.feed) + 1 /\ Len(replay.feed) \in Nat
         /\ Replayed[1] = replay.snap.levels
         /\ \A k \in 1 .. Len(replay.feed) : Replayed[k + 1] = replay.feed[k].levels
         /\ Touched = TouchedBy(Replayed)
<1>1. /\ replay.snap.levels \in Change
      /\ replay.feed \in Seq(Update)
      /\ \A k \in 1 .. Len(replay.feed) : replay.feed[k].levels \in Change
  BY InputsAreChanges DEF ReplayInv, ReplayOK
<1>2. PICK A, n : A = <<replay.snap.levels>> /\ n = Len(replay.feed)
  OBVIOUS
<1>3. PICK B : B = [k \in DOMAIN replay.feed |-> replay.feed[k].levels]
  OBVIOUS
<1>4. n \in Nat /\ DOMAIN replay.feed = 1 .. n
  BY <1>1, <1>2
<1>5. A \in Seq(Change) /\ Len(A) = 1 /\ A[1] = replay.snap.levels
  BY <1>1, <1>2
<1>6. B \in Seq(Change) /\ Len(B) = n
  <2>1. B \in [1 .. n -> Change]
    BY <1>1, <1>2, <1>3, <1>4
  <2> QED BY <1>4, <2>1
<1>7. \A k \in 1 .. n : B[k] = replay.feed[k].levels
  BY <1>3, <1>4
<1>8. PICK R : R = A \o B
  OBVIOUS
<1>9. IsConcat(R, A, B) /\ R \in Seq(Change)
  BY <1>5, <1>6, <1>8, AfterAnother
<1>10. /\ Len(R) = 1 + n
       /\ \A k \in 1 .. 1 : R[k] = A[k]
       /\ \A k \in 1 .. n : R[1 + k] = B[k]
  BY <1>5, <1>6, <1>9 DEF IsConcat
<1>11. R = Replayed
  BY <1>2, <1>3, <1>8 DEF Replayed
<1>12. /\ Len(R) = n + 1 /\ R[1] = replay.snap.levels
       /\ \A k \in 1 .. n : R[k + 1] = replay.feed[k].levels
  BY <1>4, <1>5, <1>7, <1>10
<1>13. R # <<>>
  BY <1>4, <1>12
<1>14. Touched = TouchedBy(Replayed)
  BY DEF Touched, TouchedBy
<1> QED BY <1>2, <1>4, <1>9, <1>11, <1>12, <1>13, <1>14

(* It depends on nothing but the inputs.                                    *)
LEMMA ReplayedAgain ==
  ASSUME replay'.snap = replay.snap, replay'.feed = replay.feed
  PROVE  Replayed' = Replayed /\ Touched' = Touched
<1>1. Replayed' = Replayed
  BY DEF Replayed
<1> QED BY <1>1 DEF Touched

(* A new book shows nothing.                                                *)
LEMMA FreshShows ==
  ASSUME Fresh, NEW T, Cardinality(T) \in Nat
  PROVE  Shows(book.levels, NoSizes) /\ Within(T)
<1>1. Shows(book.levels, NoSizes)
  BY DEF Fresh, Shows, Shown, NoSizes
<1>2. Within(T)
  BY DEF Fresh, Within, Heads, PricesIn
<1> QED BY <1>1, <1>2

(* The same in the next state.                                              *)
LEMMA FreshShowsNext ==
  ASSUME Fresh', NEW T, Cardinality(T) \in Nat
  PROVE  Shows(book'.levels, NoSizes) /\ Within(T)'
<1>1. Shows(book'.levels, NoSizes)
  BY DEF Fresh, Shows, Shown, NoSizes
<1>2. Within(T)'
  BY DEF Fresh, Within, Heads, PricesIn
<1> QED BY <1>1, <1>2

(* The book and the replay do not move.                                     *)
LEMMA PassStutterOK ==
  ASSUME PassInv, UNCHANGED <<replay, book, call>>
  PROVE  PassInv'
<1>1. CallingOK'
  <2>1. Inv'
    BY StutterOK DEF PassInv, CallingOK, vars
  <2> QED BY <2>1 DEF PassInv, CallingOK
<1>2. Replayed' = Replayed /\ Touched' = Touched
  BY ReplayedAgain
<1>3. \A T : Within(T) => Within(T)'
  BY SameWithin
<1>4. \A G : Heading(G) => Heading(G)'
  BY DEF Heading, Pending, CalledLevel
<1>5. OnCourse => OnCourse'
  BY <1>2, <1>4 DEF OnCourse
<1>6. Fresh => Fresh'
  BY DEF Fresh
<1> QED BY <1>1, <1>2, <1>3, <1>5, <1>6 DEF PassInv

(* A step of a call that is running.                                        *)
LEMMA PassRunningOK ==
  ASSUME PassInv, Running, UNCHANGED replay,
         replay.pc \in {"load", "parse", "abort", "run", "passed"}
  PROVE  PassInv'
<1>1. call # Idle /\ call # Aborted
  BY Records DEF Running, MatchStep, MatchReturn, DeleteStep, DeleteReturn, ClearStep,
                 ClearReturn, CollapseStep, CollapseReturn
<1>2. replay.pc = "run"
  BY <1>1 DEF PassInv
<1>3. /\ CallingOK'
      /\ \A G : Heading(G) => Heading(G)'
      /\ \A T : Within(T) => Within(T)'
  BY RunningHeads DEF PassInv
<1>4. Replayed' = Replayed /\ Touched' = Touched
  BY ReplayedAgain
<1>5. OnCourse => OnCourse'
  BY <1>3, <1>4 DEF OnCourse
<1> QED BY <1>1, <1>2, <1>3, <1>4, <1>5 DEF PassInv

(* A step that only reads.                                                  *)
LEMMA PassReadsOK ==
  ASSUME PassInv, UNCHANGED <<book, call>>, replay.pc \in {"load", "parse"},
         replay'.pc \in {"load", "parse", "abort"}
  PROVE  PassInv'
<1>1. Fresh' /\ call' = Idle
  BY DEF PassInv, Fresh
<1>2. CallingOK'
  <2>1. Inv'
    BY StutterOK DEF PassInv, CallingOK, vars
  <2> QED BY <1>1, <2>1, Records DEF CallingOK
<1> QED BY <1>1, <1>2 DEF PassInv

(* What a step of a pass has to establish.                                  *)
LEMMA PassOnOK ==
  ASSUME CallingOK', replay'.pc \in {"run", "passed"},
         replay'.pc = "passed" => call' = Idle,
         replay'.snap = replay.snap, replay'.feed = replay.feed,
         NEW R, R = Replayed, Touched = TouchedBy(R),
         ItemsIn(replay'.todo, TouchedBy(R)), Within(TouchedBy(R))',
         NEW G, call' # Aborted => Heading(G)',
         call' # Aborted => CourseOf(R, replay'.next, replay'.todo, G)
  PROVE  PassInv'
<1>1. Replayed' = R /\ Touched' = TouchedBy(R)
  BY ReplayedAgain
<1>2. call' # Aborted => OnCourse'
  BY <1>1 DEF OnCourse
<1>3. Within(Touched)' /\ ItemsIn(replay.todo, Touched)'
  BY <1>1
<1> QED BY <1>1, <1>2, <1>3 DEF PassInv

(* A book is seeded.                                                        *)
LEMMA PassStartOK ==
  ASSUME ReplayInv, updates \in Seq(Changes), PassInv, ParseEnd(Lines)
  PROVE  PassInv'
<1>1. /\ replay.pc = "parse" /\ UNCHANGED <<book, call>>
      /\ replay'.pc = "run" /\ replay'.snap = replay.snap /\ replay'.feed = replay.feed
      /\ replay'.next = 1 /\ replay'.todo = InOrder(replay.snap.levels)
  BY DEF ParseEnd, ReplayInv, ReplayOK, Stage
<1>2. Fresh /\ call = Idle /\ call' = Idle
  BY <1>1 DEF PassInv
<1>3. PICK R, T : R = Replayed /\ T = TouchedBy(R)
  OBVIOUS
<1>4. /\ R \in Seq(Change) /\ R # <<>> /\ 1 \in 1 .. Len(R)
      /\ R[1] = replay.snap.levels /\ Touched = T
  BY <1>1, <1>3, ReplayedIs
<1>5. /\ CourseOf(R, 1, InOrder(R[1]), NoSizes) /\ NoSizes \in SizeMap
      /\ ItemsIn(InOrder(R[1]), T)
  BY <1>3, <1>4, CourseStarts, ItemsTouched
<1>6. Shows(book.levels, NoSizes) /\ Within(T)
  BY <1>2, <1>3, FreshShows, TouchedFinite
<1>7. Within(T)'
  BY <1>1, <1>6, SameWithin
<1>8. PICK G : G = NoSizes
  OBVIOUS
<1>9. Heading(G)'
  <2>1. G \in SizeMap /\ Shows(book'.levels, G)
    BY <1>1, <1>5, <1>6, <1>8
  <2> QED BY <1>2, <2>1, IdleShowsNext
<1>10. CallingOK'
  <2>1. Inv'
    BY <1>1, StutterOK DEF PassInv, CallingOK, vars
  <2> QED BY <1>2, <2>1, Records DEF CallingOK
<1>11. /\ CourseOf(R, replay'.next, replay'.todo, G) /\ ItemsIn(replay'.todo, TouchedBy(R))
       /\ Within(TouchedBy(R))' /\ replay'.pc \in {"run", "passed"}
       /\ Touched = TouchedBy(R)
  BY <1>1, <1>3, <1>4, <1>5, <1>7, <1>8
<1> QED BY <1>1, <1>2, <1>3, <1>9, <1>10, <1>11, PassOnOK

(* The next entry is set.                                                   *)
LEMMA PassSetsOK ==
  ASSUME ReplayInv, updates \in Seq(Changes), PassInv, SetNextLevel
  PROVE  PassInv'
<1>1. PICK l, t : l = Head(replay.todo) /\ t = Tail(replay.todo)
  OBVIOUS
<1>2. /\ replay.pc = "run" /\ replay.todo # <<>> /\ replay.todo \in Seq(Item)
      /\ SetLevel(l.side, l.price, l.volume)
      /\ replay'.pc = "run" /\ replay'.snap = replay.snap /\ replay'.feed = replay.feed
      /\ replay'.next = replay.next /\ replay'.todo = t
  BY <1>1 DEF SetNextLevel, ReplayInv, ReplayOK
<1>3. /\ l.side \in Sides /\ l.price \in Prices /\ l.volume \in Volumes /\ l.volume \in Nat
  <2>1. l \in Item
    BY <1>1, <1>2
  <2> QED BY <2>1, MarketAssumption DEF Item
<1>4. PICK R, T : R = Replayed /\ T = TouchedBy(R)
  OBVIOUS
<1>5. Touched = T /\ R \in Seq(Change)
  BY <1>2, <1>4, ReplayedIs
<1>6. call = Idle /\ call # Aborted
  BY <1>2, Records DEF SetLevel
<1>7. OnCourse /\ Within(T) /\ ItemsIn(replay.todo, T)
  BY <1>2, <1>5, <1>6 DEF PassInv
<1>8. PICK G : Heading(G) /\ CourseOf(R, replay.next, replay.todo, G)
  BY <1>4, <1>7 DEF OnCourse
<1>9. G \in SizeMap
  BY <1>6, <1>8, IdleShows
<1>10. PICK H : H = SetSize(G, l.side, l.price, l.volume)
  OBVIOUS
<1>11. CourseOf(R, replay.next, t, H)
  BY <1>1, <1>2, <1>3, <1>8, <1>9, <1>10, CourseSets
<1>12. <<l.side, l.price>> \in T /\ ItemsIn(t, T)
  <2>1. /\ Len(replay.todo) \in Nat /\ Len(t) = Len(replay.todo) - 1
        /\ l = replay.todo[1] /\ 1 \in 1 .. Len(replay.todo)
        /\ \A k \in 1 .. Len(t) : t[k] = replay.todo[k + 1]
    BY <1>1, <1>2
  <2>2. \A k \in 1 .. Len(t) : k + 1 \in 1 .. Len(replay.todo)
    BY <2>1
  <2> QED BY <1>7, <2>1, <2>2 DEF ItemsIn
<1>13. /\ CallingOK'
       /\ call' # Aborted => \A g : Heading(g) => Heading(SetSize(g, l.side, l.price, l.volume))'
       /\ \A S : IsFiniteSet(S) /\ <<l.side, l.price>> \in S /\ Within(S) => Within(S)'
  <2>1. CallingOK
    BY DEF PassInv
  <2> QED BY <1>2, <1>3, <2>1, SetLevelSets
<1>14. Within(T)'
  BY <1>4, <1>7, <1>12, <1>13, TouchedFinite
<1>15. call' # Aborted => Heading(H)'
  BY <1>8, <1>10, <1>13
<1>16. /\ CourseOf(R, replay'.next, replay'.todo, H) /\ ItemsIn(replay'.todo, TouchedBy(R))
       /\ Within(TouchedBy(R))' /\ replay'.pc \in {"run", "passed"}
       /\ Touched = TouchedBy(R) /\ (replay'.pc = "passed" => call' = Idle)
  BY <1>2, <1>4, <1>5, <1>11, <1>12, <1>14
<1> QED BY <1>2, <1>4, <1>13, <1>15, <1>16, PassOnOK

(* Everything of an update has been set: on to the next one, or the pass    *)
(* has ended.                                                               *)
LEMMA PassAdvancesOK ==
  ASSUME ReplayInv, updates \in Seq(Changes), PassInv, Apply \/ PassEnd
  PROVE  PassInv'
<1>1. /\ replay.pc = "run" /\ replay.todo = <<>> /\ call = Idle /\ UNCHANGED <<book, call>>
      /\ replay.next \in 1 .. Len(replay.feed) + 1 /\ Len(replay.feed) \in Nat
      /\ replay'.snap = replay.snap /\ replay'.feed = replay.feed
      /\ replay'.pc \in {"run", "passed"}
      /\ \/ /\ replay.next <= Len(replay.feed) /\ replay'.next = replay.next + 1
            /\ replay'.todo = InOrder(replay.feed[replay.next].levels)
         \/ replay'.next = replay.next /\ replay'.todo = <<>>
  <2>1. replay.feed \in Seq(Update) /\ replay.next \in 1 .. Len(replay.feed) + 1
    BY DEF ReplayInv, ReplayOK
  <2>2. CASE Apply
    BY <2>1, <2>2 DEF Apply, Finished, ReplayInv, ReplayOK
  <2>3. CASE PassEnd
    BY <2>1, <2>3 DEF PassEnd, Finished, ReplayInv, ReplayOK
  <2> QED BY <2>2, <2>3
<1>2. PICK R, T, n : R = Replayed /\ T = TouchedBy(R) /\ n = replay.next
  OBVIOUS
<1>3. /\ R \in Seq(Change) /\ R # <<>> /\ Len(R) = Len(replay.feed) + 1
      /\ \A k \in 1 .. Len(replay.feed) : R[k + 1] = replay.feed[k].levels
      /\ Touched = T
  BY <1>1, <1>2, ReplayedIs
<1>4. OnCourse /\ Within(T)
  BY <1>1, <1>3, Records DEF PassInv
<1>5. PICK G : Heading(G) /\ CourseOf(R, n, <<>>, G)
  BY <1>1, <1>2, <1>4 DEF OnCourse
<1>6. Heading(G)'
  <2>1. G \in SizeMap /\ Shows(book.levels, G)
    BY <1>1, <1>5, IdleShows
  <2> QED BY <1>1, <2>1, IdleShowsNext
<1>7. CallingOK'
  <2>1. Inv'
    BY <1>1, StutterOK DEF PassInv, CallingOK, vars
  <2> QED BY <1>1, <2>1, Records DEF CallingOK
<1>8. Within(T)'
  BY <1>1, <1>4, SameWithin
<1>9. CourseOf(R, replay'.next, replay'.todo, G) /\ ItemsIn(replay'.todo, T)
  <2>1. CASE /\ n <= Len(replay.feed) /\ replay'.next = n + 1
             /\ replay'.todo = InOrder(replay.feed[n].levels)
    <3>1. n \in 1 .. Len(replay.feed) /\ n \in Nat /\ n + 1 \in 1 .. Len(R)
      BY <1>1, <1>2, <1>3, <2>1
    <3>2. replay'.todo = InOrder(R[n + 1])
      BY <1>3, <2>1, <3>1
    <3>3. CourseOf(R, n + 1, InOrder(R[n + 1]), G)
      BY <1>3, <1>5, <3>1, CourseApplies
    <3>4. ItemsIn(InOrder(R[n + 1]), T)
      BY <1>2, <1>3, <3>1, ItemsTouched
    <3> QED BY <2>1, <3>2, <3>3, <3>4
  <2>2. CASE replay'.next = n /\ replay'.todo = <<>>
    BY <1>5, <2>2 DEF ItemsIn
  <2> QED BY <1>1, <1>2, <2>1, <2>2
<1>10. /\ ItemsIn(replay'.todo, TouchedBy(R)) /\ Within(TouchedBy(R))'
       /\ Touched = TouchedBy(R) /\ (replay'.pc = "passed" => call' = Idle)
  BY <1>1, <1>2, <1>3, <1>8, <1>9
<1> QED BY <1>1, <1>2, <1>6, <1>7, <1>9, <1>10, PassOnOK

(* A new book is in order.                                                  *)
LEMMA NewBookOK ==
  ASSUME NEW b, b = [pool |-> EmptyPool, levels |-> [side \in Sides |-> <<>>],
                     index |-> <<>>]
  PROVE  BookOK(b) /\ Sorted(b.levels) /\ Occupied(b.levels)
<1>1. /\ b.pool = EmptyPool /\ b.index = <<>>
      /\ \A s \in Sides : b.levels[s] = <<>>
      /\ b = [pool |-> b.pool, levels |-> b.levels, index |-> b.index]
  OBVIOUS
<1>2. PoolOK(b.pool) /\ Len(b.pool.nodes) = 0
  <2>1. PoolOK(EmptyPool) /\ Len(EmptyPool.nodes) = 0
    BY CapacityAssumption DEF PoolOK, EmptyPool
  <2> QED BY <1>1, <2>1
<1>3. LevelsOK(b.levels, 0)
  BY DEF LevelsOK
<1>4. IndexOK(b.index, 0)
  BY <1>1 DEF IndexOK
<1>5. BookOK(b)
  BY <1>1, <1>2, <1>3, <1>4, BookParts
<1>6. Sorted(b.levels) /\ Occupied(b.levels)
  <2>1. \A s \in Sides : SortedSide(<<>>, s)
    BY DEF SortedSide
  <2> QED BY <1>1, <2>1 DEF Sorted, Occupied
<1> QED BY <1>5, <1>6

(* The next pass, over the same book or a new one.                          *)
LEMMA PassAgainOK ==
  ASSUME ReplayInv, updates \in Seq(Changes), PassInv, NextPass
  PROVE  PassInv'
<1>1. PICK R, T : R = Replayed /\ T = TouchedBy(R)
  OBVIOUS
<1>2. /\ replay.pc = "passed" /\ replay.next = Len(replay.feed) + 1 /\ replay.todo = <<>>
      /\ call = Idle /\ call' = Idle
      /\ replay'.pc = "run" /\ replay'.snap = replay.snap /\ replay'.feed = replay.feed
      /\ replay'.next = 1
      /\ \/ replay'.todo = <<>> /\ book' = book
         \/ /\ replay'.todo = InOrder(replay.snap.levels)
            /\ book' = [pool |-> EmptyPool, levels |-> [side \in Sides |-> <<>>],
                        index |-> <<>>]
  BY DEF NextPass, ReplayInv, ReplayOK, Stage, PassInv
<1>3. /\ R \in Seq(Change) /\ R # <<>> /\ Len(R) = Len(replay.feed) + 1
      /\ 1 \in 1 .. Len(R) /\ R[1] = replay.snap.levels /\ Touched = T
  BY <1>1, <1>2, ReplayedIs
<1>4. OnCourse /\ Within(T)
  BY <1>2, <1>3, Records DEF PassInv
<1>5. CASE replay'.todo = <<>> /\ book' = book
  <2>1. PICK G : Heading(G) /\ CourseOf(R, replay.next, replay.todo, G)
    BY <1>1, <1>4 DEF OnCourse
  <2>2. CourseOf(R, Len(R), <<>>, G) /\ G \in SizeMap /\ Shows(book.levels, G)
    BY <1>2, <1>3, <2>1, IdleShows
  <2>3. G = SizesAfter(R)
    BY <1>3, <2>2, CourseEnds
  <2>4. CourseOf(R, 1, <<>>, G)
    BY <1>3, <2>3, CourseAgain
  <2>5. Heading(G)'
    <3>1. Shows(book'.levels, G)
      BY <1>5, <2>2
    <3> QED BY <1>2, <2>2, <3>1, IdleShowsNext
  <2>6. CallingOK'
    <3>1. Inv'
      BY <1>2, <1>5, StutterOK DEF PassInv, CallingOK, vars
    <3> QED BY <1>2, <3>1, Records DEF CallingOK
  <2>7. Within(T)'
    BY <1>4, <1>5, SameWithin
  <2>8. /\ CourseOf(R, replay'.next, replay'.todo, G) /\ ItemsIn(replay'.todo, TouchedBy(R))
        /\ Within(TouchedBy(R))' /\ Touched = TouchedBy(R)
    BY <1>1, <1>2, <1>3, <1>5, <2>4, <2>7 DEF ItemsIn
  <2> QED BY <1>1, <1>2, <2>5, <2>6, <2>8, PassOnOK
<1>6. CASE /\ replay'.todo = InOrder(replay.snap.levels)
           /\ book' = [pool |-> EmptyPool, levels |-> [side \in Sides |-> <<>>],
                       index |-> <<>>]
  <2>1. /\ CourseOf(R, 1, InOrder(R[1]), NoSizes) /\ NoSizes \in SizeMap
        /\ ItemsIn(InOrder(R[1]), T)
    BY <1>1, <1>3, CourseStarts, ItemsTouched
  <2>2. Fresh'
    BY <1>6 DEF Fresh, EmptyPool
  <2>3. Shows(book'.levels, NoSizes) /\ Within(T)'
    BY <1>1, <2>2, FreshShowsNext, TouchedFinite
  <2>4. PICK G : G = NoSizes
    OBVIOUS
  <2>5. Heading(G)'
    BY <1>2, <2>1, <2>3, <2>4, IdleShowsNext
  <2>6. CallingOK'
    <3>1. PICK b : b = book'
      OBVIOUS
    <3>2. BookOK(b) /\ Sorted(b.levels) /\ Occupied(b.levels)
      BY <1>6, <3>1, NewBookOK
    <3>3. Inv'
      BY <1>2, <3>1, <3>2, ReturnOK
    <3> QED BY <1>2, <3>3, Records DEF CallingOK
  <2>7. /\ CourseOf(R, replay'.next, replay'.todo, G) /\ ItemsIn(replay'.todo, TouchedBy(R))
        /\ Within(TouchedBy(R))' /\ Touched = TouchedBy(R)
    BY <1>1, <1>2, <1>3, <1>6, <2>1, <2>3, <2>4
  <2> QED BY <1>1, <1>2, <2>5, <2>6, <2>7, PassOnOK
<1> QED BY <1>2, <1>5, <1>6

(* Before anything happens the book is new.                                 *)
LEMMA PassInitOK ==
  ASSUME MarketInit
  PROVE  PassInv
<1>1. /\ replay.pc = "load" /\ Init
  BY DEF MarketInit, ReplayIdle
<1>2. Fresh /\ call = Idle
  BY <1>1 DEF Init, Fresh, EmptyPool
<1>3. CallingOK
  BY <1>1, <1>2, InitOK, Records DEF CallingOK
<1> QED BY <1>1, <1>2, <1>3 DEF PassInv

(* The steps of the replay.                                                 *)
LEMMA PassStepOK ==
  ASSUME ReplayInv, updates \in Seq(Changes), PassInv, ReplayStep
  PROVE  PassInv'
<1>1. CASE LoadSnapshot(SnapshotDocument(saved))
  <2>1. /\ UNCHANGED <<book, call>> /\ replay.pc = "load"
        /\ replay'.pc \in {"parse", "abort"}
    BY <1>1 DEF LoadSnapshot, ReplayInv, ReplayOK
  <2> QED BY <2>1, PassReadsOK
<1>2. CASE ParseLine(Lines)
  <2>1. /\ UNCHANGED <<book, call>> /\ replay.pc = "parse"
        /\ replay'.pc \in {"parse", "abort"}
    BY <1>2 DEF ParseLine, ReplayInv, ReplayOK
  <2> QED BY <2>1, PassReadsOK
<1>3. CASE ParseEnd(Lines)
  BY <1>3, PassStartOK
<1>4. CASE SetNextLevel
  BY <1>4, PassSetsOK
<1>5. CASE Apply \/ PassEnd
  BY <1>5, PassAdvancesOK
<1>6. CASE NextPass
  BY <1>6, PassAgainOK
<1> QED BY <1>1, <1>2, <1>3, <1>4, <1>5, <1>6 DEF ReplayStep

(* Every step keeps the passes on their course.                             *)
LEMMA SteadyStepOK ==
  ASSUME SteadyInv, [MarketNext]_allVars
  PROVE  SteadyInv'
<1>1. InputInv /\ ReplayInv /\ updates \in Seq(Changes)
  BY DEF SteadyInv, InputInv, CaptureInv, CaptureOK
<1>2. InputInv'
  BY <1>1, InputStepOK
<1>3. Replaying' => Replaying
  BY DEF MarketNext, Publish, SendNotice, SaveSnapshot, Capturing, TimePasses, CaptureFaults,
         ReplayStep, ToolStep, BookStep, Ended, allVars, externalVars, Replaying
<1>4. ASSUME Replaying
      PROVE  PassInv'
  <2>1. PassInv
    BY <1>4 DEF SteadyInv
  <2>2. CASE \/ \E change \in Changes : Publish(change)
             \/ SendNotice \/ SaveSnapshot \/ Capturing \/ TimePasses \/ CaptureFaults
             \/ Ended \/ UNCHANGED allVars
    <3>1. UNCHANGED <<replay, book, call>>
      BY <2>2 DEF Publish, SendNotice, SaveSnapshot, Capturing, TimePasses, CaptureFaults,
                  Ended, allVars, bookVars
    <3> QED BY <2>1, <3>1, PassStutterOK
  <2>3. CASE ReplayStep
    BY <1>1, <2>1, <2>3, PassStepOK
  <2>4. CASE BookStep
    <3>1. Running /\ UNCHANGED replay
          /\ replay.pc \in {"load", "parse", "run", "passed", "abort"}
      BY <1>1, <2>4 DEF BookStep, ReplayInv, Stage
    <3> QED BY <2>1, <3>1, PassRunningOK
  <2>5. CASE ToolStep
    BY <1>4, <2>5 DEF ToolStep
  <2> QED BY <2>2, <2>3, <2>4, <2>5 DEF MarketNext
<1> QED BY <1>2, <1>3, <1>4 DEF SteadyInv

(* After a pass the book shows what was set last.                           *)
LEMMA PassedShows ==
  ASSUME ReplayInv, updates \in Seq(Changes), PassInv, replay.pc = "passed"
  PROVE  BookShows(SizesAfter(Replayed)) /\ SizesAfter(Replayed) \in SizeMap
<1>1. /\ replay.next = Len(replay.feed) + 1 /\ replay.todo = <<>> /\ call = Idle
      /\ call # Aborted
  BY Records DEF ReplayInv, Stage, PassInv
<1>2. PICK R : R = Replayed
  OBVIOUS
<1>3. R \in Seq(Change) /\ Len(R) = Len(replay.feed) + 1
  BY <1>2, ReplayedIs
<1>4. PICK G : Heading(G) /\ CourseOf(R, Len(R), <<>>, G)
  BY <1>1, <1>2, <1>3 DEF PassInv, OnCourse
<1>5. G \in SizeMap /\ Shows(book.levels, G)
  BY <1>1, <1>4, IdleShows
<1>6. G = SizesAfter(R)
  BY <1>3, <1>4, <1>5, CourseEnds
<1>7. BookOK(book) /\ Sorted(book.levels)
  BY InvFacts DEF PassInv, CallingOK
<1>8. BookShows(G)
  BY <1>5, <1>7, ShowsBookShows
<1> QED BY <1>2, <1>5, <1>6, <1>8

(* The pool is as large as the property allows.                             *)
LEMMA SteadyInvIsSteady == SteadyInv => SteadyState
<1> SUFFICES ASSUME SteadyInv, Replaying
             PROVE  /\ replay.pc = "passed" => BookShows(SizesAfter(Replayed))
                    /\ Len(book.pool.nodes) <= Cardinality(Touched)
  BY DEF SteadyState
<1>1. ReplayInv /\ updates \in Seq(Changes) /\ PassInv
  BY DEF SteadyInv, InputInv, CaptureInv, CaptureOK
<1>2. replay.pc = "passed" => BookShows(SizesAfter(Replayed))
  BY <1>1, PassedShows
<1>3. CASE replay.pc \in {"run", "passed"}
  BY <1>1, <1>2, <1>3 DEF PassInv, Within
<1>4. CASE replay.pc \in {"load", "parse", "abort"}
  <2>1. Len(book.pool.nodes) = 0
    BY <1>1, <1>4 DEF PassInv, Fresh
  <2>2. Touched = TouchedBy(Replayed)
    BY DEF Touched, TouchedBy
  <2> QED BY <1>2, <2>1, <2>2, TouchedFinite
<1> QED BY <1>1, <1>3, <1>4 DEF ReplayInv, Stage

(* "re-running the same feed keeps the book bounded" (market_replay.cpp):   *)
(* after every pass, the first or a later one, each price has the size that *)
(* was set last, and at no moment of a pass, in the middle of a set_level   *)
(* either, has the pool grown beyond one order for each price of the        *)
(* snapshot and the feed.  For every market, capacity and number of passes. *)
THEOREM KeepsBookSteady == MarketSpec => []SteadyState
<1>1. MarketInit => SteadyInv
  <2> SUFFICES ASSUME MarketInit PROVE SteadyInv
    OBVIOUS
  <2>1. CaptureInit /\ updates = <<>>
    BY DEF MarketInit
  <2> QED BY <2>1, CaptureInitOK, ReplayInitOK, PassInitOK DEF InputInv, SteadyInv
<1>2. SteadyInv /\ [MarketNext]_allVars => SteadyInv'
  BY SteadyStepOK
<1> QED BY <1>1, <1>2, SteadyInvIsSteady, PTL DEF MarketSpec

-----------------------------------------------------------------------------
(* A book seeded from a snapshot and brought up to date                     *)

(* Of the market V, W is the beginning up to the snapshot, and R from its   *)
(* second change on is the capture, which begins with update `first`.       *)
Resumes(V, W, R, first) ==
  /\ Len(W) \in first - 1 .. Len(V)
  /\ Len(R) = Len(V) - first + 2
  /\ \A k \in 1 .. Len(W) : W[k] = V[k]
  /\ \A k \in 2 .. Len(R) : R[k] = V[first + k - 2]

(* It may begin before the snapshot: what it sets again is set by V too.    *)
LEMMA CatchesUp ==
  ASSUME NEW V \in Seq(Change), NEW W \in Seq(Change), NEW R \in Seq(Change),
         NEW first \in Nat \ {0}, Resumes(V, W, R, first),
         NEW side, NEW p, NEW before, before = SizeFrom(W, 1, side, p, 0)
  PROVE  SizeFrom(R, 2, side, p, before) = SizeFrom(V, 1, side, p, 0)
<1>0. /\ Len(W) \in first - 1 .. Len(V)
      /\ Len(R) = Len(V) - first + 2
      /\ \A k \in 1 .. Len(W) : W[k] = V[k]
      /\ \A k \in 2 .. Len(R) : R[k] = V[first + k - 2]
  BY DEF Resumes
<1>1. /\ Len(V) \in Nat /\ Len(W) \in Nat /\ Len(R) \in Nat
      /\ 1 \in 1 .. Len(V) + 1 /\ 1 \in 1 .. Len(W) + 1 /\ 2 \in 1 .. Len(R) + 1
  BY <1>0
<1>2. \A j \in first .. Len(V) : j - first + 2 \in 2 .. Len(R) /\ V[j] = R[j - first + 2]
  <2> SUFFICES ASSUME NEW j \in first .. Len(V)
               PROVE  j - first + 2 \in 2 .. Len(R) /\ V[j] = R[j - first + 2]
    OBVIOUS
  <2>1. j - first + 2 \in 2 .. Len(R) /\ first + (j - first + 2) - 2 = j
    BY <1>1, <1>0
  <2> QED BY <1>0, <2>1
<1>3. CASE Untouched(R, 2, side, p)
  <2>1. SizeFrom(R, 2, side, p, before) = before
    BY <1>3, SizeUntouched
  <2>2. \A j \in first .. Len(V) : Sets(V[j], side, p) = {}
    BY <1>2, <1>3 DEF Untouched
  <2>3. \A j \in Len(W) + 1 .. Len(V) : j \in first .. Len(V)
    BY <1>1, <1>0
  <2>4. CASE Untouched(W, 1, side, p)
    <3>1. \A j \in 1 .. Len(V) : j \in 1 .. Len(W) \/ j \in Len(W) + 1 .. Len(V)
      BY <1>1, <1>0
    <3>2. Untouched(V, 1, side, p)
      BY <1>0, <2>2, <2>3, <2>4, <3>1 DEF Untouched
    <3> QED BY <2>1, <2>4, <3>2, SizeUntouched
  <2>5. ASSUME NEW k, LastTouch(W, 1, side, p, k)
        PROVE  SizeFrom(W, 1, side, p, 0) = SizeFrom(V, 1, side, p, 0)
    <3>1. /\ k \in 1 .. Len(W) /\ Sets(W[k], side, p) # {}
          /\ \A j \in k + 1 .. Len(W) : Sets(W[j], side, p) = {}
      BY <2>5 DEF LastTouch, Untouched
    <3>2. k \in 1 .. Len(V) /\ V[k] = W[k]
      BY <1>1, <1>0, <3>1
    <3>3. \A j \in k + 1 .. Len(V) :
            \/ j \in 1 .. Len(W) /\ j \in k + 1 .. Len(W)
            \/ j \in Len(W) + 1 .. Len(V)
      BY <1>1, <1>0, <3>1
    <3>4. \A j \in k + 1 .. Len(V) : Sets(V[j], side, p) = {}
      BY <1>0, <2>2, <2>3, <3>1, <3>3
    <3>5. LastTouch(V, 1, side, p, k)
      BY <3>1, <3>2, <3>4 DEF LastTouch, Untouched
    <3>6. SizeFrom(V, 1, side, p, 0) = SizeIn(V[k], side, p)
      BY <1>1, <3>5, SizeTouched
    <3>7. SizeFrom(W, 1, side, p, 0) = SizeIn(W[k], side, p)
      BY <1>1, <2>5, SizeTouched
    <3> QED BY <3>2, <3>6, <3>7
  <2> QED BY <1>1, <2>1, <2>4, <2>5, TouchedOrNot
<1>4. ASSUME NEW k, LastTouch(R, 2, side, p, k)
      PROVE  SizeFrom(R, 2, side, p, before) = SizeFrom(V, 1, side, p, 0)
  <2>1. /\ k \in 2 .. Len(R) /\ Sets(R[k], side, p) # {}
        /\ \A j \in k + 1 .. Len(R) : Sets(R[j], side, p) = {}
    BY <1>4 DEF LastTouch, Untouched
  <2>2. PICK j : j = first + k - 2
    OBVIOUS
  <2>3. j \in first .. Len(V) /\ j \in 1 .. Len(V) /\ V[j] = R[k]
    BY <1>1, <1>0, <2>1, <2>2
  <2>4. ASSUME NEW i \in j + 1 .. Len(V) PROVE Sets(V[i], side, p) = {}
    <3>1. i \in first .. Len(V) /\ i - first + 2 \in k + 1 .. Len(R)
      BY <1>1, <1>0, <2>1, <2>2
    <3> QED BY <1>2, <2>1, <3>1
  <2>5. LastTouch(V, 1, side, p, j)
    BY <2>1, <2>3, <2>4 DEF LastTouch, Untouched
  <2>6. SizeFrom(V, 1, side, p, 0) = SizeIn(V[j], side, p)
    BY <1>1, <2>5, SizeTouched
  <2>7. SizeFrom(R, 2, side, p, before) = SizeIn(R[k], side, p)
    <3>1. PICK m : m = 2
      OBVIOUS
    <3>2. m \in 1 .. Len(R) + 1 /\ LastTouch(R, m, side, p, k)
      BY <1>1, <1>4, <3>1
    <3>3. SizeFrom(R, m, side, p, before) = SizeIn(R[k], side, p)
      BY <3>2, SizeTouched
    <3> QED BY <3>1, <3>3
  <2> QED BY <2>3, <2>6, <2>7
<1> QED BY <1>1, <1>3, <1>4, TouchedOrNot

(* R is the snapshot and the m updates from `first` on.                     *)
Seeded(R, s, first, m, last) ==
  /\ last = first + m - 1
  /\ Len(R) = m + 1
  /\ last <= Len(updates)
  /\ s \in first - 1 .. last
  /\ R[1] = Snapshot(s)
  /\ \A k \in 1 .. m : R[k + 1] = updates[first + k - 1]

(* It sets the market.                                                      *)
LEMMA SeededIsMarket ==
  ASSUME updates \in Seq(Change), NEW R \in Seq(Change), NEW s \in Nat,
         NEW first \in Nat \ {0}, NEW m \in Nat, NEW last \in Nat,
         Seeded(R, s, first, m, last)
  PROVE  SizesAfter(R) = Market(last)
<1>0. /\ last = first + m - 1 /\ Len(R) = m + 1 /\ last <= Len(updates)
      /\ s \in first - 1 .. last /\ R[1] = Snapshot(s)
      /\ \A k \in 1 .. m : R[k + 1] = updates[first + k - 1]
  BY DEF Seeded
<1>1. PICK V, W : V = SubSeq(updates, 1, last) /\ W = SubSeq(updates, 1, s)
  OBVIOUS
<1>2. Len(updates) \in Nat /\ s <= Len(updates) /\ 1 \in 1 .. Len(R)
  BY <1>0
<1>3. V \in Seq(Change) /\ Len(V) = last /\ \A k \in 1 .. last : V[k] = updates[k]
  BY <1>0, <1>1, <1>2
<1>4. W \in Seq(Change) /\ Len(W) = s /\ \A k \in 1 .. s : W[k] = updates[k]
  BY <1>1, <1>2
<1>5. Len(W) \in first - 1 .. Len(V) /\ Len(R) = Len(V) - first + 2
  BY <1>0, <1>3, <1>4
<1>6. \A k \in 1 .. Len(W) : W[k] = V[k]
  <2> SUFFICES ASSUME NEW k \in 1 .. s PROVE W[k] = V[k]
    BY <1>4
  <2>1. k \in 1 .. last
    BY <1>0
  <2> QED BY <1>3, <1>4, <2>1
<1>7. ASSUME NEW k \in 2 .. Len(R) PROVE R[k] = V[first + k - 2]
  <2>1. k - 1 \in 1 .. m /\ (k - 1) + 1 = k /\ first + (k - 1) - 1 = first + k - 2
        /\ first + k - 2 \in 1 .. last
    BY <1>0, <1>2
  <2>2. R[(k - 1) + 1] = updates[first + (k - 1) - 1]
    BY <1>0, <2>1
  <2> QED BY <1>3, <2>1, <2>2
<1>8. Resumes(V, W, R, first)
  BY <1>5, <1>6, <1>7 DEF Resumes
<1>9. ASSUME NEW side \in Sides, NEW p \in Prices
      PROVE  SizesAfter(R)[side][p] = Market(last)[side][p]
  <2>1. PICK c, before : c = Snapshot(s) /\ before = SizeOr(c, side, p, 0)
    OBVIOUS
  <2>2. /\ c \in Change /\ Market(s) \in SizeMap
        /\ AreListed(c[side], Market(s)[side])
    BY <1>2, <2>1, SnapshotIsMarket
  <2>3. before = Market(s)[side][p]
    <3>1. Market(s)[side] \in [Prices -> Nat]
      BY <2>2 DEF SizeMap
    <3> QED BY <2>1, <2>2, <3>1, ListsSets
  <2>4. Market(s)[side][p] = SizeFrom(W, 1, side, p, 0)
    BY <1>1, <1>4, SizesAfterType DEF Market
  <2>5. Market(last)[side][p] = SizeFrom(V, 1, side, p, 0)
    BY <1>1, <1>3, SizesAfterType DEF Market
  <2>6. SizesAfter(R)[side][p] = SizeFrom(R, 1, side, p, 0)
    BY SizesAfterType
  <2>7. SizeFrom(R, 1, side, p, 0) = SizeFrom(R, 1 + 1, side, p, SizeOr(R[1], side, p, 0))
    <3>1. PICK i : i = 1
      OBVIOUS
    <3>2. i \in 1 .. Len(R)
      BY <1>2, <3>1
    <3>3. SizeFrom(R, i, side, p, 0) = SizeFrom(R, i + 1, side, p, SizeOr(R[i], side, p, 0))
      BY <3>2, SizeFromNext
    <3> QED BY <3>1, <3>3
  <2>8. SizeFrom(R, 1, side, p, 0) = SizeFrom(R, 2, side, p, before)
    BY <1>0, <2>1, <2>7
  <2>9. before = SizeFrom(W, 1, side, p, 0)
    BY <2>3, <2>4
  <2>10. SizeFrom(R, 2, side, p, before) = SizeFrom(V, 1, side, p, 0)
    BY <1>3, <1>4, <1>8, <2>9, CatchesUp
  <2> QED BY <2>5, <2>6, <2>8, <2>10
<1>10. SizesAfter(R) \in SizeMap /\ Market(last) \in SizeMap
  BY <1>1, <1>3, SizesAfterType DEF Market
<1> QED BY <1>9, <1>10 DEF SizeMap

(* The first and the last update of a capture, if there is one.             *)
FirstOf(feed, s) == IF feed = <<>> THEN s + 1 ELSE feed[1].finalUpdateId

AreUpdates(feed, first) ==
  /\ first \in Nat \ {0}
  /\ first + Len(feed) - 1 \in Nat
  /\ first + Len(feed) - 1 <= Len(updates)
  /\ \A k \in 1 .. Len(feed) : feed[k].levels = updates[first + k - 1]

(* They are updates of the market.                                          *)
LEMMA FeedIs ==
  ASSUME NEW feed \in Seq(Update), NEW fs, NEW n, Fed(feed, fs, n), Len(updates) \in Nat,
         NEW s \in Nat, s <= Len(updates)
  PROVE  AreUpdates(feed, FirstOf(feed, s))
<1> PICK first, m : first = FirstOf(feed, s) /\ m = Len(feed)
  OBVIOUS
<1>1. CASE feed = <<>>
  BY <1>1 DEF FirstOf, AreUpdates
<1>2. CASE feed # <<>>
  <2>1. first = feed[1].finalUpdateId
    BY <1>2 DEF FirstOf
  <2>2. m \in Nat \ {0} /\ 1 \in 1 .. m /\ m \in 1 .. m
    BY <1>2
  <2>3. \A k \in 1 .. m : /\ first + k - 1 \in 1 .. Len(updates)
                          /\ feed[k] = [finalUpdateId |-> first + k - 1,
                                        levels |-> updates[first + k - 1]]
    BY <2>1 DEF Fed
  <2>4. first \in Nat
    <3>1. feed[1] \in Update
      BY <2>2
    <3> QED BY <2>1, <3>1 DEF Update
  <2>5. first + 1 - 1 \in 1 .. Len(updates) /\ first + m - 1 \in 1 .. Len(updates)
    BY <2>2, <2>3
  <2>6. first \in Nat \ {0} /\ first + m - 1 \in Nat /\ first + m - 1 <= Len(updates)
    BY <2>2, <2>4, <2>5
  <2>7. ASSUME NEW k \in 1 .. m PROVE feed[k].levels = updates[first + k - 1]
    <3>1. PICK u : u = updates[first + k - 1]
      OBVIOUS
    <3>2. feed[k] = [finalUpdateId |-> first + k - 1, levels |-> u]
      BY <2>3, <3>1
    <3> QED BY <3>1, <3>2
  <2> QED BY <2>2, <2>6, <2>7 DEF AreUpdates
<1> QED BY <1>1, <1>2

(* What has been set after a pass is the market.                            *)
LEMMA ReplayedIsMarket ==
  ASSUME ReplayInv, updates \in Seq(Changes), replay.pc = "passed",
         NEW s, s = replay.snap.lastUpdateId,
         NEW first, first = FirstOf(replay.feed, s),
         NEW last, last = first + Len(replay.feed) - 1,
         s \in first - 1 .. last
  PROVE  SizesAfter(Replayed) = Market(last)
<1>1. /\ replay.snap.levels = Snapshot(s)
      /\ s \in Nat /\ s <= Len(updates)
  BY InputsAreChanges
<1>2. PICK R, m : R = Replayed /\ m = Len(replay.feed)
  OBVIOUS
<1>3. /\ R \in Seq(Change) /\ Len(R) = m + 1 /\ R[1] = Snapshot(s)
      /\ \A k \in 1 .. m : R[k + 1] = replay.feed[k].levels
  BY <1>1, <1>2, ReplayedIs
<1>4. updates \in Seq(Change) /\ Len(updates) \in Nat
  BY ChangesAre
<1>5. replay.feed \in Seq(Update) /\ Fed(replay.feed, file, replay.line_no)
  BY DEF ReplayInv, ReplayOK, Stage, Loaded
<1>6. AreUpdates(replay.feed, first)
  BY <1>1, <1>4, <1>5, FeedIs
<1>7. m \in Nat /\ first \in Nat \ {0} /\ last \in Nat
  BY <1>2, <1>5, <1>6 DEF AreUpdates
<1>8. Seeded(R, s, first, m, last)
  BY <1>2, <1>3, <1>6 DEF AreUpdates, Seeded
<1>9. SizesAfter(R) = Market(last)
  BY <1>1, <1>3, <1>4, <1>7, <1>8, SeededIsMarket
<1> QED BY <1>2, <1>9

(* A replay reconstructs the market.                                        *)
LEMMA SteadyInvReconstructs == SteadyInv => Reconstructs
<1> SUFFICES ASSUME SteadyInv, replay.pc = "passed",
                    NEW s, s = replay.snap.lastUpdateId,
                    NEW first, first = FirstOf(replay.feed, s),
                    NEW last, last = first + Len(replay.feed) - 1,
                    s \in first - 1 .. last
             PROVE  BookShows(Market(last))
  BY DEF Reconstructs, FirstOf
<1>1. ReplayInv /\ updates \in Seq(Changes)
  BY DEF SteadyInv, InputInv, CaptureInv, CaptureOK
<1>2. PassInv
  BY <1>1 DEF SteadyInv, ReplayInv, Stage
<1>3. BookShows(SizesAfter(Replayed))
  BY <1>1, <1>2, PassedShows
<1>4. SizesAfter(Replayed) = Market(last)
  BY <1>1, ReplayedIsMarket
<1> QED BY <1>3, <1>4

(* "Replaying these onto a book seeded from a REST snapshot reconstructs    *)
(* the live book" (binance_depth.hpp): for every market and whatever ended  *)
(* the capture, if the snapshot is not older than the update before the     *)
(* first captured one and not younger than the last, the book after a pass  *)
(* is the market after the last captured update, although the ids are never *)
(* compared.                                                                *)
THEOREM ReplayReconstructs == MarketSpec => []Reconstructs
<1>1. MarketInit => SteadyInv
  <2> SUFFICES ASSUME MarketInit PROVE SteadyInv
    OBVIOUS
  <2>1. CaptureInit /\ updates = <<>>
    BY DEF MarketInit
  <2> QED BY <2>1, CaptureInitOK, ReplayInitOK, PassInitOK DEF InputInv, SteadyInv
<1>2. SteadyInv /\ [MarketNext]_allVars => SteadyInv'
  BY SteadyStepOK
<1> QED BY <1>1, <1>2, SteadyInvReconstructs, PTL DEF MarketSpec

-----------------------------------------------------------------------------
(* The snapshot tool.  Its answer is a snapshot of the market or cannot be  *)
(* parsed; the levels that are not yet added lead from what the book shows  *)
(* to the market, each to a price that has no order.                        *)

OneEach(todo) ==
  \A j, k \in 1 .. Len(todo) :
    todo[j].side = todo[k].side /\ todo[j].price = todo[k].price => j = k

Positive(todo) == \A k \in 1 .. Len(todo) : todo[k].volume > 0

Leads(todo, G, M) ==
  \A side \in Sides, p \in Prices : EntrySize(todo, side, p, G[side][p]) = M[side][p]

NoneYet(todo, G) == \A k \in 1 .. Len(todo) : G[todo[k].side][todo[k].price] = 0

Loading(todo, G, M) ==
  /\ todo \in Seq(Item)
  /\ OneEach(todo)
  /\ Positive(todo)
  /\ Leads(todo, G, M)
  /\ NoneYet(todo, G)

(* The levels of a snapshot lead from nothing to the market.                *)
LEMMA SnapshotLoads ==
  ASSUME updates \in Seq(Change), NEW n \in Nat, n <= Len(updates),
         NEW todo, todo = InOrder(Snapshot(n))
  PROVE  Loading(todo, NoSizes, Market(n))
<1>1. PICK c, M : c = Snapshot(n) /\ M = Market(n)
  OBVIOUS
<1>2. /\ c \in Change /\ M \in SizeMap
      /\ \A side \in Sides : AreListed(c[side], M[side])
  BY <1>1, SnapshotIsMarket
<1>3. todo = InOrder(c) /\ todo \in Seq(Item)
  BY <1>1, <1>2, InOrderType
<1>4. \A k \in 1 .. Len(todo) :
        /\ todo[k].side \in Sides /\ todo[k].price \in Prices
        /\ k \in EntriesAt(todo, todo[k].side, todo[k].price)
  <2> SUFFICES ASSUME NEW k \in 1 .. Len(todo)
               PROVE  /\ todo[k].side \in Sides /\ todo[k].price \in Prices
                      /\ k \in EntriesAt(todo, todo[k].side, todo[k].price)
    OBVIOUS
  <2>1. todo[k] \in Item
    BY <1>3
  <2> QED BY <2>1 DEF Item, EntriesAt
<1>5. ASSUME NEW k \in 1 .. Len(todo)
      PROVE  /\ todo[k].volume > 0
             /\ \A j \in EntriesAt(todo, todo[k].side, todo[k].price) : j = k
  <2>1. PICK side, p : side = todo[k].side /\ p = todo[k].price
    OBVIOUS
  <2>2. side \in Sides /\ k \in EntriesAt(todo, side, p)
    BY <1>4, <2>1
  <2>3. PICK levels : levels = c[side]
    OBVIOUS
  <2>4. PICK d \in Nat :
           /\ Len(levels) \in Nat
           /\ \A i \in 1 .. Len(levels) : todo[d + i].volume = levels[i].volume
           /\ \A j \in EntriesAt(todo, side, p) : j - d \in Sets(c, side, p)
    BY <1>2, <1>3, <2>2, <2>3, InOrderAt
  <2>5. \A i \in Sets(c, side, p) : i \in 1 .. Len(levels) /\ levels[i].price = p
    <3>1. levels \in Seq(Entry)
      BY <1>2, <2>2, <2>3 DEF Change
    <3> QED BY <2>3, <3>1 DEF Sets
  <2>6. AreListed(levels, M[side])
    BY <1>2, <2>2, <2>3
  <2>7. k - d \in Sets(c, side, p) /\ k - d \in 1 .. Len(levels) /\ d + (k - d) = k
    BY <2>2, <2>4, <2>5
  <2>8. todo[k].volume > 0
    <3>1. levels[k - d].volume > 0
      BY <2>6, <2>7 DEF AreListed
    <3>2. todo[d + (k - d)].volume = levels[k - d].volume
      BY <2>4, <2>7
    <3> QED BY <2>7, <3>1, <3>2
  <2>9. ASSUME NEW j \in EntriesAt(todo, side, p) PROVE j = k
    <3>1. j - d \in 1 .. Len(levels) /\ levels[j - d].price = p
      BY <2>4, <2>5
    <3>2. levels[k - d].price = p
      BY <2>5, <2>7
    <3>3. j - d = k - d
      BY <2>6, <2>7, <3>1, <3>2 DEF AreListed
    <3>4. j \in Nat
      BY DEF EntriesAt
    <3> QED BY <3>3, <3>4
  <2> QED BY <2>1, <2>8, <2>9
<1>6. OneEach(todo)
  <2> SUFFICES ASSUME NEW j \in 1 .. Len(todo), NEW k \in 1 .. Len(todo),
                      todo[j].side = todo[k].side, todo[j].price = todo[k].price
               PROVE  j = k
    BY DEF OneEach
  <2>1. j \in EntriesAt(todo, todo[k].side, todo[k].price)
    BY DEF EntriesAt
  <2> QED BY <1>5, <2>1
<1>7. Positive(todo)
  BY <1>5 DEF Positive
<1>8. ASSUME NEW side \in Sides, NEW p \in Prices
      PROVE  EntrySize(todo, side, p, NoSizes[side][p]) = M[side][p]
  <2>1. NoSizes[side][p] = 0
    BY DEF NoSizes
  <2>2. EntrySize(todo, side, p, 0) = SizeOr(c, side, p, 0)
    BY <1>2, <1>3, InOrderSets
  <2>3. M[side] \in [Prices -> Nat]
    BY <1>2 DEF SizeMap
  <2>4. SizeOr(c, side, p, 0) = M[side][p]
    BY <1>2, <2>3, ListsSets
  <2> QED BY <2>1, <2>2, <2>4
<1>9. Leads(todo, NoSizes, M)
  BY <1>8 DEF Leads
<1>10. NoneYet(todo, NoSizes)
  BY <1>4 DEF NoneYet, NoSizes
<1> QED BY <1>1, <1>3, <1>6, <1>7, <1>9, <1>10 DEF Loading

(* Adding the first of them leads on.                                       *)
LEMMA LoadingNext ==
  ASSUME NEW todo, NEW G \in SizeMap, NEW M, Loading(todo, G, M), todo # <<>>,
         NEW l, l = Head(todo), NEW t, t = Tail(todo),
         NEW H, H = SetSize(G, l.side, l.price, l.volume)
  PROVE  /\ l.side \in Sides /\ l.price \in Prices /\ l.volume \in Nat /\ l.volume > 0
         /\ G[l.side][l.price] = 0
         /\ Loading(t, H, M)
<1>1. /\ todo \in Seq(Item) /\ OneEach(todo) /\ Positive(todo)
      /\ Leads(todo, G, M) /\ NoneYet(todo, G)
  BY DEF Loading
<1>2. /\ Len(todo) \in Nat /\ 1 \in 1 .. Len(todo) /\ l = todo[1]
      /\ t \in Seq(Item) /\ Len(t) = Len(todo) - 1
      /\ \A k \in 1 .. Len(t) : k + 1 \in 1 .. Len(todo) /\ t[k] = todo[k + 1]
  BY <1>1
<1>3. l.side \in Sides /\ l.price \in Prices /\ l.volume \in Nat
  <2>1. l \in Item
    BY <1>1, <1>2
  <2> QED BY <2>1, MarketAssumption DEF Item
<1>4. l.volume > 0 /\ G[l.side][l.price] = 0
  BY <1>1, <1>2 DEF Positive, NoneYet
<1>5. OneEach(t)
  <2> SUFFICES ASSUME NEW j \in 1 .. Len(t), NEW k \in 1 .. Len(t),
                      t[j].side = t[k].side, t[j].price = t[k].price
               PROVE  j = k
    BY DEF OneEach
  <2>1. j + 1 = k + 1
    BY <1>1, <1>2 DEF OneEach
  <2> QED BY <2>1
<1>6. Positive(t)
  BY <1>1, <1>2 DEF Positive
<1>7. \A s \in Sides, q \in Prices :
        H[s][q] = IF s = l.side /\ q = l.price THEN l.volume ELSE G[s][q]
  <2>1. PICK side, p, v : side = l.side /\ p = l.price /\ v = l.volume
    OBVIOUS
  <2>2. side \in Sides /\ p \in Prices /\ v \in Nat
    BY <1>3, <2>1
  <2>3. \A s \in Sides, q \in Prices :
          SetSize(G, side, p, v)[s][q] = IF s = side /\ q = p THEN v ELSE G[s][q]
    BY <2>2, SetSizeIs
  <2>4. H = SetSize(G, side, p, v)
    BY <2>1
  <2>5. \A s \in Sides, q \in Prices : H[s][q] = IF s = side /\ q = p THEN v ELSE G[s][q]
    BY <2>3, <2>4
  <2> SUFFICES ASSUME NEW s \in Sides, NEW q \in Prices
               PROVE  H[s][q] = IF s = l.side /\ q = l.price THEN l.volume ELSE G[s][q]
    OBVIOUS
  <2>6. H[s][q] = IF s = side /\ q = p THEN v ELSE G[s][q]
    BY <2>5
  <2>7. CASE s = side /\ q = p
    BY <2>1, <2>6, <2>7
  <2>8. CASE ~(s = side /\ q = p)
    BY <2>1, <2>6, <2>8
  <2> QED BY <2>7, <2>8
<1>8. ASSUME NEW side \in Sides, NEW p \in Prices
      PROVE  EntrySize(t, side, p, H[side][p]) = M[side][p]
  <2>1. PICK before, now : before = G[side][p] /\ now = H[side][p]
    OBVIOUS
  <2>2. now = IF Head(todo).side = side /\ Head(todo).price = p
                THEN Head(todo).volume ELSE before
    BY <1>7, <2>1
  <2>3. EntrySize(todo, side, p, before) = EntrySize(t, side, p, now)
    BY <1>1, <2>2, EntryHead
  <2>4. EntrySize(todo, side, p, before) = M[side][p]
    BY <1>1, <2>1 DEF Leads
  <2> QED BY <2>1, <2>3, <2>4
<1>9. Leads(t, H, M)
  BY <1>8 DEF Leads
<1>10. ASSUME NEW k \in 1 .. Len(t) PROVE H[t[k].side][t[k].price] = 0
  <2>1. t[k] \in Item /\ t[k] = todo[k + 1] /\ k + 1 \in 1 .. Len(todo) /\ k + 1 # 1
    BY <1>2
  <2>2. t[k].side \in Sides /\ t[k].price \in Prices
    BY <2>1 DEF Item
  <2>3. ~(t[k].side = l.side /\ t[k].price = l.price)
    BY <1>1, <1>2, <2>1 DEF OneEach
  <2>4. G[t[k].side][t[k].price] = 0
    BY <1>1, <2>1 DEF NoneYet
  <2> QED BY <1>7, <2>2, <2>3, <2>4
<1>11. NoneYet(t, H)
  BY <1>10 DEF NoneYet
<1> QED BY <1>2, <1>3, <1>4, <1>5, <1>6, <1>9, <1>11 DEF Loading

Asked == tool.pc \in {"shutdown", "parse", "load", "success"}

(* The answer is no error, as far as the tool has to know.                  *)
Accepted == tool.pc = "parse" \/ (tool.pc = "shutdown" /\ tool.answer.status = 200)

Answered(doc) ==
  \/ \E n \in 0 .. Len(updates) : doc = SnapshotDocument(n)
  \/ ~parse_binance_depth(doc).ok

OnLoad == \E G : Heading(G) /\ Loading(tool.todo, G, Market(tool.shown))

ToolInv ==
  /\ CallingOK
  /\ tool = [source |-> tool.source, pc |-> tool.pc, answer |-> tool.answer,
             todo |-> tool.todo, shown |-> tool.shown]
  /\ program \in {"live", "file"}
  /\ program = "file" => tool.pc \in {"read_file", "parse", "load", "success", "failure"}
  /\ Asked => program = "live" \/ saved # -1
  /\ Accepted => Answered(tool.answer.doc)
  /\ tool.pc \notin {"load", "success"} => Fresh /\ call = Idle
  /\ tool.pc = "success" => call = Idle /\ tool.todo = <<>>
  /\ tool.pc \in {"load", "success"} =>
       /\ tool.shown \in 0 .. Len(updates)
       /\ call # Aborted => OnLoad

LiveInv ==
  /\ InputInv
  /\ ~Replaying => ToolInv
  /\ Replaying => tool.pc = "read_file"

(* A book that does not move stays in order.                                *)
LEMMA CallingStays ==
  ASSUME CallingOK, UNCHANGED <<book, call>>
  PROVE  CallingOK' /\ \A G : Heading(G) => Heading(G)'
<1>1. Inv'
  BY StutterOK DEF CallingOK, vars
<1>2. CallingOK'
  BY <1>1 DEF CallingOK
<1>3. \A G : Heading(G) => Heading(G)'
  BY DEF Heading, Pending, CalledLevel
<1> QED BY <1>2, <1>3

(* The market of a moment that is past does not change.                     *)
LEMMA PastStays ==
  ASSUME UNCHANGED updates
  PROVE  /\ \A n : Market(n)' = Market(n)
         /\ \A n : SnapshotDocument(n)' = SnapshotDocument(n)
<1>1. \A n : Market(n)' = Market(n)
  BY DEF Market
<1>2. \A n, side : LiveLevels(n, side)' = LiveLevels(n, side)
  BY <1>1 DEF LiveLevels
<1>3. \A n : SnapshotDocument(n)' = SnapshotDocument(n)
  BY <1>2 DEF SnapshotDocument
<1> QED BY <1>1, <1>3

(* The tool does not move, and the market only before it is asked for it.   *)
LEMMA ToolWaitsOK ==
  ASSUME ToolInv, UNCHANGED <<tool, book, call, program>>,
         saved # -1 => saved' # -1, ~Asked \/ UNCHANGED updates
  PROVE  ToolInv'
<1>1. CallingOK' /\ \A G : Heading(G) => Heading(G)'
  BY CallingStays DEF ToolInv
<1>2. (Asked' <=> Asked) /\ (Accepted' <=> Accepted)
  BY DEF Asked, Accepted
<1>3. Fresh => Fresh'
  BY DEF Fresh
<1>4. CASE UNCHANGED updates
  <2>1. OnLoad => OnLoad'
    <3> SUFFICES ASSUME NEW G, Heading(G), Loading(tool.todo, G, Market(tool.shown))
                 PROVE  OnLoad'
      BY DEF OnLoad
    <3>1. Heading(G)' /\ tool'.todo = tool.todo /\ Market(tool.shown)' = Market(tool.shown)
      BY <1>1, <1>4 DEF Market
    <3>2. Loading(tool.todo, G, Market(tool.shown))'
      BY <3>1 DEF Loading, Leads, NoneYet
    <3> QED BY <3>1, <3>2 DEF OnLoad
  <2>2. Answered(tool.answer.doc) => Answered(tool.answer.doc)'
    BY <1>4, PastStays DEF Answered
  <2> QED BY <1>1, <1>2, <1>3, <1>4, <2>1, <2>2 DEF ToolInv
<1>5. CASE ~Asked
  BY <1>1, <1>2, <1>3, <1>5 DEF ToolInv, Asked, Accepted
<1> QED BY <1>4, <1>5

(* The fetch: what comes back is a snapshot of the market as it is, or      *)
(* something that is refused.                                               *)
LEMMA FetchOK ==
  ASSUME ToolInv, updates \in Seq(Changes), saved \in -1 .. Len(updates),
         UNCHANGED <<updates, saved, program>>,
         \/ FetchProceeds \/ FetchFails \/ FetchAnswered(Answers) \/ Shutdown
         \/ saved # -1 /\ ReadFile(SnapshotDocument(saved))
  PROVE  ToolInv'
<1>1. tool = [source |-> tool.source, pc |-> tool.pc, answer |-> tool.answer,
              todo |-> tool.todo, shown |-> tool.shown]
  BY DEF ToolInv
<1>2. DOMAIN FetchFollowing = {"sni", "resolve", "connect", "tls", "write"}
  BY DEF FetchFollowing
<1>3. /\ UNCHANGED <<book, call>>
      /\ tool' = [source |-> tool'.source, pc |-> tool'.pc, answer |-> tool'.answer,
                  todo |-> tool'.todo, shown |-> tool'.shown]
      /\ tool.pc \notin {"load", "success"} /\ tool'.pc \notin {"load", "success"}
  <2>1. CASE FetchProceeds
    <3>1. \A pc \in DOMAIN FetchFollowing :
            FetchFollowing[pc] \in {"resolve", "connect", "tls", "write", "read"}
      BY <1>2 DEF FetchFollowing
    <3>2. /\ tool.pc \in DOMAIN FetchFollowing /\ UNCHANGED <<book, call>>
          /\ tool' = [tool EXCEPT !.pc = FetchFollowing[tool.pc]]
      BY <2>1 DEF FetchProceeds
    <3>3. tool'.pc = FetchFollowing[tool.pc]
      BY <1>1, <3>2
    <3> QED BY <1>1, <1>2, <3>1, <3>2, <3>3
  <2>2. CASE FetchFails
    BY <1>1, <1>2, <2>2 DEF FetchFails
  <2>3. CASE FetchAnswered(Answers)
    BY <1>1, <2>3 DEF FetchAnswered
  <2>4. CASE Shutdown
    BY <1>1, <2>4 DEF Shutdown
  <2>5. CASE ReadFile(SnapshotDocument(saved))
    BY <1>1, <2>5 DEF ReadFile
  <2> QED BY <2>1, <2>2, <2>3, <2>4, <2>5
<1>4. CallingOK' /\ Fresh' /\ call' = Idle
  <2>1. CallingOK /\ Fresh /\ call = Idle
    BY <1>3 DEF ToolInv
  <2> QED BY <1>3, <2>1, CallingStays DEF Fresh
<1>5. /\ program = "file" => tool'.pc \in {"parse", "failure"}
      /\ Asked' => program = "live" \/ saved # -1
      /\ Accepted' => Answered(tool'.answer.doc)
  <2>1. CASE FetchProceeds
    <3>1. /\ tool.pc \in DOMAIN FetchFollowing
          /\ tool' = [tool EXCEPT !.pc = FetchFollowing[tool.pc]]
      BY <2>1 DEF FetchProceeds
    <3>2. tool'.pc = FetchFollowing[tool.pc]
      BY <1>1, <3>1
    <3>3. tool'.pc \in {"resolve", "connect", "tls", "write", "read"}
      BY <1>2, <3>1, <3>2 DEF FetchFollowing
    <3>4. program # "file"
      BY <1>2, <3>1 DEF ToolInv
    <3> QED BY <3>3, <3>4 DEF Asked, Accepted
  <2>2. CASE FetchFails
    <3>1. tool'.pc = "failure"
      BY <1>1, <2>2 DEF FetchFails
    <3> QED BY <3>1 DEF Asked, Accepted
  <2>3. CASE FetchAnswered(Answers)
    <3>1. PICK answer \in Answers :
            tool.pc = "read" /\ tool' = [tool EXCEPT !.pc = "shutdown", !.answer = answer]
      BY <2>3 DEF FetchAnswered
    <3>2. tool'.pc = "shutdown" /\ tool'.answer = answer /\ program = "live"
      BY <1>1, <3>1 DEF ToolInv
    <3>3. answer.status = 200 => Answered(answer.doc)
      <4>1. CASE answer = [status |-> 200, doc |-> SnapshotDocument(Len(updates))]
        <5>1. Len(updates) \in 0 .. Len(updates)
          OBVIOUS
        <5>2. answer.doc = SnapshotDocument(Len(updates))
          BY <4>1
        <5> QED BY <5>1, <5>2 DEF Answered
      <4>2. CASE answer \in [status : {200}, doc : ToSet(Notices)]
        <5>1. PICK k \in DOMAIN Notices : answer.doc = Notices[k]
          BY <4>2 DEF ToSet
        <5>2. ~parse_binance_depth(Notices[k]).ok
          BY MarketAssumption
        <5> QED BY <5>1, <5>2 DEF Answered
      <4>3. CASE answer \in [status : {503}, doc : ToSet(Notices) \cup {EmptyDepth}]
        BY <4>3
      <4> QED BY <4>1, <4>2, <4>3 DEF Answers
    <3> QED BY <3>2, <3>3 DEF Accepted
  <2>4. CASE Shutdown
    <3>1. /\ tool.pc = "shutdown" /\ tool'.pc \in {"parse", "failure"}
          /\ tool'.answer = tool.answer
          /\ tool'.pc = "parse" => tool.answer.status = 200
      BY <1>1, <2>4 DEF Shutdown
    <3> QED BY <3>1 DEF ToolInv, Asked, Accepted
  <2>5. CASE saved # -1 /\ ReadFile(SnapshotDocument(saved))
    <3>1. tool'.pc = "parse" /\ tool'.answer = [status |-> 200, doc |-> SnapshotDocument(saved)]
      BY <1>1, <2>5 DEF ReadFile
    <3>2. saved \in 0 .. Len(updates)
      BY <2>5
    <3>3. tool'.answer.doc = SnapshotDocument(saved)
      BY <3>1
    <3> QED BY <2>5, <3>1, <3>2, <3>3 DEF Answered
  <2> QED BY <2>1, <2>2, <2>3, <2>4, <2>5
<1>6. Accepted' => Answered(tool.answer.doc)'
  <2>1. Answered(tool'.answer.doc) => Answered(tool.answer.doc)'
    BY PastStays DEF Answered
  <2> QED BY <1>5, <2>1
<1>7. program \in {"live", "file"} /\ program' = program /\ saved' = saved
  BY DEF ToolInv
<1> QED BY <1>3, <1>4, <1>5, <1>6, <1>7 DEF ToolInv

(* The levels that are left after a step lead to the same market.           *)
LEMMA OnLoadNext ==
  ASSUME UNCHANGED updates, NEW n, tool'.shown = n, NEW todo, tool'.todo = todo,
         NEW G, Heading(G)', Loading(todo, G, Market(n))
  PROVE  OnLoad'
<1>1. Market(tool.shown)' = Market(n)
  BY DEF Market
<1>2. Loading(tool.todo, G, Market(tool.shown))'
  BY <1>1 DEF Loading, Leads, NoneYet
<1> QED BY <1>2 DEF OnLoad

(* The answer is parsed: only a snapshot gets through.                      *)
LEMMA ParseSnapshotOK ==
  ASSUME ToolInv, updates \in Seq(Changes), UNCHANGED <<updates, saved, program>>,
         ParseSnapshot
  PROVE  ToolInv'
<1>1. /\ tool = [source |-> tool.source, pc |-> tool.pc, answer |-> tool.answer,
                 todo |-> tool.todo, shown |-> tool.shown]
      /\ tool.pc = "parse" /\ UNCHANGED <<book, call>>
      /\ program \in {"live", "file"} /\ program' = program /\ saved' = saved
      /\ Fresh /\ call = Idle /\ CallingOK /\ Answered(tool.answer.doc)
  BY DEF ToolInv, ParseSnapshot, Accepted
<1>2. CallingOK' /\ Fresh' /\ call' = Idle
  BY <1>1, CallingStays DEF Fresh
<1>3. program = "live" \/ saved # -1
  BY <1>1 DEF ToolInv, Asked
<1>4. PICK doc, parsed : doc = tool.answer.doc /\ parsed = parse_binance_depth(doc)
  OBVIOUS
<1>5. CASE ~parsed.ok
  <2>1. tool' = [tool EXCEPT !.pc = "failure"]
    BY <1>4, <1>5, Zenon DEF ParseSnapshot
  <2>2. /\ tool'.pc = "failure"
        /\ tool' = [source |-> tool'.source, pc |-> tool'.pc, answer |-> tool'.answer,
                    todo |-> tool'.todo, shown |-> tool'.shown]
    BY <1>1, <2>1
  <2> QED BY <1>1, <1>2, <2>2 DEF ToolInv, Asked, Accepted
<1>6. CASE parsed.ok
  <2>1. tool' = [tool EXCEPT !.pc = "load", !.todo = InOrder(parsed.value.levels),
                             !.shown = parsed.value.lastUpdateId]
    BY <1>4, <1>6, Zenon DEF ParseSnapshot
  <2>2. PICK n \in 0 .. Len(updates) : doc = SnapshotDocument(n)
    BY <1>1, <1>4, <1>6, Zenon DEF Answered
  <2>3. updates \in Seq(Change) /\ n \in Nat /\ n <= Len(updates)
    BY ChangesAre
  <2>4. parsed = Ok([lastUpdateId |-> n, levels |-> Snapshot(n)])
    BY <1>4, <2>2, <2>3, SnapshotIsMarket
  <2>5. parsed.value.lastUpdateId = n /\ parsed.value.levels = Snapshot(n)
    BY <2>4 DEF Ok
  <2>6. /\ tool'.pc = "load" /\ tool'.shown = n /\ tool'.todo = InOrder(Snapshot(n))
        /\ tool' = [source |-> tool'.source, pc |-> tool'.pc, answer |-> tool'.answer,
                    todo |-> tool'.todo, shown |-> tool'.shown]
    BY <1>1, <2>1, <2>5
  <2>7. PICK G : G = NoSizes
    OBVIOUS
  <2>8. PICK todo : todo = InOrder(Snapshot(n)) /\ tool'.todo = todo
    BY <2>6
  <2>11. Loading(todo, G, Market(n))
    BY <2>3, <2>7, <2>8, SnapshotLoads
  <2>9. Heading(G)'
    <3>1. Shows(book'.levels, NoSizes)
      <4>1. Cardinality({}) \in Nat
        BY FS_EmptySet
      <4> QED BY <1>2, <4>1, FreshShowsNext
    <3>2. NoSizes \in SizeMap
      BY DEF NoSizes, SizeMap
    <3> QED BY <1>2, <2>7, <3>1, <3>2, IdleShowsNext
  <2>10. OnLoad'
    BY <2>6, <2>8, <2>9, <2>11, OnLoadNext
  <2>12. tool'.shown \in 0 .. Len(updates')
    BY <2>6
  <2> QED BY <1>1, <1>2, <1>3, <2>6, <2>10, <2>12 DEF ToolInv, Accepted
<1> QED BY <1>5, <1>6

(* One level more.                                                          *)
LEMMA LoadLevelOK ==
  ASSUME ToolInv, UNCHANGED <<updates, saved, program>>, LoadLevel
  PROVE  ToolInv'
<1>1. PICK l, t : l = Head(tool.todo) /\ t = Tail(tool.todo)
  OBVIOUS
<1>2. /\ tool = [source |-> tool.source, pc |-> tool.pc, answer |-> tool.answer,
                 todo |-> tool.todo, shown |-> tool.shown]
      /\ tool.pc = "load" /\ tool.todo # <<>> /\ CallingOK
      /\ program \in {"live", "file"} /\ program' = program /\ saved' = saved
      /\ AddOrder(l.side, l.price, l.volume)
      /\ tool' = [tool EXCEPT !.todo = t]
      /\ tool.shown \in 0 .. Len(updates)
  BY <1>1 DEF ToolInv, LoadLevel
<1>3. call = Idle /\ call # Aborted
  BY <1>2, Records DEF AddOrder
<1>4. /\ tool'.pc = "load" /\ tool'.shown = tool.shown /\ tool'.todo = t
      /\ tool' = [source |-> tool'.source, pc |-> tool'.pc, answer |-> tool'.answer,
                  todo |-> tool'.todo, shown |-> tool'.shown]
  BY <1>2
<1>5. PICK M : M = Market(tool.shown)
  OBVIOUS
<1>6. PICK G : Heading(G) /\ Loading(tool.todo, G, M)
  BY <1>2, <1>3, <1>5 DEF ToolInv, OnLoad
<1>7. G \in SizeMap
  BY <1>3, <1>6, IdleShows
<1>8. PICK H : H = SetSize(G, l.side, l.price, l.volume)
  OBVIOUS
<1>9. /\ l.side \in Sides /\ l.price \in Prices /\ l.volume \in Nat /\ l.volume > 0
      /\ G[l.side][l.price] = 0
      /\ Loading(t, H, M)
  <2>1. PICK todo : todo = tool.todo
    OBVIOUS
  <2>2. Loading(todo, G, M) /\ todo # <<>> /\ l = Head(todo) /\ t = Tail(todo)
    BY <1>1, <1>2, <1>6, <2>1
  <2> QED BY <1>7, <1>8, <2>2, LoadingNext, ZenonT(30)
<1>10. /\ CallingOK'
       /\ call' # Aborted => Heading(SetSize(G, l.side, l.price, l.volume))'
  BY <1>2, <1>6, <1>9, AddOrderSets
<1>11. call' # Aborted => Heading(H)'
  BY <1>8, <1>10
<1>12. call' # Aborted => OnLoad'
  <2>1. PICK n : n = tool.shown /\ tool'.shown = n
    BY <1>4
  <2>2. Loading(t, H, Market(n))
    BY <1>5, <1>9, <2>1
  <2> QED BY <1>4, <1>11, <2>1, <2>2, OnLoadNext
<1>13. tool'.shown \in 0 .. Len(updates')
  BY <1>2, <1>4
<1>14. program = "live" \/ saved # -1
  BY <1>2 DEF ToolInv, Asked
<1> QED BY <1>2, <1>4, <1>10, <1>12, <1>13, <1>14 DEF ToolInv, Accepted

(* The report.                                                              *)
LEMMA ReportOK ==
  ASSUME ToolInv, UNCHANGED <<updates, saved, program>>, Report
  PROVE  ToolInv'
<1>1. /\ tool = [source |-> tool.source, pc |-> tool.pc, answer |-> tool.answer,
                 todo |-> tool.todo, shown |-> tool.shown]
      /\ tool.pc = "load" /\ tool.todo = <<>> /\ call = Idle /\ CallingOK
      /\ UNCHANGED <<book, call>>
      /\ program \in {"live", "file"} /\ program' = program /\ saved' = saved
      /\ tool' = [tool EXCEPT !.pc = "success"]
      /\ tool.shown \in 0 .. Len(updates)
  BY DEF ToolInv, Report
<1>2. /\ tool'.pc = "success" /\ tool'.shown = tool.shown /\ tool'.todo = tool.todo
      /\ tool' = [source |-> tool'.source, pc |-> tool'.pc, answer |-> tool'.answer,
                  todo |-> tool'.todo, shown |-> tool'.shown]
  BY <1>1
<1>3. CallingOK' /\ \A G : Heading(G) => Heading(G)'
  BY <1>1, CallingStays
<1>4. PICK M : M = Market(tool.shown)
  OBVIOUS
<1>5. PICK G : Heading(G) /\ Loading(tool.todo, G, M)
  BY <1>1, <1>4, Records DEF ToolInv, OnLoad
<1>6. OnLoad'
  <2>1. PICK n, todo : /\ n = tool.shown /\ tool'.shown = n
                       /\ todo = tool.todo /\ tool'.todo = todo
    BY <1>2
  <2>2. Loading(todo, G, Market(n))
    BY <1>4, <1>5, <2>1
  <2> QED BY <1>3, <1>5, <2>1, <2>2, OnLoadNext
<1>7. tool'.shown \in 0 .. Len(updates')
  BY <1>1, <1>2
<1>8. program = "live" \/ saved # -1
  BY <1>1 DEF ToolInv, Asked
<1> QED BY <1>1, <1>2, <1>3, <1>6, <1>7, <1>8 DEF ToolInv, Accepted

(* A step of the book.                                                      *)
LEMMA ToolRunningOK ==
  ASSUME ToolInv, Running, UNCHANGED <<tool, updates, saved, program>>
  PROVE  ToolInv'
<1>1. call # Idle /\ call # Aborted
  BY Records DEF Running, MatchStep, MatchReturn, DeleteStep, DeleteReturn, ClearStep,
                 ClearReturn, CollapseStep, CollapseReturn
<1>2. tool.pc = "load"
  BY <1>1 DEF ToolInv
<1>3. CallingOK' /\ \A G : Heading(G) => Heading(G)'
  BY RunningHeads DEF ToolInv
<1>4. PICK n, todo : n = tool.shown /\ todo = tool.todo
  OBVIOUS
<1>5. PICK G : Heading(G) /\ Loading(todo, G, Market(n))
  BY <1>1, <1>2, <1>4 DEF ToolInv, OnLoad
<1>6. OnLoad'
  <2>1. tool'.shown = n /\ tool'.todo = todo
    BY <1>4
  <2> QED BY <1>3, <1>5, <2>1, OnLoadNext
<1>7. /\ tool' = tool /\ saved' = saved /\ program' = program /\ updates' = updates
      /\ program = "live" \/ saved # -1
      /\ tool.shown \in 0 .. Len(updates)
  BY <1>2 DEF ToolInv, Asked
<1> QED BY <1>2, <1>3, <1>6, <1>7 DEF ToolInv, Accepted

(* Before anything happens.                                                 *)
LEMMA ToolInitOK ==
  ASSUME MarketInit, ~Replaying
  PROVE  ToolInv
<1>1. Fresh /\ call = Idle /\ CallingOK
  BY PassInitOK DEF PassInv, MarketInit, ReplayIdle
<1>2. /\ program \in {"live", "file"}
      /\ tool = ToolIdle(program)
  BY DEF MarketInit, Replaying
<1>3. /\ tool = [source |-> tool.source, pc |-> tool.pc, answer |-> tool.answer,
                 todo |-> tool.todo, shown |-> tool.shown]
      /\ tool.pc = IF program = "live" THEN "sni" ELSE "read_file"
  BY <1>2 DEF ToolIdle
<1>4. program = "live" => tool.pc = "sni"
  BY <1>3
<1>5. program = "file" => tool.pc = "read_file"
  BY <1>3
<1> QED BY <1>1, <1>2, <1>3, <1>4, <1>5 DEF ToolInv, Asked, Accepted

(* Every step keeps the tool in order.                                      *)
LEMMA LiveStepOK ==
  ASSUME LiveInv, [MarketNext]_allVars
  PROVE  LiveInv'
<1>1. InputInv /\ updates \in Seq(Changes) /\ saved \in -1 .. Len(updates)
  BY DEF LiveInv, InputInv, CaptureInv, CaptureOK, ReplayInv, ReplayOK
<1>2. InputInv'
  BY <1>1, InputStepOK
<1>3. Replaying => Replaying'
  BY DEF MarketNext, Publish, SendNotice, SaveSnapshot, Capturing, TimePasses, CaptureFaults,
         ReplayStep, ToolStep, BookStep, Ended, allVars, externalVars, Replaying
<1>4. ASSUME ~Replaying
      PROVE  ToolInv'
  <2>1. ToolInv
    BY <1>4 DEF LiveInv
  <2>2. ASSUME NEW change \in Changes, Publish(change)
        PROVE  ToolInv'
    <3>1. UNCHANGED <<tool, book, call, program, saved>> /\ Watched
      BY <2>2 DEF Publish, bookVars
    <3>2. ~Asked
      <4>1. CASE program = "live" /\ tool.pc = "read"
        BY <4>1 DEF Asked
      <4>2. CASE program # "live" /\ saved = -1
        BY <2>1, <4>2 DEF ToolInv
      <4> QED BY <1>4, <3>1, <4>1, <4>2 DEF Watched
    <3> QED BY <2>1, <3>1, <3>2, ToolWaitsOK
  <2>3. CASE SaveSnapshot
    <3>1. UNCHANGED <<tool, book, call, program, updates>> /\ saved = -1
      BY <2>3 DEF SaveSnapshot, bookVars
    <3> QED BY <2>1, <3>1, ToolWaitsOK
  <2>4. CASE SendNotice \/ Ended \/ UNCHANGED allVars
    <3>1. UNCHANGED <<tool, book, call, program, updates, saved>>
      BY <2>4 DEF SendNotice, Ended, allVars, bookVars, externalVars
    <3> QED BY <2>1, <3>1, ToolWaitsOK
  <2>5. CASE ToolStep
    <3>1. UNCHANGED <<updates, saved, program>>
      BY <2>5 DEF ToolStep, externalVars
    <3>2. CASE \/ FetchProceeds \/ FetchFails \/ FetchAnswered(Answers) \/ Shutdown
               \/ saved # -1 /\ ReadFile(SnapshotDocument(saved))
      BY <1>1, <2>1, <3>1, <3>2, FetchOK
    <3>3. CASE ParseSnapshot
      BY <1>1, <2>1, <3>1, <3>3, ParseSnapshotOK
    <3>4. CASE LoadLevel
      BY <2>1, <3>1, <3>4, LoadLevelOK
    <3>5. CASE Report
      BY <2>1, <3>1, <3>5, ReportOK
    <3> QED BY <2>5, <3>2, <3>3, <3>4, <3>5 DEF ToolStep
  <2>6. CASE BookStep
    <3>1. Running /\ UNCHANGED <<tool, updates, saved, program>>
      BY <2>6 DEF BookStep, externalVars
    <3> QED BY <2>1, <3>1, ToolRunningOK
  <2>7. ~Capturing /\ ~TimePasses /\ ~CaptureFaults /\ ~ReplayStep
    BY <1>4 DEF Capturing, TimePasses, CaptureFaults, ReplayStep
  <2> QED BY <2>2, <2>3, <2>4, <2>5, <2>6, <2>7 DEF MarketNext
<1>5. ASSUME Replaying
      PROVE  tool'.pc = "read_file"
  <2>1. UNCHANGED tool
    BY <1>5 DEF MarketNext, Publish, SendNotice, SaveSnapshot, Capturing, TimePasses,
                CaptureFaults, ReplayStep, ToolStep, BookStep, Ended, allVars
  <2> QED BY <1>5, <2>1 DEF LiveInv
<1>6. Replaying' => Replaying
  BY DEF MarketNext, Publish, SendNotice, SaveSnapshot, Capturing, TimePasses, CaptureFaults,
         ReplayStep, ToolStep, BookStep, Ended, allVars, externalVars, Replaying
<1> QED BY <1>2, <1>3, <1>4, <1>5, <1>6 DEF LiveInv

(* A success shows the market.                                              *)
LEMMA LiveInvShows == LiveInv => ShowsLiveBook
<1> SUFFICES ASSUME LiveInv, tool.pc = "success" PROVE BookShows(Market(tool.shown))
  BY DEF ShowsLiveBook
<1>1. ToolInv /\ updates \in Seq(Changes)
  BY DEF LiveInv, InputInv, CaptureInv, CaptureOK
<1>2. call = Idle /\ call # Aborted /\ tool.todo = <<>> /\ tool.shown \in 0 .. Len(updates)
  BY <1>1, Records DEF ToolInv
<1>3. PICK M : M = Market(tool.shown)
  OBVIOUS
<1>4. PICK G : Heading(G) /\ Loading(<<>>, G, M)
  BY <1>1, <1>2, <1>3 DEF ToolInv, OnLoad
<1>5. G \in SizeMap /\ Shows(book.levels, G)
  BY <1>2, <1>4, IdleShows
<1>6. M \in SizeMap
  <2>1. updates \in Seq(Change)
    BY <1>1, ChangesAre
  <2>2. tool.shown \in Nat /\ tool.shown <= Len(updates)
    BY <1>2
  <2> QED BY <1>3, <2>1, <2>2, SnapshotIsMarket
<1>7. \A side \in Sides, p \in Prices : G[side][p] = M[side][p]
  BY <1>4, EntryNone DEF Loading, Leads
<1>8. G = M
  BY <1>5, <1>6, <1>7 DEF SizeMap
<1>9. BookOK(book) /\ Sorted(book.levels)
  BY <1>1, InvFacts DEF ToolInv, CallingOK
<1>10. BookShows(G)
  BY <1>5, <1>9, ShowsBookShows
<1> QED BY <1>3, <1>8, <1>10

(* What snapshot_tool reports as a success (snapshot_main.cpp) is the book  *)
(* of the exchange as it was after the update its lastUpdateId names, for   *)
(* every market and capacity: the loops of add_order meet no price twice,   *)
(* and neither an error page nor a failed load gets that far.               *)
THEOREM ReportsLiveBook == MarketSpec => []ShowsLiveBook
<1>1. MarketInit => LiveInv
  <2> SUFFICES ASSUME MarketInit PROVE LiveInv
    OBVIOUS
  <2>1. CaptureInit /\ updates = <<>>
    BY DEF MarketInit
  <2>2. Replaying => tool.pc = "read_file"
    BY DEF MarketInit, ToolIdle, Replaying
  <2> QED BY <2>1, <2>2, CaptureInitOK, ReplayInitOK, ToolInitOK DEF InputInv, LiveInv
<1>2. LiveInv /\ [MarketNext]_allVars => LiveInv'
  BY LiveStepOK
<1> QED BY <1>1, <1>2, LiveInvShows, PTL DEF MarketSpec

=============================================================================
