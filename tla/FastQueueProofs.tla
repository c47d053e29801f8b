-------------------------- MODULE FastQueueProofs --------------------------
(***************************************************************************)
(* For every capacity, header size, base and set of messages: the lengths  *)
(* try_pop reads are right (QueueIntact) and FastQueue is a lossless FIFO  *)
(* of messages (Delivers).                                                 *)
(*                                                                         *)
(* Neither is inductive.  A consumer that loaded an old write cursor reads *)
(* a header that was published long before the latest one, so the          *)
(* invariant has to describe all the bytes between the cursors: there is a *)
(* set B of distances from the read cursor, the boundaries, such that each *)
(* boundary but the last one is the start of the frame of some message     *)
(* that ends at the next boundary, and every write cursor that can still   *)
(* be loaded is at a boundary (Layout).  Seen from every read cursor that  *)
(* the producer can still load, the ring is not over full (Freed), so the  *)
(* frame being written lies outside those bytes (Writing).                 *)
(*                                                                         *)
(* The refinement mapping parses the bytes up to the write cursor.  That   *)
(* it finds a message per boundary is an induction over the boundaries     *)
(* from the last one back (ParseMessages); that a header spells the length *)
(* it was made from is one over its digits (HeaderDecodes).                *)
(***************************************************************************)
EXTENDS FastQueueRefinement, InductionLemmas

-----------------------------------------------------------------------------
(* The constructor and the header                                           *)

(* The equation of the loop of round_up_pow2.                               *)
IsDoubling(f, v) ==
  f = [k \in 0 .. v |-> IF k = 0 THEN 1 ELSE IF f[k - 1] < v THEN 2 * f[k - 1] ELSE f[k - 1]]

(* The loop has a run, and it ends on a positive number.                    *)
LEMMA DoublingExists ==
  ASSUME NEW v \in Nat
  PROVE  \E f : IsDoubling(f, v) /\ f[v] \in Nat \ {0}
<1> DEFINE S == Nat \ {0}
           step == [k \in 1 .. v |-> [p \in S |-> IF p < v THEN 2 * p ELSE p]]
<1>1. step \in [1 .. v -> [S -> S]]
  OBVIOUS
<1>2. 1 \in S
  OBVIOUS
<1>3. PICK f \in [0 .. v -> S] : f[0] = 1 /\ \A k \in 1 .. v : f[k] = step[k][f[k - 1]]
  <2> HIDE DEF S, step
  <2> QED BY <1>1, <1>2, RecursionExists
<1>4. \A k \in 1 .. v : f[k] = IF f[k - 1] < v THEN 2 * f[k - 1] ELSE f[k - 1]
  <2> TAKE k \in 1 .. v
  <2>1. k - 1 \in 0 .. v
    OBVIOUS
  <2>2. f[k - 1] \in S
    BY <2>1
  <2> QED BY <1>3, <2>2
<1>5. IsDoubling(f, v)
  <2>1. f = [k \in 0 .. v |-> f[k]]
    OBVIOUS
  <2>2. \A k \in 0 .. v : f[k] = IF k = 0 THEN 1
                                 ELSE IF f[k - 1] < v THEN 2 * f[k - 1] ELSE f[k - 1]
    BY <1>3, <1>4
  <2> QED BY <2>1, <2>2 DEF IsDoubling
<1>6. v \in 0 .. v
  OBVIOUS
<1> QED BY <1>5, <1>6

(* Every solution of its equation ends on a positive number.                *)
LEMMA DoublingPositive ==
  ASSUME NEW v \in Nat, NEW f, IsDoubling(f, v)
  PROVE  f[v] \in Nat \ {0}
<1> DEFINE T == {k \in 0 .. v : f[k] \in Nat \ {0}}
<1>1. f[0] = 1 /\ \A k \in 1 .. v : f[k] = IF f[k - 1] < v THEN 2 * f[k - 1] ELSE f[k - 1]
  BY DEF IsDoubling
<1>2. 0 \in T
  BY <1>1
<1>3. ASSUME NEW k \in 0 .. v, k \in T, k + 1 <= v PROVE k + 1 \in T
  <2>1. k + 1 \in 1 .. v /\ k + 1 \in 0 .. v /\ (k + 1) - 1 = k
    BY <1>3
  <2>2. f[k] \in Nat \ {0}
    BY <1>3
  <2>3. f[k + 1] = IF f[k] < v THEN 2 * f[k] ELSE f[k]
    BY <1>1, <2>1
  <2> QED BY <2>1, <2>2, <2>3
<1>4. 0 .. v \subseteq T
  <2> HIDE DEF T
  <2> QED BY <1>2, <1>3, IntervalInduction
<1> QED BY <1>4

(* The ring has room for at least one byte.                                 *)
LEMMA CapacityPositive == capacity_ \in Nat \ {0}
<1> DEFINE v == capacity_bytes
<1>1. v \in Nat
  BY FastQueueAssumption
<1>2. \E f : IsDoubling(f, v)
  BY <1>1, DoublingExists
<1>3. \E f : IsDoubling(f, v) /\ capacity_ = f[v]
  BY <1>2, Zenon DEF IsDoubling, capacity_, round_up_pow2
<1> QED BY <1>1, <1>3, DoublingPositive

(* The equation of Weight.                                                  *)
IsWeight(f) == f = [i \in 0 .. kHeader |-> IF i = 0 THEN 1 ELSE Base * f[i - 1]]

(* The weights of the bytes of a header are powers of Base.                 *)
LEMMA WeightFacts ==
  /\ Weight[0] = 1
  /\ \A i \in 1 .. kHeader : Weight[i] = Base * Weight[i - 1]
  /\ \A i \in 0 .. kHeader : Weight[i] \in Nat \ {0}
<1> DEFINE n == kHeader
           S == Nat \ {0}
           step == [k \in 1 .. n |-> [p \in S |-> Base * p]]
<1>1. n \in Nat /\ Base \in S
  BY FastQueueAssumption
<1>2. step \in [1 .. n -> [S -> S]]
  <2>1. \A p \in S : Base * p \in S
    <3> TAKE p \in S
    <3>1. Base * p \in Nat /\ Base * p >= p
      BY <1>1
    <3> QED BY <3>1
  <2> QED BY <2>1
<1>3. 1 \in S
  OBVIOUS
<1>4. PICK f \in [0 .. n -> S] : f[0] = 1 /\ \A k \in 1 .. n : f[k] = step[k][f[k - 1]]
  <2> HIDE DEF S, step, n
  <2> QED BY <1>1, <1>2, <1>3, RecursionExists
<1>5. \A k \in 1 .. n : f[k] = Base * f[k - 1]
  <2> TAKE k \in 1 .. n
  <2>1. k - 1 \in 0 .. n
    BY <1>1
  <2>2. f[k - 1] \in S
    BY <2>1
  <2> QED BY <1>4, <2>2
<1>6. IsWeight(f)
  <2>1. f = [k \in 0 .. n |-> f[k]]
    OBVIOUS
  <2>2. \A k \in 0 .. n : f[k] = IF k = 0 THEN 1 ELSE Base * f[k - 1]
    BY <1>1, <1>4, <1>5
  <2> QED BY <2>1, <2>2 DEF IsWeight
<1>7. IsWeight(Weight)
  <2>1. \E g : IsWeight(g)
    BY <1>6
  <2> QED BY <2>1, Zenon DEF IsWeight, Weight
<1> HIDE DEF n
<1>8. Weight[0] = 1 /\ \A i \in 1 .. n : Weight[i] = Base * Weight[i - 1]
  BY <1>1, <1>7 DEF IsWeight, n
<1> DEFINE T == {k \in 0 .. n : Weight[k] \in S}
<1>9. 0 .. n \subseteq T
  <2>1. 0 \in T
    BY <1>1, <1>8
  <2>2. ASSUME NEW k \in 0 .. n, k \in T, k + 1 <= n PROVE k + 1 \in T
    <3>1. k + 1 \in 1 .. n /\ k + 1 \in 0 .. n /\ (k + 1) - 1 = k
      BY <1>1, <2>2
    <3>2. Weight[k] \in S
      BY <2>2
    <3>3. Weight[k + 1] = Base * Weight[k]
      BY <1>8, <3>1
    <3>4. Base * Weight[k] \in Nat /\ Base * Weight[k] >= Weight[k]
      BY <1>1, <3>2
    <3> QED BY <3>1, <3>2, <3>3, <3>4
  <2> HIDE DEF T
  <2> QED BY <1>1, <2>1, <2>2, IntervalInduction
<1> QED BY <1>8, <1>9 DEF n

-----------------------------------------------------------------------------
(* Frames                                                                   *)

(* The first kHeader entries of a sequence are bytes.                       *)
HasHeader(bytes) == \A i \in 1 .. kHeader : bytes[i] \in Byte

(* The equation of the length that SizeOf reads.                            *)
IsValue(f, bytes) ==
  f = [i \in 0 .. kHeader |-> IF i = 0 THEN 0 ELSE f[i - 1] + bytes[i] * Weight[i - 1]]

(* The facts about the constants that most proofs use.                      *)
LEMMA ConstantFacts ==
  /\ kHeader \in Nat \ {0} /\ Base \in Nat \ {0, 1} /\ Wrap \in Nat \ {0}
  /\ capacity_ \in Nat \ {0} /\ Wrap >= 2 * capacity_ /\ Wrap % capacity_ = 0
  /\ Messages \subseteq Seq(Byte)
<1>1. Wrap \in Nat /\ Wrap >= 2 * capacity_
  BY FastQueueAssumption
<1>2. Wrap \in Nat \ {0}
  BY <1>1, CapacityPositive
<1> QED BY <1>1, <1>2, FastQueueAssumption, CapacityPositive

(* The ring is smaller than the range of the cursors.                       *)
LEMMA CapacityBelowWrap == capacity_ \in Nat \ {0} /\ Wrap \in Nat /\ capacity_ < Wrap
  BY ConstantFacts

(* SizeOf adds up the bytes of a header, each with its weight.              *)
LEMMA SizeOfSums ==
  ASSUME NEW bytes, HasHeader(bytes)
  PROVE  \E f \in [0 .. kHeader -> Nat] :
           /\ f[0] = 0
           /\ \A i \in 1 .. kHeader : f[i] = f[i - 1] + bytes[i] * Weight[i - 1]
           /\ SizeOf(bytes) = f[kHeader]
<1> DEFINE n == kHeader
           step == [k \in 1 .. n |-> [p \in Nat |-> p + bytes[k] * Weight[k - 1]]]
<1>1. n \in Nat
  BY ConstantFacts
<1>2. \A k \in 1 .. n : bytes[k] * Weight[k - 1] \in Nat
  <2> TAKE k \in 1 .. n
  <2>1. bytes[k] \in Nat
    BY ConstantFacts DEF HasHeader, Byte
  <2>2. k - 1 \in 0 .. n
    BY <1>1
  <2>3. Weight[k - 1] \in Nat
    BY <2>2, WeightFacts
  <2> QED BY <2>1, <2>3
<1>3. step \in [1 .. n -> [Nat -> Nat]]
  BY <1>2
<1>4. PICK f \in [0 .. n -> Nat] : f[0] = 0 /\ \A k \in 1 .. n : f[k] = step[k][f[k - 1]]
  <2> DEFINE S == Nat
             z == 0
  <2>1. z \in S /\ step \in [1 .. n -> [S -> S]] /\ n \in Nat
    BY <1>1, <1>3
  <2> HIDE DEF step, n, S, z
  <2>2. \E f \in [0 .. n -> S] : f[0] = z /\ \A k \in 1 .. n : f[k] = step[k][f[k - 1]]
    BY <2>1, RecursionExists
  <2> QED BY <2>2 DEF S, z
<1>5. \A k \in 1 .. n : f[k] = f[k - 1] + bytes[k] * Weight[k - 1]
  <2> TAKE k \in 1 .. n
  <2>1. k - 1 \in 0 .. n
    BY <1>1
  <2>2. f[k - 1] \in Nat
    BY <2>1
  <2> QED BY <1>4, <2>2
<1>6. IsValue(f, bytes)
  <2>1. f = [k \in 0 .. n |-> f[k]]
    OBVIOUS
  <2>2. \A k \in 0 .. n : f[k] = IF k = 0 THEN 0 ELSE f[k - 1] + bytes[k] * Weight[k - 1]
    BY <1>1, <1>4, <1>5
  <2> QED BY <2>1, <2>2 DEF IsValue
<1>7. PICK g : IsValue(g, bytes) /\ SizeOf(bytes) = g[kHeader]
  <2>1. \E h : IsValue(h, bytes)
    BY <1>6
  <2> QED BY <2>1, Zenon DEF IsValue, SizeOf
<1> HIDE DEF n
<1>8. g[0] = 0 /\ \A k \in 1 .. n : g[k] = g[k - 1] + bytes[k] * Weight[k - 1]
  BY <1>1, <1>7 DEF IsValue, n
<1> DEFINE T == {k \in 0 .. n : g[k] \in Nat}
<1>9. 0 .. n \subseteq T
  <2>1. 0 \in T
    BY <1>1, <1>8
  <2>2. ASSUME NEW k \in 0 .. n, k \in T, k + 1 <= n PROVE k + 1 \in T
    <3>1. k + 1 \in 1 .. n /\ k + 1 \in 0 .. n /\ (k + 1) - 1 = k
      BY <1>1, <2>2
    <3>2. g[k] \in Nat
      BY <2>2
    <3>3. g[k + 1] = g[k] + bytes[k + 1] * Weight[k]
      BY <1>8, <3>1
    <3>4. bytes[k + 1] * Weight[k] \in Nat
      BY <1>2, <3>1
    <3> QED BY <3>1, <3>2, <3>3, <3>4
  <2> HIDE DEF T
  <2> QED BY <1>1, <2>1, <2>2, IntervalInduction
<1>10. g \in [0 .. n -> Nat]
  <2>1. g = [k \in 0 .. n |-> IF k = 0 THEN 0 ELSE g[k - 1] + bytes[k] * Weight[k - 1]]
    BY <1>7 DEF IsValue, n
  <2>2. \A k \in 0 .. n : g[k] \in Nat
    BY <1>9
  <2> QED BY <2>1, <2>2
<1> QED BY <1>7, <1>8, <1>10 DEF n

(* The length of a header is a number.                                      *)
LEMMA SizeOfType ==
  ASSUME NEW bytes, HasHeader(bytes)
  PROVE  SizeOf(bytes) \in Nat
<1>1. PICK f \in [0 .. kHeader -> Nat] : SizeOf(bytes) = f[kHeader]
  BY SizeOfSums
<1>2. kHeader \in 0 .. kHeader
  BY ConstantFacts
<1> QED BY <1>1, <1>2

(* The length of a payload is not truncated.                                *)
LEMMA SizeIsLen ==
  ASSUME NEW m \in Messages
  PROVE  Len(m) \in Nat /\ size(m) = Len(m)
<1>1. Len(m) \in Nat /\ Len(m) < Weight[kHeader]
  BY ConstantFacts, FastQueueAssumption
<1>2. kHeader \in 0 .. kHeader
  BY ConstantFacts
<1>3. Weight[kHeader] \in Nat \ {0}
  BY <1>2, WeightFacts
<1> DEFINE n == Len(m)
           w == Weight[kHeader]
<1>4. n \in Nat /\ w \in Nat \ {0} /\ n < w
  BY <1>1, <1>3
<1> HIDE DEF n, w
<1>5. n % w = n
  <2>1. (w * 0 + n) % w = n
    BY <1>4, ModUnique
  <2> QED BY <1>4, <2>1
<1> QED BY <1>1, <1>5 DEF size, n, w

(* A frame: the digits of the length, lowest first, and the payload.        *)
LEMMA FrameFacts ==
  ASSUME NEW m \in Messages
  PROVE  /\ Frame(m) \in Seq(Byte)
         /\ Len(Frame(m)) = kHeader + Len(m)
         /\ need(m) = Len(Frame(m))
         /\ \A i \in 1 .. kHeader : Frame(m)[i] = (Len(m) \div Weight[i - 1]) % Base
         /\ \A j \in 1 .. Len(m) : Frame(m)[kHeader + j] = m[j]
<1>1. Len(m) \in Nat /\ size(m) = Len(m) /\ m \in Seq(Byte) /\ kHeader \in Nat
  BY SizeIsLen, ConstantFacts
<1> DEFINE h == [i \in 1 .. kHeader |-> (size(m) \div Weight[i - 1]) % Base]
<1>2. \A i \in 1 .. kHeader : (size(m) \div Weight[i - 1]) % Base \in Byte
  <2> TAKE i \in 1 .. kHeader
  <2>1. i - 1 \in 0 .. kHeader
    BY <1>1
  <2>2. Weight[i - 1] \in Nat \ {0}
    BY <2>1, WeightFacts
  <2>3. size(m) \div Weight[i - 1] \in Nat
    BY <1>1, <2>2, ModSplit
  <2>4. Base \in Nat \ {0}
    BY ConstantFacts
  <2> HIDE DEF h
  <2>5. (size(m) \div Weight[i - 1]) % Base \in 0 .. Base - 1
    BY <2>3, <2>4, ModSplit
  <2> QED BY <2>5 DEF Byte
<1>3. h \in Seq(Byte) /\ Len(h) = kHeader
  BY <1>1, <1>2
<1>4. \A i \in 1 .. kHeader : h[i] = (Len(m) \div Weight[i - 1]) % Base
  BY <1>1
<1>5. Frame(m) = h \o m
  BY DEF Frame
<1> HIDE DEF h
<1>6. need(m) = kHeader + Len(m)
  BY <1>1 DEF need
<1>7. Frame(m) \in Seq(Byte) /\ Len(Frame(m)) = kHeader + Len(m)
  <2>1. ASSUME NEW S, NEW a \in Seq(S), NEW b \in Seq(S)
        PROVE  a \o b \in Seq(S) /\ Len(a \o b) = Len(a) + Len(b)
    OBVIOUS
  <2>2. h \o m \in Seq(Byte) /\ Len(h \o m) = Len(h) + Len(m)
    BY <1>1, <1>3, <2>1
  <2> QED BY <1>3, <1>5, <2>2
<1>8. \A i \in 1 .. kHeader : Frame(m)[i] = h[i]
  BY <1>1, <1>3, <1>5
<1>9. \A j \in 1 .. Len(m) : Frame(m)[kHeader + j] = m[j]
  <2> TAKE j \in 1 .. Len(m)
  <2>1. kHeader + j \in Len(h) + 1 .. Len(h) + Len(m) /\ (kHeader + j) - Len(h) = j
    BY <1>1, <1>3
  <2> QED BY <1>1, <1>3, <1>5, <2>1
<1> QED BY <1>4, <1>6, <1>7, <1>8, <1>9

(* The length survives the header: bytes that agree with the header of a    *)
(* frame spell the length of its payload.                                   *)
LEMMA HeaderDecodes ==
  ASSUME NEW m \in Messages, NEW bytes, \A i \in 1 .. kHeader : bytes[i] = Frame(m)[i]
  PROVE  HasHeader(bytes) /\ SizeOf(bytes) = Len(m)
<1> DEFINE n == kHeader
           a == Len(m)
<1>1. n \in Nat /\ a \in Nat /\ Base \in Nat \ {0}
  BY ConstantFacts, SizeIsLen
<1>2. HasHeader(bytes)
  <2> SUFFICES ASSUME NEW i \in 1 .. kHeader PROVE bytes[i] \in Byte
    BY DEF HasHeader
  <2>1. i \in 1 .. Len(Frame(m)) /\ Frame(m) \in Seq(Byte)
    BY FrameFacts, <1>1
  <2>2. Frame(m)[i] \in Byte
    BY <2>1
  <2> QED BY <2>2
<1>3. PICK f \in [0 .. n -> Nat] :
        /\ f[0] = 0
        /\ \A i \in 1 .. n : f[i] = f[i - 1] + bytes[i] * Weight[i - 1]
        /\ SizeOf(bytes) = f[n]
  BY <1>2, SizeOfSums
<1>4. \A i \in 1 .. n : bytes[i] = (a \div Weight[i - 1]) % Base
  BY FrameFacts
<1> HIDE DEF n, a
<1> DEFINE T == {i \in 0 .. n : f[i] = a % Weight[i]}
<1>5. 0 .. n \subseteq T
  <2>1. 0 \in T
    <3>1. Weight[0] = 1
      BY WeightFacts
    <3>2. a % 1 = 0
      BY <1>1
    <3> QED BY <1>1, <1>3, <3>1, <3>2
  <2>2. ASSUME NEW k \in 0 .. n, k \in T, k + 1 <= n PROVE k + 1 \in T
    <3>1. k + 1 \in 1 .. n /\ k + 1 \in 0 .. n /\ (k + 1) - 1 = k
      BY <1>1, <2>2
    <3>2. f[k] = a % Weight[k]
      BY <2>2
    <3>3. f[k + 1] = f[k] + bytes[k + 1] * Weight[k]
      BY <1>3, <3>1
    <3>4. bytes[k + 1] = (a \div Weight[k]) % Base
      BY <1>4, <3>1
    <3>5. Weight[k + 1] = Base * Weight[k] /\ Weight[k] \in Nat \ {0}
      BY <3>1, WeightFacts DEF n
    <3>6. a % (Base * Weight[k]) = (a % Weight[k]) + ((a \div Weight[k]) % Base) * Weight[k]
      BY <1>1, <3>5, ModDigit
    <3>7. f[k + 1] = a % Weight[k + 1]
      BY <3>2, <3>3, <3>4, <3>5, <3>6
    <3> QED BY <3>1, <3>7
  <2> HIDE DEF T
  <2> QED BY <1>1, <2>1, <2>2, IntervalInduction
<1>6. f[n] = a % Weight[n]
  <2>1. n \in 0 .. n
    BY <1>1
  <2> QED BY <1>5, <2>1
<1>7. a % Weight[n] = a
  BY SizeIsLen DEF size, a, n
<1> QED BY <1>2, <1>3, <1>6, <1>7 DEF a

-----------------------------------------------------------------------------
(* Cursors                                                                  *)

(* A cursor moves k bytes on.                                               *)
LEMMA PlusType ==
  ASSUME NEW p \in Cursor, NEW k \in Nat
  PROVE  Plus(p, k) \in Cursor
<1>1. p + k \in Nat /\ Wrap \in Nat \ {0}
  BY ConstantFacts DEF Cursor
<1>2. (p + k) % Wrap \in 0 .. Wrap - 1
  BY <1>1, ModSplit
<1> QED BY <1>2 DEF Plus, Cursor

(* The distance of two cursors is below Wrap.                               *)
LEMMA MinusType ==
  ASSUME NEW p \in Cursor, NEW q \in Cursor
  PROVE  Minus(p, q) \in 0 .. Wrap - 1
  BY ConstantFacts DEF Minus, Cursor

(* A cursor that moves on gets further from any origin until it laps it.    *)
LEMMA PlusMoves ==
  ASSUME NEW p \in Cursor, NEW q \in Cursor, NEW k \in Nat, Minus(p, q) + k < Wrap
  PROVE  Minus(Plus(p, k), q) = Minus(p, q) + k
  BY ConstantFacts DEF Plus, Minus, Cursor

(* Distances add up along the ring.                                         *)
LEMMA MinusSplits ==
  ASSUME NEW p \in Cursor, NEW q \in Cursor, NEW r \in Cursor, Minus(q, p) <= Minus(r, p)
  PROVE  Minus(r, p) = Minus(q, p) + Minus(r, q)
  BY ConstantFacts DEF Minus, Cursor

(* The same from the parts, when they do not lap the ring.                  *)
LEMMA MinusJoins ==
  ASSUME NEW p \in Cursor, NEW q \in Cursor, NEW r \in Cursor,
         Minus(q, p) + Minus(r, q) < Wrap
  PROVE  Minus(r, p) = Minus(q, p) + Minus(r, q)
  BY ConstantFacts DEF Minus, Cursor

(* Two cursors are equal exactly when their distance is 0.                  *)
LEMMA MinusZero == \A p, q \in Cursor : Minus(p, q) = 0 <=> p = q
  BY ConstantFacts DEF Minus, Cursor

(* Moving nowhere.                                                          *)
LEMMA PlusZero == \A p \in Cursor : Plus(p, 0) = p
  BY ConstantFacts DEF Plus, Cursor

(* Moving to another cursor.                                                *)
LEMMA PlusMinus ==
  ASSUME NEW p \in Cursor, NEW q \in Cursor
  PROVE  Plus(q, Minus(p, q)) = p
  BY ConstantFacts DEF Plus, Minus, Cursor

(* Moving twice is moving by the sum.                                       *)
LEMMA PlusPlus ==
  ASSUME NEW p \in Cursor, NEW j \in Nat, NEW k \in Nat, j + k < Wrap
  PROVE  Plus(Plus(p, j), k) = Plus(p, j + k)
  BY ConstantFacts DEF Plus, Cursor

(* The byte of the ring k bytes after a cursor: capacity_ divides Wrap.     *)
LEMMA OffsetPlus ==
  ASSUME NEW p \in Cursor, NEW k \in Nat
  PROVE  offset(Plus(p, k)) = (p + k) % capacity_ /\ offset(Plus(p, k)) \in 0 .. capacity_ - 1
<1>1. /\ p + k \in Nat /\ Wrap \in Nat \ {0} /\ capacity_ \in Nat \ {0}
      /\ Wrap % capacity_ = 0
  BY ConstantFacts DEF Cursor
<1>2. ((p + k) % Wrap) % capacity_ = (p + k) % capacity_
  BY <1>1, ModMod
<1>3. (p + k) % capacity_ \in 0 .. capacity_ - 1
  BY <1>1, ModSplit
<1> QED BY <1>2, <1>3 DEF offset, Plus

(* capacity_ consecutive positions are different bytes of the ring.         *)
LEMMA OffsetInjective ==
  ASSUME NEW p \in Cursor, NEW j \in 0 .. capacity_ - 1, NEW k \in 0 .. capacity_ - 1,
         offset(Plus(p, j)) = offset(Plus(p, k))
  PROVE  j = k
<1>1. /\ p \in Nat /\ j \in Nat /\ k \in Nat /\ capacity_ \in Nat \ {0}
      /\ p + j \in Nat /\ p + k \in Nat
  BY ConstantFacts DEF Cursor
<1>2. (p + j) % capacity_ = (p + k) % capacity_
  BY <1>1, OffsetPlus
<1>3. CASE j <= k
  <2>1. p + j <= p + k /\ (p + k) - (p + j) < capacity_
    BY <1>1, <1>3
  <2>2. p + j = p + k
    BY <1>1, <1>2, <2>1, ModClose
  <2> QED BY <1>1, <2>2
<1>4. CASE k <= j
  <2>1. p + k <= p + j /\ (p + j) - (p + k) < capacity_
    BY <1>1, <1>4
  <2>2. p + k = p + j
    BY <1>1, <1>2, <2>1, ModClose
  <2> QED BY <1>1, <2>2
<1> QED BY <1>1, <1>3, <1>4

-----------------------------------------------------------------------------
(* Atomics                                                                  *)

(* The stores of an atomic: loading drops a prefix, storing appends.        *)
LEMMA LatestType ==
  ASSUME NEW a \in Seq(Cursor), a # <<>>
  PROVE  Len(a) \in Nat \ {0} /\ Latest(a) = a[Len(a)] /\ Latest(a) \in Cursor
<1>1. Len(a) \in Nat \ {0}
  OBVIOUS
<1>2. a[Len(a)] \in Cursor
  BY <1>1
<1> QED BY <1>1, <1>2 DEF Latest, Last

(* A load drops the values before the one it returns, and no others.        *)
LEMMA LoadedFacts ==
  ASSUME NEW a \in Seq(Cursor), NEW i \in DOMAIN a
  PROVE  /\ Loaded(a, i) \in Seq(Cursor) /\ Loaded(a, i) # <<>>
         /\ i \in 1 .. Len(a) /\ a[i] \in Cursor
         /\ Len(Loaded(a, i)) = Len(a) - i + 1
         /\ \A j \in 1 .. Len(Loaded(a, i)) : i + j - 1 \in 1 .. Len(a)
                                              /\ Loaded(a, i)[j] = a[i + j - 1]
         /\ Latest(Loaded(a, i)) = Latest(a)
         /\ Loaded(a, i)[1] = a[i]
<1> DEFINE n == Len(a)
           b == SubSeq(a, i, n)
<1>1. n \in Nat /\ i \in 1 .. n /\ a[i] \in Cursor
  OBVIOUS
<1>2. b \in Seq(Cursor) /\ Len(b) = n - i + 1 /\ b # <<>>
  <2>1. b \in Seq(Cursor)
    BY <1>1
  <2>2. Len(b) = n - i + 1
    BY <1>1
  <2> HIDE DEF b, n
  <2>3. Len(b) # 0
    BY <1>1, <2>2
  <2>4. b # <<>>
    BY <2>3
  <2> QED BY <2>1, <2>2, <2>4
<1>3. \A j \in 1 .. n - i + 1 : i + j - 1 \in 1 .. n /\ b[j] = a[i + j - 1]
  <2> TAKE j \in 1 .. n - i + 1
  <2>1. i + j - 1 \in 1 .. n
    BY <1>1
  <2> QED BY <1>1, <2>1
<1>4. b[Len(b)] = a[n] /\ b[1] = a[i]
  <2>1. n - i + 1 \in 1 .. n - i + 1 /\ 1 \in 1 .. n - i + 1
    BY <1>1
  <2>2. i + (n - i + 1) - 1 = n /\ i + 1 - 1 = i
    BY <1>1
  <2> HIDE DEF b
  <2> QED BY <1>2, <1>3, <2>1, <2>2
<1>5. b = Loaded(a, i) /\ a # <<>>
  BY <1>1 DEF Loaded
<1> HIDE DEF b
<1>6. Latest(b) = b[Len(b)] /\ Latest(a) = a[n]
  BY <1>2, <1>5, LatestType
<1> QED BY <1>1, <1>2, <1>3, <1>4, <1>5, <1>6

(* A store adds the value that is then the latest.                          *)
LEMMA StoredFacts ==
  ASSUME NEW a \in Seq(Cursor), NEW v \in Cursor
  PROVE  /\ Append(a, v) \in Seq(Cursor) /\ Append(a, v) # <<>>
         /\ Len(Append(a, v)) = Len(a) + 1 /\ Len(a) \in Nat
         /\ \A j \in 1 .. Len(a) : Append(a, v)[j] = a[j]
         /\ Append(a, v)[Len(a) + 1] = v
         /\ Latest(Append(a, v)) = v
<1> DEFINE b == Append(a, v)
<1>1. /\ b \in Seq(Cursor) /\ b # <<>> /\ Len(b) = Len(a) + 1 /\ Len(a) \in Nat
      /\ \A j \in 1 .. Len(a) : b[j] = a[j]
      /\ b[Len(a) + 1] = v
  OBVIOUS
<1> HIDE DEF b
<1>2. Latest(b) = b[Len(b)]
  BY <1>1, LatestType
<1> QED BY <1>1, <1>2 DEF b

-----------------------------------------------------------------------------
(* The invariant                                                            *)

(* The frame of m lies in the ring from k bytes after a cursor on.          *)
Stored(ring, from, k, m) ==
  \A i \in 1 .. Len(Frame(m)) : ring[offset(Plus(from, k + i - 1))] = Frame(m)[i]

(* It does, and the frame takes the ring from one boundary to the next.     *)
FrameAt(ring, from, B, k, m) ==
  /\ Stored(ring, from, k, m)
  /\ k + Len(Frame(m)) \in B
  /\ \A l \in B : l > k => l >= k + Len(Frame(m))

(* The u bytes after a cursor are whole frames; B holds their boundaries.   *)
Framed(ring, from, u, B) ==
  /\ B \subseteq 0 .. u /\ 0 \in B /\ u \in B
  /\ \A k \in B : k # u => \E m \in Messages : FrameAt(ring, from, B, k, m)

(* What the consumer can still load ends at a boundary, later ones further. *)
Published(write, from, B) ==
  \A i, j \in 1 .. Len(write) :
    /\ Minus(write[i], from) \in B
    /\ i <= j => Minus(write[i], from) <= Minus(write[j], from)

(* The consumer copies the first frame; what it has are its first bytes.    *)
Copying(ring, from, B, c, first) ==
  c.pc = "copy" =>
    /\ c.write = first /\ c.write # from
    /\ \E m \in Messages :
         /\ FrameAt(ring, from, B, 0, m)
         /\ Len(c.bytes) <= Len(Frame(m))
         /\ \A i \in 1 .. Len(c.bytes) : c.bytes[i] = Frame(m)[i]

(* Seen from any value of the read cursor that the producer can still load, *)
(* the ring is not over full, from later ones less so.                      *)
Freed(read, to) ==
  \A i, j \in 1 .. Len(read) :
    /\ Minus(to, read[i]) <= capacity_
    /\ i <= j => Minus(to, read[j]) <= Minus(to, read[i])

(* The producer has room for the whole frame, and has written some of it.   *)
Writing(ring, to, p, first) ==
  p.pc = "copy" =>
    /\ Minus(to, first) + Len(Frame(p.data)) <= capacity_
    /\ \A i \in 1 .. p.done : ring[offset(Plus(to, i - 1))] = Frame(p.data)[i]

(* The boundaries explain what both threads see.                            *)
Layout(B) ==
  /\ Framed(buffer_, Latest(read_), Used, B)
  /\ Published(write_, Latest(read_), B)
  /\ Copying(buffer_, Latest(read_), B, consumer, write_[1])

(* The inductive invariant.                                                 *)
Inv ==
  /\ TypeOK
  /\ Freed(read_, Latest(write_))
  /\ Writing(buffer_, Latest(write_), producer, read_[1])
  /\ \E B \in SUBSET (0 .. Used) : Layout(B)

-----------------------------------------------------------------------------
(* What the invariant says of the cursors and of the room in the ring       *)

(* A frame is at least a header long.                                       *)
LEMMA FrameLen ==
  ASSUME NEW m \in Messages
  PROVE  /\ Frame(m) \in Seq(Byte) /\ Len(m) \in Nat
         /\ Len(Frame(m)) = kHeader + Len(m) /\ need(m) = Len(Frame(m))
         /\ Len(Frame(m)) \in Nat /\ Len(Frame(m)) > 0
<1>1. /\ Frame(m) \in Seq(Byte) /\ Len(Frame(m)) = kHeader + Len(m)
      /\ need(m) = Len(Frame(m)) /\ Len(m) \in Nat /\ kHeader \in Nat \ {0}
  BY FrameFacts, SizeIsLen, ConstantFacts
<1> DEFINE l == Len(m)
           f == Len(Frame(m))
<1>2. f = kHeader + l /\ l \in Nat
  BY <1>1
<1> HIDE DEF l, f
<1>3. f \in Nat /\ f > 0
  BY <1>1, <1>2
<1> QED BY <1>1, <1>3 DEF f

(* Both cursors are the last of their stores.                               *)
LEMMA CursorsOK ==
  ASSUME TypeOK
  PROVE  /\ Latest(read_) \in Cursor /\ Latest(write_) \in Cursor
         /\ Used \in 0 .. Wrap - 1 /\ Used \in Nat
         /\ Len(read_) \in Nat \ {0} /\ Len(write_) \in Nat \ {0}
         /\ \A i \in 1 .. Len(read_) : read_[i] \in Cursor
         /\ \A i \in 1 .. Len(write_) : write_[i] \in Cursor
         /\ Latest(read_) = read_[Len(read_)] /\ Latest(write_) = write_[Len(write_)]
<1>1. read_ \in Seq(Cursor) /\ read_ # <<>> /\ write_ \in Seq(Cursor) /\ write_ # <<>>
  BY DEF TypeOK
<1>2. /\ Latest(read_) \in Cursor /\ Latest(write_) \in Cursor
      /\ Len(read_) \in Nat \ {0} /\ Len(write_) \in Nat \ {0}
      /\ Latest(read_) = read_[Len(read_)] /\ Latest(write_) = write_[Len(write_)]
  BY <1>1, LatestType
<1>3. Used \in 0 .. Wrap - 1
  BY <1>2, MinusType DEF Used
<1>4. Used \in Nat
  BY <1>3
<1> QED BY <1>1, <1>2, <1>3, <1>4

(* The bytes in use, and the frame being written, fit in the ring.          *)
LEMMA Room ==
  ASSUME TypeOK, Freed(read_, Latest(write_))
  PROVE  /\ Used <= capacity_ /\ Minus(Latest(write_), read_[1]) \in Nat
         /\ Used <= Minus(Latest(write_), read_[1])
         /\ Minus(Latest(write_), read_[1]) <= capacity_
<1>1. /\ Len(read_) \in Nat \ {0} /\ Latest(write_) \in Cursor
      /\ Latest(read_) = read_[Len(read_)]
      /\ \A i \in 1 .. Len(read_) : read_[i] \in Cursor
  BY CursorsOK
<1> DEFINE n == Len(read_)
<1>2. n \in 1 .. n /\ 1 \in 1 .. n /\ 1 <= n
  BY <1>1
<1>3. Minus(Latest(write_), read_[1]) \in 0 .. Wrap - 1
  BY <1>1, <1>2, MinusType
<1>4. Minus(Latest(write_), read_[1]) \in Nat
  BY <1>3
<1>5. Used = Minus(Latest(write_), read_[n])
  BY <1>1 DEF Used
<1> QED BY <1>2, <1>4, <1>5 DEF Freed

(* The frames only depend on the bytes in use.                              *)
LEMMA FramedBytes ==
  ASSUME NEW ring, NEW other, NEW from, NEW u \in Nat, NEW B,
         Framed(ring, from, u, B),
         \A k \in 0 .. u - 1 : other[offset(Plus(from, k))] = ring[offset(Plus(from, k))]
  PROVE  /\ Framed(other, from, u, B)
         /\ \A m \in Messages : \A k \in B :
              FrameAt(ring, from, B, k, m) => FrameAt(other, from, B, k, m)
<1>1. B \subseteq 0 .. u
  BY DEF Framed
<1>2. ASSUME NEW m \in Messages, NEW k \in B, FrameAt(ring, from, B, k, m)
      PROVE  FrameAt(other, from, B, k, m)
  <2>1. k + Len(Frame(m)) \in 0 .. u /\ k \in Nat /\ Len(Frame(m)) \in Nat
    BY <1>1, <1>2, FrameLen DEF FrameAt
  <2>2. ASSUME NEW i \in 1 .. Len(Frame(m))
        PROVE  other[offset(Plus(from, k + i - 1))] = Frame(m)[i]
    <3>1. k + i - 1 \in 0 .. u - 1
      BY <2>1
    <3>2. ring[offset(Plus(from, k + i - 1))] = Frame(m)[i]
      BY <1>2 DEF FrameAt, Stored
    <3> QED BY <3>1, <3>2
  <2> QED BY <1>2, <2>2 DEF FrameAt, Stored
<1> QED BY <1>2 DEF Framed

-----------------------------------------------------------------------------
(* Every step preserves the invariant                                       *)

(* An empty ring.                                                           *)
LEMMA InitInv == Init => Inv
<1> SUFFICES ASSUME Init PROVE Inv
  OBVIOUS
<1>1. 0 \in Cursor /\ 0 \in Byte /\ capacity_ \in Nat \ {0}
  BY ConstantFacts DEF Cursor, Byte
<1>2. read_ = <<0>> /\ write_ = <<0>> /\ producer = Idle /\ consumer = Idle
  BY DEF Init
<1>3. TypeOK
  <2>1. buffer_ \in [0 .. capacity_ - 1 -> Byte]
    BY <1>1 DEF Init
  <2>2. <<0>> \in Seq(Cursor) /\ <<0>> # <<>>
    BY <1>1
  <2> QED BY <1>2, <2>1, <2>2 DEF TypeOK, Init
<1>4. Latest(read_) = 0 /\ Latest(write_) = 0 /\ Len(read_) = 1 /\ Len(write_) = 1
      /\ read_[1] = 0 /\ write_[1] = 0
  BY <1>2 DEF Latest, Last
<1>5. Minus(0, 0) = 0
  BY <1>1, MinusZero
<1>6. Used = 0
  BY <1>4, <1>5 DEF Used
<1>7. Freed(read_, Latest(write_))
  BY <1>1, <1>4, <1>5 DEF Freed
<1>8. Writing(buffer_, Latest(write_), producer, read_[1])
  BY <1>2 DEF Writing, Idle
<1>9. Layout({0})
  <2>1. Framed(buffer_, Latest(read_), Used, {0})
    BY <1>6 DEF Framed
  <2>2. Published(write_, Latest(read_), {0})
    BY <1>4, <1>5 DEF Published
  <2>3. Copying(buffer_, Latest(read_), {0}, consumer, write_[1])
    BY <1>2 DEF Copying, Idle
  <2> QED BY <2>1, <2>2, <2>3 DEF Layout
<1>10. {0} \in SUBSET (0 .. Used)
  BY <1>6
<1> QED BY <1>3, <1>7, <1>8, <1>9, <1>10 DEF Inv

(* try_push loads a read cursor that may be old: it sees less room than     *)
(* there is, never more.                                                    *)
LEMMA PushInv ==
  ASSUME Inv, NEW data \in Messages, Push(data)
  PROVE  Inv'
<1>0. TypeOK /\ Freed(read_, Latest(write_)) /\ read_ \in Seq(Cursor)
  BY DEF Inv, TypeOK
<1>1. PICK i \in DOMAIN read_ :
        /\ read_' = Loaded(read_, i)
        /\ producer' = IF capacity_ - Minus(Latest(write_), read_[i]) < need(data)
                         THEN Idle ELSE [pc |-> "copy", data |-> data, done |-> 0]
  BY DEF Push
<1>2. UNCHANGED <<buffer_, write_, consumer, out>>
  BY DEF Push
<1>3. /\ read_' \in Seq(Cursor) /\ read_' # <<>>
      /\ i \in 1 .. Len(read_) /\ Latest(read_') = Latest(read_) /\ read_'[1] = read_[i]
      /\ Len(read_') = Len(read_) - i + 1
      /\ \A j \in 1 .. Len(read_') : i + j - 1 \in 1 .. Len(read_)
                                     /\ read_'[j] = read_[i + j - 1]
  BY <1>0, <1>1, LoadedFacts
<1>4. /\ Latest(write_) \in Cursor /\ read_[i] \in Cursor
      /\ Frame(data) \in Seq(Byte) /\ Len(Frame(data)) \in Nat /\ need(data) = Len(Frame(data))
      /\ capacity_ \in Nat
  BY <1>0, <1>3, CursorsOK, FrameLen, ConstantFacts
<1>5. TypeOK'
  <2>1. \/ producer' = Idle
        \/ /\ producer' \in [pc : {"copy"}, data : Messages, done : Nat]
           /\ producer'.done <= Len(Frame(producer'.data))
    BY <1>1, <1>4
  <2> QED BY <1>0, <1>2, <1>3, <2>1 DEF TypeOK
<1>6. Freed(read_', Latest(write_'))
  <2> SUFFICES ASSUME NEW j \in 1 .. Len(read_'), NEW k \in 1 .. Len(read_')
               PROVE  /\ Minus(Latest(write_), read_'[j]) <= capacity_
                      /\ j <= k => Minus(Latest(write_), read_'[k]) <= Minus(Latest(write_), read_'[j])
    BY <1>2 DEF Freed
  <2>1. /\ i + j - 1 \in 1 .. Len(read_) /\ read_'[j] = read_[i + j - 1]
        /\ i + k - 1 \in 1 .. Len(read_) /\ read_'[k] = read_[i + k - 1]
    BY <1>3
  <2>2. j <= k => i + j - 1 <= i + k - 1
    BY <1>3, CursorsOK, <1>0
  <2> QED BY <1>0, <2>1, <2>2 DEF Freed
<1>7. Writing(buffer_', Latest(write_'), producer', read_'[1])
  <2> SUFFICES ASSUME producer'.pc = "copy"
               PROVE  /\ Minus(Latest(write_), read_[i]) + Len(Frame(producer'.data)) <= capacity_
                      /\ producer'.done = 0
    BY <1>2, <1>3 DEF Writing
  <2>1. /\ producer' = [pc |-> "copy", data |-> data, done |-> 0]
        /\ ~(capacity_ - Minus(Latest(write_), read_[i]) < need(data))
    BY <1>1 DEF Idle
  <2> DEFINE d == Minus(Latest(write_), read_[i])
             f == Len(Frame(data))
  <2>2. d \in 0 .. Wrap - 1 /\ f \in Nat /\ ~(capacity_ - d < f) /\ Wrap \in Nat
    BY <1>4, <2>1, MinusType, ConstantFacts
  <2> HIDE DEF d, f
  <2>3. d + f <= capacity_
    BY <1>4, <2>2
  <2> QED BY <2>1, <2>3 DEF d, f
<1>8. \E B \in SUBSET (0 .. Used') : Layout(B)'
  <2>1. Used' = Used
    BY <1>2, <1>3 DEF Used
  <2>2. PICK B \in SUBSET (0 .. Used) : Layout(B)
    BY DEF Inv
  <2>3. Layout(B)'
    BY <1>2, <1>3, <2>1, <2>2 DEF Layout
  <2> QED BY <2>1, <2>3
<1> QED BY <1>5, <1>6, <1>7, <1>8 DEF Inv

(* try_pop loads a write cursor that may be old: what it sees before it are *)
(* whole frames.                                                            *)
LEMMA PopInv == Inv /\ Pop => Inv'
<1> SUFFICES ASSUME Inv, Pop PROVE Inv'
  OBVIOUS
<1>0. TypeOK /\ Freed(read_, Latest(write_)) /\ write_ \in Seq(Cursor)
  BY DEF Inv, TypeOK
<1>1. PICK i \in DOMAIN write_ :
        /\ write_' = Loaded(write_, i)
        /\ consumer' = IF Latest(read_) = write_[i] THEN Idle
                       ELSE [pc |-> "copy", write |-> write_[i], bytes |-> <<>>]
  BY DEF Pop
<1>2. UNCHANGED <<buffer_, read_, producer, out>>
  BY DEF Pop
<1>3. /\ write_' \in Seq(Cursor) /\ write_' # <<>>
      /\ i \in 1 .. Len(write_) /\ Latest(write_') = Latest(write_) /\ write_'[1] = write_[i]
      /\ \A j \in 1 .. Len(write_') : i + j - 1 \in 1 .. Len(write_)
                                      /\ write_'[j] = write_[i + j - 1]
      /\ Len(write_') = Len(write_) - i + 1
  BY <1>0, <1>1, LoadedFacts
<1>4. /\ Latest(read_) \in Cursor /\ write_[i] \in Cursor /\ Len(write_) \in Nat
      /\ Latest(write_) = write_[Len(write_)]
  BY <1>0, <1>3, CursorsOK
<1>5. TypeOK'
  <2>1. \/ consumer' = Idle
        \/ consumer' \in [pc : {"copy"}, write : Cursor, bytes : Seq(Byte)]
    BY <1>1, <1>4
  <2> QED BY <1>0, <1>2, <1>3, <2>1 DEF TypeOK
<1>6. Freed(read_', Latest(write_')) /\ Writing(buffer_', Latest(write_'), producer', read_'[1])
  BY <1>2, <1>3 DEF Inv
<1>7. Used' = Used
  BY <1>2, <1>3 DEF Used
<1>8. PICK B \in SUBSET (0 .. Used) : Layout(B)
  BY DEF Inv
<1>9. Layout(B)'
  <2>1. Framed(buffer_, Latest(read_), Used, B)' 
    BY <1>2, <1>7, <1>8 DEF Layout
  <2>2. Published(write_, Latest(read_), B)'
    <3> SUFFICES ASSUME NEW j \in 1 .. Len(write_'), NEW k \in 1 .. Len(write_')
                 PROVE  /\ Minus(write_'[j], Latest(read_)) \in B
                        /\ j <= k => Minus(write_'[j], Latest(read_)) <= Minus(write_'[k], Latest(read_))
      BY <1>2 DEF Published
    <3>1. /\ i + j - 1 \in 1 .. Len(write_) /\ write_'[j] = write_[i + j - 1]
          /\ i + k - 1 \in 1 .. Len(write_) /\ write_'[k] = write_[i + k - 1]
      BY <1>3
    <3>2. j <= k => i + j - 1 <= i + k - 1
      BY <1>3, <1>4
    <3> QED BY <1>8, <3>1, <3>2 DEF Layout, Published
  <2>3. Copying(buffer_, Latest(read_), B, consumer, write_[1])'
    <3> SUFFICES ASSUME consumer'.pc = "copy"
                 PROVE  Copying(buffer_, Latest(read_), B, consumer', write_[i])
      BY <1>2, <1>3 DEF Copying
    <3>1. /\ consumer' = [pc |-> "copy", write |-> write_[i], bytes |-> <<>>]
          /\ write_[i] # Latest(read_)
      BY <1>1 DEF Idle
    <3>2. /\ Minus(write_[i], Latest(read_)) # 0
          /\ Minus(write_[i], Latest(read_)) \in Nat
      BY <1>4, <3>1, MinusZero, MinusType
    <3>3. Minus(write_[i], Latest(read_)) <= Used
      <4>1. Len(write_) \in 1 .. Len(write_) /\ i <= Len(write_)
        BY <1>3, <1>4
      <4> QED BY <1>3, <1>4, <1>8, <4>1 DEF Layout, Published, Used
    <3>4. 0 # Used
      BY <1>0, <3>2, <3>3, CursorsOK
    <3>5. PICK m \in Messages : FrameAt(buffer_, Latest(read_), B, 0, m)
      BY <1>8, <3>4 DEF Layout, Framed
    <3>6. Len(consumer'.bytes) = 0 /\ consumer'.write = write_[i]
      BY <3>1
    <3>7. Len(consumer'.bytes) <= Len(Frame(m))
      BY <3>6, FrameLen
    <3> QED BY <3>1, <3>5, <3>6, <3>7 DEF Copying
  <2> QED BY <2>1, <2>2, <2>3 DEF Layout
<1> QED BY <1>5, <1>6, <1>7, <1>8, <1>9 DEF Inv

(* A copying producer: what it writes and where it has room for it.         *)
LEMMA ProducerCopies ==
  ASSUME Inv, producer.pc = "copy"
  PROVE  /\ producer \in [pc : {"copy"}, data : Messages, done : Nat]
         /\ producer.data \in Messages /\ producer.done \in Nat
         /\ producer.done <= Len(Frame(producer.data))
         /\ Used + Len(Frame(producer.data)) <= capacity_
         /\ Minus(Latest(write_), read_[1]) + Len(Frame(producer.data)) <= capacity_
<1>1. /\ producer \in [pc : {"copy"}, data : Messages, done : Nat]
      /\ producer.done <= Len(Frame(producer.data))
  BY DEF Inv, TypeOK, Idle
<1>2. producer.data \in Messages /\ producer.done \in Nat
  BY <1>1
<1>3. Minus(Latest(write_), read_[1]) + Len(Frame(producer.data)) <= capacity_
  BY DEF Inv, Writing
<1> DEFINE f == Len(Frame(producer.data))
           d == Minus(Latest(write_), read_[1])
<1>4. Used \in Nat /\ d \in Nat /\ Used <= d /\ f \in Nat /\ capacity_ \in Nat
  BY <1>2, Room, CursorsOK, FrameLen, ConstantFacts DEF Inv
<1>5. d + f <= capacity_
  BY <1>3
<1> HIDE DEF d, f
<1>6. Used + f <= capacity_
  BY <1>4, <1>5
<1> QED BY <1>1, <1>2, <1>3, <1>6 DEF f

(* copy_in writes one byte, behind those in use and those already copied.   *)
LEMMA CopyInOutside ==
  ASSUME Inv, copy_in, NEW k \in 0 .. capacity_ - 1, k # Used + producer.done
  PROVE  buffer_'[offset(Plus(Latest(read_), k))] = buffer_[offset(Plus(Latest(read_), k))]
<1> DEFINE r == Latest(read_)
           w == Latest(write_)
           u == Used
           d == producer.done
           f == Len(Frame(producer.data))
<1>0. TypeOK /\ r \in Cursor /\ w \in Cursor /\ u \in Nat
  BY CursorsOK DEF Inv
<1>1. /\ producer.pc = "copy" /\ d < f
      /\ buffer_' = [buffer_ EXCEPT ![offset(Plus(w, d))] = Frame(producer.data)[d + 1]]
  BY DEF copy_in
<1>2. producer.data \in Messages /\ d \in Nat /\ u + f <= capacity_
  BY <1>1, ProducerCopies
<1>3. f \in Nat /\ capacity_ \in Nat
  BY <1>2, FrameLen, CapacityBelowWrap
<1> HIDE DEF f, d, u
<1>4. Plus(w, d) = Plus(r, u + d)
  <2>1. w = Plus(r, u)
    BY <1>0, PlusMinus DEF Used, u
  <2>2. u + d < Wrap
    BY <1>0, <1>1, <1>2, <1>3, CapacityBelowWrap
  <2> QED BY <1>0, <1>2, <2>1, <2>2, PlusPlus
<1>5. u + d \in 0 .. capacity_ - 1 /\ k # u + d /\ k \in Nat
  BY <1>0, <1>1, <1>2, <1>3 DEF u, d
<1>6. offset(Plus(r, k)) # offset(Plus(w, d))
  BY <1>0, <1>4, <1>5, OffsetInjective
<1>7. offset(Plus(r, k)) \in 0 .. capacity_ - 1
  BY <1>0, <1>5, OffsetPlus
<1> QED BY <1>0, <1>1, <1>6, <1>7 DEF TypeOK

(* copy_in writes behind the bytes in use, and not over what it wrote.      *)
LEMMA CopyInInv == Inv /\ copy_in => Inv'
<1> SUFFICES ASSUME Inv, copy_in PROVE Inv'
  OBVIOUS
<1> DEFINE r == Latest(read_)
           w == Latest(write_)
           u == Used
           d == producer.done
           f == Len(Frame(producer.data))
           byte == Frame(producer.data)[d + 1]
<1>0. TypeOK /\ r \in Cursor /\ w \in Cursor /\ u \in Nat
  BY CursorsOK DEF Inv
<1>1. /\ producer.pc = "copy" /\ d < f
      /\ buffer_' = [buffer_ EXCEPT ![offset(Plus(w, d))] = byte]
      /\ producer' = [producer EXCEPT !.done = d + 1]
      /\ UNCHANGED <<read_, write_, consumer, out>>
  BY DEF copy_in
<1>2. /\ producer \in [pc : {"copy"}, data : Messages, done : Nat]
      /\ producer.data \in Messages /\ d \in Nat /\ u + f <= capacity_
  BY <1>1, ProducerCopies
<1>3. Frame(producer.data) \in Seq(Byte) /\ f \in Nat /\ capacity_ \in Nat
  BY <1>2, FrameLen, ConstantFacts
<1>4. byte \in Byte
  <2>1. d + 1 \in 1 .. f
    BY <1>1, <1>2, <1>3
  <2> QED BY <1>3, <2>1
<1>5. producer' \in [pc : {"copy"}, data : Messages, done : Nat]
      /\ producer'.pc = "copy" /\ producer'.data = producer.data /\ producer'.done = d + 1
  BY <1>1, <1>2
<1>6. TypeOK'
  <2>1. buffer_' \in [0 .. capacity_ - 1 -> Byte]
    BY <1>0, <1>1, <1>4 DEF TypeOK
  <2>2. producer'.done <= Len(Frame(producer'.data))
    BY <1>1, <1>2, <1>3, <1>5
  <2> QED BY <1>0, <1>1, <1>5, <2>1, <2>2 DEF TypeOK
<1> HIDE DEF byte, f, d, u
<1>7. ASSUME NEW k \in 0 .. capacity_ - 1, k # u + d
      PROVE  buffer_'[offset(Plus(r, k))] = buffer_[offset(Plus(r, k))]
  BY <1>7, CopyInOutside DEF u, d
<1>8. Writing(buffer_', w, producer', read_[1])
  <2>1. Minus(w, read_[1]) + Len(Frame(producer'.data)) <= capacity_
    BY <1>1, <1>5, ProducerCopies
  <2>2. ASSUME NEW i \in 1 .. d + 1
        PROVE  buffer_'[offset(Plus(w, i - 1))] = Frame(producer.data)[i]
    <3>1. CASE i = d + 1
      <4>1. i - 1 = d /\ offset(Plus(w, d)) \in 0 .. capacity_ - 1
        BY <1>0, <1>2, <3>1, OffsetPlus
      <4> QED BY <1>0, <1>1, <3>1, <4>1 DEF TypeOK, byte
    <3>2. CASE i # d + 1
      <4>1. i \in 1 .. d /\ i - 1 \in Nat
        BY <1>2, <3>2
      <4>2. buffer_[offset(Plus(w, i - 1))] = Frame(producer.data)[i]
        BY <1>1, <4>1 DEF Inv, Writing, d
      <4>3. Plus(w, i - 1) = Plus(r, u + (i - 1)) /\ u + (i - 1) \in 0 .. capacity_ - 1
        <5>1. w = Plus(r, u)
          BY <1>0, PlusMinus DEF Used, u
        <5>2. u + (i - 1) < Wrap /\ u + (i - 1) \in 0 .. capacity_ - 1
          <6>1. u \in Nat /\ d \in Nat /\ f \in Nat /\ d < f /\ u + f <= capacity_
            BY <1>0, <1>1, <1>2, <1>3
          <6>2. u + (i - 1) < u + f
            BY <4>1, <6>1
          <6> QED BY <4>1, <6>1, <6>2, CapacityBelowWrap
        <5> QED BY <1>0, <4>1, <5>1, <5>2, PlusPlus
      <4>4. u + (i - 1) # u + d
        BY <1>0, <1>2, <4>1
      <4> QED BY <1>7, <4>2, <4>3, <4>4
    <3> QED BY <3>1, <3>2
  <2> QED BY <1>5, <2>1, <2>2 DEF Writing
<1>9. PICK B \in SUBSET (0 .. Used) : Layout(B)
  BY DEF Inv
<1>10. Layout(B)'
  <2>1. Framed(buffer_, r, u, B)
    BY <1>9 DEF Layout, u
  <2>2. \A k \in 0 .. u - 1 : buffer_'[offset(Plus(r, k))] = buffer_[offset(Plus(r, k))]
    <3> TAKE k \in 0 .. u - 1
    <3>1. k \in 0 .. capacity_ - 1 /\ k # u + d
      BY <1>0, <1>1, <1>2, <1>3
    <3> QED BY <1>7, <3>1
  <2> HIDE DEF r
  <2>3. /\ Framed(buffer_', r, u, B)
        /\ \A m \in Messages : \A k \in B :
             FrameAt(buffer_, r, B, k, m) => FrameAt(buffer_', r, B, k, m)
    BY <1>0, <2>1, <2>2, FramedBytes
  <2>4. Copying(buffer_', r, B, consumer, write_[1])
    <3>1. 0 \in B
      BY <2>1 DEF Framed
    <3> QED BY <1>9, <2>3, <3>1 DEF Layout, Copying, r
  <2>5. Used' = u
    BY <1>1 DEF Used, u
  <2>6. Published(write_, r, B)
    BY <1>9 DEF Layout, r
  <2> QED BY <1>1, <2>3, <2>4, <2>5, <2>6 DEF Layout, r
<1>11. Used' = Used /\ Freed(read_', Latest(write_')) 
  BY <1>1 DEF Used, Inv
<1> QED BY <1>1, <1>6, <1>8, <1>9, <1>10, <1>11 DEF Inv

(* A frame stays one when a boundary is added behind the last.              *)
LEMMA FrameAtGrows ==
  ASSUME NEW ring, NEW from, NEW u \in Nat, NEW B, B \subseteq 0 .. u, NEW v \in Nat, v >= u,
         NEW k \in B, NEW m \in Messages, FrameAt(ring, from, B, k, m)
  PROVE  FrameAt(ring, from, B \cup {v}, k, m)
<1>1. k + Len(Frame(m)) \in B /\ k + Len(Frame(m)) <= v
  BY DEF FrameAt
<1> QED BY <1>1 DEF FrameAt

(* What the release store of try_push publishes is one whole frame.         *)
LEMMA PublishWriteFacts ==
  ASSUME Inv, PublishWrite
  PROVE  LET f == Len(Frame(producer.data))
         IN  /\ producer.data \in Messages /\ f \in Nat /\ f > 0
             /\ Latest(write_') = Plus(Latest(write_), f)
             /\ Latest(write_') = Plus(Latest(read_), Used + f)
             /\ Used' = Used + f /\ Used + f <= capacity_
             /\ Stored(buffer_, Latest(read_), Used, producer.data)
<1> DEFINE r == Latest(read_)
           w == Latest(write_)
           u == Used
           data == producer.data
           f == Len(Frame(data))
<1>0. /\ r \in Cursor /\ w \in Cursor /\ u \in Nat /\ write_ \in Seq(Cursor)
  BY CursorsOK DEF Inv, TypeOK
<1>1. /\ producer.pc = "copy" /\ producer.done = f
      /\ write_' = Append(write_, Plus(w, need(data))) /\ UNCHANGED <<buffer_, read_>>
  BY DEF PublishWrite
<1>2. data \in Messages /\ u + f <= capacity_
  BY <1>1, ProducerCopies
<1>3. f \in Nat /\ f > 0 /\ need(data) = f /\ capacity_ \in Nat /\ capacity_ < Wrap /\ Wrap \in Nat
  BY <1>2, FrameLen, CapacityBelowWrap
<1>4. Plus(w, f) \in Cursor
  BY <1>0, <1>3, PlusType
<1>5. Latest(write_') = Plus(w, f)
  BY <1>0, <1>1, <1>3, <1>4, StoredFacts
<1>6. \A i \in 1 .. f : buffer_[offset(Plus(w, i - 1))] = Frame(data)[i]
  BY <1>1 DEF Inv, Writing
<1>7. w = Plus(r, u) /\ u = Minus(w, r)
  BY <1>0, PlusMinus DEF Used
<1> HIDE DEF f, u, r, w
<1>8. u + f < Wrap
  BY <1>0, <1>2, <1>3 DEF f
<1>9. Minus(Plus(w, f), r) = u + f
  BY <1>0, <1>3, <1>7, <1>8, PlusMoves
<1>10. Used' = u + f
  BY <1>1, <1>5, <1>9 DEF Used, r
<1>11. Plus(w, f) = Plus(r, u + f)
  BY <1>0, <1>3, <1>7, <1>8, PlusPlus
<1>12. Stored(buffer_, r, u, data)
  <2> SUFFICES ASSUME NEW i \in 1 .. f
               PROVE  buffer_[offset(Plus(r, u + i - 1))] = Frame(data)[i]
    BY DEF Stored, f
  <2>1. i - 1 \in Nat /\ u + (i - 1) < Wrap /\ u + (i - 1) = u + i - 1
    BY <1>0, <1>3, <1>8
  <2>2. Plus(w, i - 1) = Plus(r, u + i - 1)
    BY <1>0, <1>7, <2>1, PlusPlus
  <2> QED BY <1>6, <2>2
<1> QED BY <1>2, <1>3, <1>5, <1>10, <1>11, <1>12 DEF f, u, r, w

(* The release store of try_push publishes one whole frame.                 *)
LEMMA PublishWriteInv == Inv /\ PublishWrite => Inv'
<1> SUFFICES ASSUME Inv, PublishWrite PROVE Inv'
  OBVIOUS
<1> DEFINE r == Latest(read_)
           w == Latest(write_)
           u == Used
           data == producer.data
           f == Len(Frame(data))
           v == Plus(w, f)
<1>0. /\ TypeOK /\ r \in Cursor /\ w \in Cursor /\ u \in Nat
      /\ write_ \in Seq(Cursor) /\ Len(write_) \in Nat \ {0}
      /\ Latest(write_) = write_[Len(write_)]
      /\ \A i \in 1 .. Len(read_) : read_[i] \in Cursor
  BY CursorsOK DEF Inv, TypeOK
<1>1. /\ producer.pc = "copy" /\ producer.done = f
      /\ write_' = Append(write_, Plus(w, need(data)))
      /\ producer' = Idle
      /\ UNCHANGED <<buffer_, read_, consumer, out>>
  BY DEF PublishWrite
<1>2. /\ data \in Messages /\ u + f <= capacity_ /\ Minus(w, read_[1]) + f <= capacity_
  BY <1>1, ProducerCopies
<1>3. f \in Nat /\ f > 0 /\ need(data) = f /\ capacity_ \in Nat /\ capacity_ < Wrap /\ Wrap \in Nat
  BY <1>2, FrameLen, CapacityBelowWrap
<1>4. v \in Cursor
  BY <1>0, <1>3, PlusType
<1>5. /\ write_' \in Seq(Cursor) /\ write_' # <<>> /\ Len(write_') = Len(write_) + 1
      /\ \A j \in 1 .. Len(write_) : write_'[j] = write_[j]
      /\ write_'[Len(write_) + 1] = v /\ Latest(write_') = v
  BY <1>0, <1>1, <1>3, <1>4, StoredFacts
<1>6. TypeOK'
  BY <1>0, <1>1, <1>5 DEF TypeOK
<1> HIDE DEF v, f
<1>7. Minus(v, r) = u + f
  <2>1. u + f < Wrap
    BY <1>0, <1>2, <1>3
  <2> QED BY <1>0, <1>3, <2>1, PlusMoves DEF Used, v
<1>8. Used' = u + f
  BY PublishWriteFacts DEF f
<1>9. Freed(read_', Latest(write_'))
  <2> SUFFICES ASSUME NEW i \in 1 .. Len(read_), NEW j \in 1 .. Len(read_)
               PROVE  /\ Minus(v, read_[i]) <= capacity_
                      /\ i <= j => Minus(v, read_[j]) <= Minus(v, read_[i])
    BY <1>1, <1>5 DEF Freed
  <2>1. ASSUME NEW k \in 1 .. Len(read_)
        PROVE  /\ Minus(v, read_[k]) = Minus(w, read_[k]) + f /\ Minus(w, read_[k]) \in Nat
               /\ Minus(w, read_[k]) + f <= capacity_
    <3>1. read_[k] \in Cursor /\ read_[1] \in Cursor /\ 1 \in 1 .. Len(read_) /\ 1 <= k
      BY <1>0
    <3>2. Minus(w, read_[k]) <= Minus(w, read_[1])
      BY <3>1 DEF Inv, Freed
    <3>3. Minus(w, read_[k]) \in 0 .. Wrap - 1 /\ Minus(w, read_[1]) \in 0 .. Wrap - 1
      BY <1>0, <3>1, MinusType
    <3>4. Minus(w, read_[k]) \in Nat /\ Minus(w, read_[1]) \in Nat
      BY <3>3
    <3>5. Minus(w, read_[k]) + f <= capacity_
      BY <1>2, <1>3, <3>2, <3>4 DEF f
    <3>6. Minus(w, read_[k]) + f < Wrap
      BY <1>3, <3>4, <3>5
    <3> QED BY <1>0, <1>3, <3>1, <3>4, <3>5, <3>6, PlusMoves DEF v
  <2>2. i <= j => Minus(w, read_[j]) <= Minus(w, read_[i])
    BY DEF Inv, Freed
  <2>3. /\ Minus(v, read_[i]) = Minus(w, read_[i]) + f /\ Minus(w, read_[i]) \in Nat
        /\ Minus(w, read_[i]) + f <= capacity_
        /\ Minus(v, read_[j]) = Minus(w, read_[j]) + f /\ Minus(w, read_[j]) \in Nat
    BY <2>1
  <2> QED BY <1>3, <2>2, <2>3
<1>10. Writing(buffer_', Latest(write_'), producer', read_'[1])
  BY <1>1 DEF Writing, Idle
<1>11. PICK B \in SUBSET (0 .. Used) : Layout(B)
  BY DEF Inv
<1>C. PICK C : C = B \cup {u + f}
  OBVIOUS
<1>12. Framed(buffer_, r, u, B) /\ B \subseteq 0 .. u /\ 0 \in B /\ u \in B
  BY <1>11 DEF Layout, Framed
<1> HIDE DEF r, w, u
<1>13. ASSUME NEW k \in B, NEW m \in Messages, FrameAt(buffer_, r, B, k, m)
       PROVE  FrameAt(buffer_, r, C, k, m)
  <2>1. u + f \in Nat /\ u + f >= u
    BY <1>0, <1>3
  <2> QED BY <1>0, <1>12, <1>13, <1>C, <2>1, FrameAtGrows
<1>14. FrameAt(buffer_, r, C, u, data)
  <2>1. Stored(buffer_, r, u, data)
    BY PublishWriteFacts DEF r, u
  <2>2. u + Len(Frame(data)) \in C
    BY <1>C DEF f
  <2>3. \A l \in C : l > u => l >= u + Len(Frame(data))
    BY <1>0, <1>12, <1>C DEF f
  <2> QED BY <2>1, <2>2, <2>3 DEF FrameAt
<1>15. Framed(buffer_, r, u + f, C)
  <2>1. C \subseteq 0 .. u + f /\ 0 \in C /\ u + f \in C
    BY <1>0, <1>3, <1>12, <1>C
  <2>2. ASSUME NEW k \in C, k # u + f
        PROVE  \E m \in Messages : FrameAt(buffer_, r, C, k, m)
    <3>1. CASE k = u
      BY <1>2, <1>14, <3>1
    <3>2. CASE k # u
      <4>1. k \in B
        BY <2>2, <1>C
      <4>2. PICK m \in Messages : FrameAt(buffer_, r, B, k, m)
        BY <1>12, <3>2, <4>1 DEF Framed
      <4>3. FrameAt(buffer_, r, C, k, m)
        BY <1>13, <4>1, <4>2
      <4> QED BY <4>3
    <3> QED BY <3>1, <3>2
  <2> QED BY <2>1, <2>2 DEF Framed
<1>16. Published(write_', r, C)
  <2> DEFINE n == Len(write_)
  <2>1. \A i \in 1 .. n : Minus(write_[i], r) \in B
    BY <1>11 DEF Layout, Published, r
  <2>2. \A i, j \in 1 .. n : i <= j => Minus(write_[i], r) <= Minus(write_[j], r)
    BY <1>11 DEF Layout, Published, r
  <2>3. \A i \in 1 .. n : write_'[i] = write_[i]
    BY <1>5
  <2>4. write_'[n + 1] = v /\ Minus(v, r) = u + f /\ Len(write_') = n + 1 /\ n \in Nat
    BY <1>0, <1>5, <1>7
  <2>5. \A b \in B : b \in Nat /\ b <= u + f
    BY <1>0, <1>3, <1>12
  <2> HIDE DEF n
  <2> SUFFICES ASSUME NEW i \in 1 .. n + 1, NEW j \in 1 .. n + 1
               PROVE  /\ Minus(write_'[i], r) \in C
                      /\ i <= j => Minus(write_'[i], r) <= Minus(write_'[j], r)
    BY <2>4 DEF Published
  <2>6. CASE i \in 1 .. n /\ j \in 1 .. n
    BY <1>C, <2>1, <2>2, <2>3, <2>6
  <2>7. CASE i \in 1 .. n /\ j = n + 1
    BY <1>C, <2>1, <2>3, <2>4, <2>5, <2>7
  <2>8. CASE i = n + 1
    <3>1. i <= j => j = n + 1
      BY <2>4, <2>8
    <3>2. u + f <= u + f
      BY <1>0, <1>3
    <3> QED BY <1>C, <2>4, <2>8, <3>1, <3>2
  <2>9. i \in 1 .. n \/ i = n + 1
    BY <2>4
  <2>10. j \in 1 .. n \/ j = n + 1
    BY <2>4
  <2> QED BY <2>6, <2>7, <2>8, <2>9, <2>10
<1>17. Copying(buffer_, r, C, consumer, write_'[1])
  <2>1. write_'[1] = write_[1]
    BY <1>0, <1>5
  <2>2. Copying(buffer_, r, B, consumer, write_[1])
    BY <1>11 DEF Layout, r
  <2> QED BY <1>12, <1>13, <2>1, <2>2 DEF Copying
<1>18. Layout(C)'
  <2>1. Latest(read_') = r /\ buffer_' = buffer_ /\ consumer' = consumer /\ Used' = u + f
    BY <1>1, <1>8 DEF r
  <2> QED BY <1>15, <1>16, <1>17, <2>1 DEF Layout
<1>19. C \in SUBSET (0 .. Used')
  BY <1>8, <1>15 DEF Framed
<1> QED BY <1>6, <1>9, <1>10, <1>18, <1>19 DEF Inv

(* What a copying consumer holds: the start of the first frame.             *)
LEMMA ConsumerCopies ==
  ASSUME TypeOK, NEW B, Layout(B), consumer.pc = "copy"
  PROVE  /\ consumer \in [pc : {"copy"}, write : Cursor, bytes : Seq(Byte)]
         /\ consumer.bytes \in Seq(Byte) /\ Len(consumer.bytes) \in Nat
         /\ consumer.write = write_[1] /\ consumer.write # Latest(read_)
         /\ \E m \in Messages :
              /\ FrameAt(buffer_, Latest(read_), B, 0, m)
              /\ Len(consumer.bytes) <= Len(Frame(m))
              /\ \A i \in 1 .. Len(consumer.bytes) : consumer.bytes[i] = Frame(m)[i]
<1>1. consumer \in [pc : {"copy"}, write : Cursor, bytes : Seq(Byte)]
  BY DEF TypeOK, Idle
<1>2. consumer.bytes \in Seq(Byte)
  BY <1>1
<1>3. Len(consumer.bytes) \in Nat
  BY <1>2
<1> QED BY <1>1, <1>2, <1>3 DEF Layout, Copying

(* Once the header is there, it spells the length of the frame: the copy    *)
(* ends with its last byte.                                                 *)
LEMMA FrameReadExact ==
  ASSUME NEW m \in Messages, NEW bytes \in Seq(Byte), Len(bytes) <= Len(Frame(m)),
         \A i \in 1 .. Len(bytes) : bytes[i] = Frame(m)[i],
         Len(bytes) >= kHeader
  PROVE  /\ SizeOf(bytes) = Len(m)
         /\ Len(bytes) = kHeader + SizeOf(bytes) <=> Len(bytes) = Len(Frame(m))
<1>1. Len(bytes) \in Nat /\ kHeader \in Nat
  BY ConstantFacts
<1>2. \A i \in 1 .. kHeader : bytes[i] = Frame(m)[i]
  BY <1>1
<1>3. SizeOf(bytes) = Len(m)
  BY <1>2, HeaderDecodes
<1> QED BY <1>3, FrameLen

(* copy_out appends the next byte of the frame.                             *)
LEMMA CopyOutInv == Inv /\ copy_out => Inv'
<1> SUFFICES ASSUME Inv, copy_out PROVE Inv'
  OBVIOUS
<1> DEFINE r == Latest(read_)
           n == Len(consumer.bytes)
           byte == buffer_[offset(Plus(r, n))]
<1>0. TypeOK /\ r \in Cursor /\ Used \in Nat
  BY CursorsOK DEF Inv
<1>1. /\ consumer.pc = "copy" /\ ~FrameRead
      /\ consumer' = [consumer EXCEPT !.bytes = Append(consumer.bytes, byte)]
      /\ UNCHANGED <<buffer_, read_, write_, producer, out>>
  BY DEF copy_out
<1>2. PICK B \in SUBSET (0 .. Used) : Layout(B)
  BY DEF Inv
<1>3. /\ consumer \in [pc : {"copy"}, write : Cursor, bytes : Seq(Byte)]
      /\ consumer.bytes \in Seq(Byte) /\ n \in Nat
      /\ consumer.write = write_[1] /\ consumer.write # r
  BY <1>0, <1>1, <1>2, ConsumerCopies
<1>4. PICK m \in Messages :
        /\ FrameAt(buffer_, r, B, 0, m)
        /\ n <= Len(Frame(m))
        /\ \A i \in 1 .. n : consumer.bytes[i] = Frame(m)[i]
  BY <1>0, <1>1, <1>2, ConsumerCopies
<1>5. Frame(m) \in Seq(Byte) /\ Len(Frame(m)) \in Nat /\ Len(Frame(m)) = kHeader + Len(m)
      /\ Len(m) \in Nat /\ kHeader \in Nat
  BY FrameLen, ConstantFacts
<1>6. n < Len(Frame(m))
  <2> SUFFICES ASSUME n = Len(Frame(m)) PROVE FALSE
    BY <1>3, <1>4, <1>5
  <2>1. n >= kHeader
    BY <1>5
  <2>2. n = kHeader + SizeOf(consumer.bytes)
    BY <1>3, <1>4, <2>1, FrameReadExact
  <2> QED BY <1>1, <2>1, <2>2 DEF FrameRead, HeaderRead
<1>7. byte = Frame(m)[n + 1] /\ byte \in Byte
  <2>1. n + 1 \in 1 .. Len(Frame(m)) /\ 0 + (n + 1) - 1 = n
    BY <1>3, <1>5, <1>6
  <2>2. buffer_[offset(Plus(r, 0 + (n + 1) - 1))] = Frame(m)[n + 1]
    BY <1>4, <2>1 DEF FrameAt, Stored
  <2> QED BY <1>5, <2>1, <2>2
<1> HIDE DEF byte, r
<1>8. /\ consumer' \in [pc : {"copy"}, write : Cursor, bytes : Seq(Byte)]
      /\ consumer'.write = consumer.write /\ consumer'.bytes = Append(consumer.bytes, byte)
      /\ consumer'.pc = "copy"
  BY <1>1, <1>3, <1>7
<1>9. TypeOK'
  BY <1>0, <1>1, <1>8 DEF TypeOK
<1>10. Layout(B)'
  <2> DEFINE bytes == consumer.bytes
             more == Append(bytes, byte)
  <2>1. Len(more) = n + 1 /\ \A i \in 1 .. n + 1 : more[i] = Frame(m)[i]
    <3>1. Len(more) = n + 1 /\ more[n + 1] = byte /\ \A i \in 1 .. n : more[i] = bytes[i]
      BY <1>3
    <3>2. \A i \in 1 .. n : more[i] = Frame(m)[i]
      BY <1>4, <3>1
    <3>3. \A i \in 1 .. n + 1 : i \in 1 .. n \/ i = n + 1
      BY <1>3
    <3> HIDE DEF more
    <3> QED BY <1>7, <3>1, <3>2, <3>3
  <2> HIDE DEF more
  <2>2. consumer'.bytes = more
    BY <1>8 DEF more
  <2>3. Copying(buffer_, r, B, consumer', write_[1])
    <3>1. n + 1 <= Len(Frame(m))
      BY <1>3, <1>5, <1>6
    <3> QED BY <1>3, <1>4, <1>8, <2>1, <2>2, <3>1 DEF Copying
  <2>4. Used' = Used /\ Latest(read_') = Latest(read_)
    BY <1>1 DEF Used
  <2>5. Framed(buffer_, r, Used, B) /\ Published(write_, r, B)
    BY <1>2 DEF Layout, r
  <2> QED BY <1>1, <2>3, <2>4, <2>5 DEF Layout, r
<1>11. Used' = Used
  BY <1>1 DEF Used
<1>12. Freed(read_', Latest(write_')) /\ Writing(buffer_', Latest(write_'), producer', read_'[1])
  BY <1>1 DEF Inv
<1> QED BY <1>2, <1>9, <1>10, <1>11, <1>12 DEF Inv

(* The release store of try_pop drops the first frame and hands out its     *)
(* payload.                                                                 *)
LEMMA PublishReadFacts ==
  ASSUME TypeOK, NEW B, Layout(B), PublishRead
  PROVE  \E m \in Messages :
           /\ FrameAt(buffer_, Latest(read_), B, 0, m)
           /\ out' = m
           /\ read_' = Append(read_, Plus(Latest(read_), Len(Frame(m))))
<1> DEFINE bytes == consumer.bytes
           n == Len(bytes)
<1>1. consumer.pc = "copy" /\ FrameRead
  BY DEF PublishRead
<1>2. bytes \in Seq(Byte) /\ n \in Nat
  BY <1>1, ConsumerCopies
<1>3. PICK m \in Messages :
        /\ FrameAt(buffer_, Latest(read_), B, 0, m)
        /\ n <= Len(Frame(m))
        /\ \A i \in 1 .. n : bytes[i] = Frame(m)[i]
  BY <1>1, ConsumerCopies
<1>4. n >= kHeader /\ n = kHeader + SizeOf(bytes)
  BY <1>1 DEF FrameRead, HeaderRead
<1>5. n = Len(Frame(m))
  BY <1>2, <1>3, <1>4, FrameReadExact
<1>6. /\ Len(Frame(m)) = kHeader + Len(m) /\ Len(m) \in Nat /\ kHeader \in Nat
      /\ m \in Seq(Byte) /\ \A j \in 1 .. Len(m) : Frame(m)[kHeader + j] = m[j]
  BY FrameFacts, FrameLen, ConstantFacts
<1> DEFINE rest == SubSeq(bytes, kHeader + 1, n)
<1>7. rest = m
  <2>1. n - (kHeader + 1) + 1 = Len(m) /\ kHeader + 1 \in 1 .. n + 1
    BY <1>5, <1>6
  <2>2. rest \in Seq(Byte)
    BY <1>2, <1>6, <2>1
  <2>3. Len(rest) = Len(m)
    BY <1>2, <1>6, <2>1
  <2>4. ASSUME NEW j \in 1 .. Len(m) PROVE rest[j] = m[j]
    <3>1. kHeader + j \in 1 .. n /\ (kHeader + 1) + j - 1 = kHeader + j
      BY <1>5, <1>6
    <3>2. j \in 1 .. n - (kHeader + 1) + 1
      BY <2>1
    <3>3. rest[j] = bytes[(kHeader + 1) + j - 1]
      BY <1>2, <1>6, <2>1, <3>1, <3>2
    <3>4. bytes[kHeader + j] = Frame(m)[kHeader + j]
      BY <1>3, <3>1
    <3>5. Frame(m)[kHeader + j] = m[j]
      BY <1>6
    <3> QED BY <3>1, <3>3, <3>4, <3>5
  <2> HIDE DEF rest
  <2> QED BY <1>6, <2>2, <2>3, <2>4
<1>8. out' = rest /\ read_' = Append(read_, Plus(Latest(read_), n))
  BY DEF PublishRead
<1> QED BY <1>3, <1>5, <1>7, <1>8

(* The boundaries after the first frame, counted from its end.              *)
Shifted(B, f) == {k \in {l - f : l \in B} : k >= 0}

(* Without the first frame the rest of the ring is framed as it was.        *)
LEMMA FramedShifts ==
  ASSUME NEW ring, NEW from \in Cursor, NEW u \in Nat, u < Wrap, NEW B,
         Framed(ring, from, u, B),
         NEW m \in Messages, FrameAt(ring, from, B, 0, m)
  PROVE  LET f == Len(Frame(m))
         IN  /\ Framed(ring, Plus(from, f), u - f, Shifted(B, f))
             /\ \A k \in B : k > 0 => k >= f /\ k - f \in Shifted(B, f)
<1> DEFINE f == Len(Frame(m))
           C == Shifted(B, f)
<1>1. f \in Nat /\ f > 0
  BY FrameLen
<1>2. B \subseteq 0 .. u /\ 0 \in B /\ u \in B
  BY DEF Framed
<1>3. f \in B /\ \A l \in B : l > 0 => l >= f
  <2>1. 0 + f \in B /\ \A l \in B : l > 0 => l >= 0 + f
    BY DEF FrameAt
  <2> HIDE DEF f
  <2>2. 0 + f = f
    BY <1>1
  <2> QED BY <2>1, <2>2
<1> HIDE DEF f
<1>4. \A k : k \in C <=> k \in Int /\ k >= 0 /\ k + f \in B
  <2> TAKE k
  <2>1. ASSUME k \in C PROVE k \in Int /\ k >= 0 /\ k + f \in B
    <3>1. PICK l \in B : k = l - f /\ k >= 0
      BY <2>1 DEF Shifted
    <3>2. l \in Int /\ k + f = l
      BY <1>1, <1>2, <3>1
    <3> QED BY <1>1, <3>1, <3>2
  <2>2. ASSUME k \in Int, k >= 0, k + f \in B PROVE k \in C
    <3>1. k = (k + f) - f
      BY <1>1, <2>2
    <3> QED BY <2>2, <3>1 DEF Shifted
  <2> QED BY <2>1, <2>2
<1> HIDE DEF C
<1>5. u - f \in Nat /\ C \subseteq 0 .. u - f /\ 0 \in C /\ u - f \in C
  <2>1. f <= u
    BY <1>1, <1>2, <1>3
  <2>2. u - f \in Nat /\ (u - f) + f = u /\ 0 + f = f
    BY <1>1, <2>1
  <2>3. 0 \in C /\ u - f \in C
    BY <1>2, <1>3, <1>4, <2>2
  <2>4. ASSUME NEW k \in C PROVE k \in 0 .. u - f
    <3>1. k \in Int /\ k >= 0 /\ k + f \in 0 .. u
      BY <1>2, <1>4
    <3> QED BY <1>1, <2>2, <3>1
  <2> QED BY <2>2, <2>3, <2>4
<1>6. ASSUME NEW k \in C, k # u - f
      PROVE  \E p \in Messages : FrameAt(ring, Plus(from, f), C, k, p)
  <2>1. k \in Nat /\ k + f \in B /\ k + f # u /\ k + f \in Nat
    BY <1>1, <1>4, <1>6
  <2>2. PICK p \in Messages : FrameAt(ring, from, B, k + f, p)
    BY <2>1 DEF Framed
  <2> DEFINE g == Len(Frame(p))
  <2>3. g \in Nat /\ (k + f) + g \in B /\ \A l \in B : l > k + f => l >= (k + f) + g
    BY <2>2, FrameLen DEF FrameAt
  <2>4. \A i \in 1 .. g : ring[offset(Plus(from, (k + f) + i - 1))] = Frame(p)[i]
    BY <2>2 DEF FrameAt, Stored
  <2> HIDE DEF g
  <2>5. k + g \in C
    <3>1. (k + g) + f = (k + f) + g /\ k + g \in Int /\ k + g >= 0
      BY <1>1, <2>1, <2>3
    <3> QED BY <1>4, <2>3, <3>1
  <2>6. ASSUME NEW l \in C, l > k PROVE l >= k + g
    <3>1. l \in Int /\ l + f \in B /\ l + f > k + f
      BY <1>1, <1>4, <2>1, <2>6
    <3>2. l + f >= (k + f) + g
      BY <2>3, <3>1
    <3> QED BY <1>1, <2>1, <2>3, <3>1, <3>2
  <2>7. ASSUME NEW i \in 1 .. g
        PROVE  ring[offset(Plus(Plus(from, f), k + i - 1))] = Frame(p)[i]
    <3>1. (k + f) + g <= u
      <4>1. (k + f) + g \in 0 .. u
        BY <1>2, <2>3
      <4> QED BY <4>1
    <3>2. k + i - 1 \in Nat /\ f + (k + i - 1) < Wrap /\ f + (k + i - 1) = (k + f) + i - 1
      BY <1>1, <2>1, <2>3, <3>1, CapacityBelowWrap
    <3>3. Plus(Plus(from, f), k + i - 1) = Plus(from, f + (k + i - 1))
      BY <1>1, <3>2, PlusPlus
    <3> QED BY <2>4, <3>2, <3>3
  <2>8. FrameAt(ring, Plus(from, f), C, k, p)
    BY <2>5, <2>6, <2>7 DEF FrameAt, Stored, g
  <2> QED BY <2>8
<1>7. Framed(ring, Plus(from, f), u - f, C)
  BY <1>5, <1>6 DEF Framed
<1>8. ASSUME NEW k \in B, k > 0 PROVE k >= f /\ k - f \in C
  <2>1. k >= f /\ k \in Nat
    BY <1>2, <1>3, <1>8
  <2>2. k - f \in Int /\ k - f >= 0 /\ (k - f) + f = k
    BY <1>1, <2>1
  <2> QED BY <1>4, <2>1, <2>2
<1> QED BY <1>7, <1>8 DEF f, C

(* What is left behind the first frame are whole frames again.              *)
LEMMA PublishReadInv == Inv /\ PublishRead => Inv'
<1> SUFFICES ASSUME Inv, PublishRead PROVE Inv'
  OBVIOUS
<1> DEFINE r == Latest(read_)
           w == Latest(write_)
           u == Used
<1>0. /\ TypeOK /\ r \in Cursor /\ w \in Cursor /\ u \in Nat /\ u < Wrap
      /\ read_ \in Seq(Cursor) /\ Len(read_) \in Nat \ {0} /\ Len(write_) \in Nat \ {0}
      /\ \A i \in 1 .. Len(read_) : read_[i] \in Cursor
      /\ \A i \in 1 .. Len(write_) : write_[i] \in Cursor
      /\ w = write_[Len(write_)] /\ r = read_[Len(read_)]
  BY CursorsOK, CapacityBelowWrap DEF Inv, TypeOK
<1>1. consumer.pc = "copy" /\ consumer' = Idle /\ UNCHANGED <<buffer_, write_, producer>>
  BY DEF PublishRead
<1>2. PICK B \in SUBSET (0 .. Used) : Layout(B)
  BY DEF Inv
<1>3. PICK m \in Messages :
        /\ FrameAt(buffer_, r, B, 0, m)
        /\ out' = m
        /\ read_' = Append(read_, Plus(r, Len(Frame(m))))
  BY <1>0, <1>2, PublishReadFacts
<1> DEFINE f == Len(Frame(m))
           v == Plus(r, f)
<1>4. f \in Nat /\ f > 0
  BY FrameLen
<1>5. v \in Cursor
  BY <1>0, <1>4, PlusType
<1>6. /\ read_' \in Seq(Cursor) /\ read_' # <<>> /\ Len(read_') = Len(read_) + 1
      /\ \A j \in 1 .. Len(read_) : read_'[j] = read_[j]
      /\ read_'[Len(read_) + 1] = v /\ Latest(read_') = v
  BY <1>0, <1>3, <1>5, StoredFacts
<1>7. TypeOK'
  BY <1>0, <1>1, <1>3, <1>6 DEF TypeOK
<1>8. Framed(buffer_, r, u, B) /\ B \subseteq 0 .. u
  BY <1>2 DEF Layout, Framed
<1> HIDE DEF r, w, u
<1>C. PICK C : C = Shifted(B, f)
  OBVIOUS
<1>9. /\ Framed(buffer_, v, u - f, C)
      /\ \A k \in B : k > 0 => k >= f /\ k - f \in C
  BY <1>0, <1>3, <1>8, <1>C, FramedShifts
<1> HIDE DEF f, v
<1>10. f <= u
  <2>1. 0 + f \in B
    BY <1>3 DEF FrameAt, f
  <2> QED BY <1>0, <1>4, <1>8, <2>1
<1>11. Minus(v, r) = f
  <2>1. Minus(r, r) = 0
    BY <1>0, MinusZero
  <2>2. Minus(r, r) + f < Wrap
    BY <1>0, <1>4, <1>10, <2>1, CapacityBelowWrap
  <2>3. Minus(Plus(r, f), r) = Minus(r, r) + f
    BY <1>0, <1>4, <2>2, PlusMoves
  <2> QED BY <1>4, <2>1, <2>3 DEF v
<1>12. ASSUME NEW i \in 1 .. Len(write_)
       PROVE  /\ Minus(write_[i], r) \in B /\ Minus(write_[i], r) > 0
              /\ Minus(write_[i], v) = Minus(write_[i], r) - f
              /\ Minus(write_[i], r) \in Nat
  <2>1. write_[i] \in Cursor /\ write_[1] \in Cursor /\ 1 \in 1 .. Len(write_) /\ 1 <= i
    BY <1>0
  <2>2. write_[1] # r
    BY <1>0, <1>1, <1>2, ConsumerCopies DEF r
  <2>3. Minus(write_[1], r) # 0 /\ Minus(write_[1], r) \in 0 .. Wrap - 1
        /\ Minus(write_[i], r) \in 0 .. Wrap - 1 /\ Minus(write_[i], v) \in 0 .. Wrap - 1
    BY <1>0, <1>5, <2>1, <2>2, MinusZero, MinusType
  <2>4. Minus(write_[i], r) \in B /\ Minus(write_[1], r) <= Minus(write_[i], r)
    BY <1>2, <2>1 DEF Layout, Published, r
  <2>5. Minus(write_[i], r) > 0
    BY <2>3, <2>4
  <2>6. Minus(v, r) <= Minus(write_[i], r)
    BY <1>9, <1>11, <2>4, <2>5
  <2>7. Minus(write_[i], r) = Minus(v, r) + Minus(write_[i], v)
    BY <1>0, <1>5, <2>1, <2>6, MinusSplits
  <2>8. Minus(write_[i], r) \in Nat /\ Minus(write_[i], v) \in Nat
    BY <2>3
  <2> QED BY <1>4, <1>11, <2>4, <2>5, <2>7, <2>8
<1>13. Minus(w, v) = u - f /\ u = Minus(w, r) /\ Used' = u - f
  <2>1. Len(write_) \in 1 .. Len(write_)
    BY <1>0
  <2>2. Minus(w, v) = Minus(w, r) - f /\ u = Minus(w, r)
    BY <1>0, <1>12, <2>1 DEF u, Used, w, r
  <2> QED BY <1>1, <1>6, <2>2 DEF Used, w
<1>14. Freed(read_', Latest(write_'))
  <2> DEFINE n == Len(read_)
  <2>1. \A i \in 1 .. n : Minus(w, read_[i]) <= capacity_
    BY DEF Inv, Freed, w
  <2>2. \A i, j \in 1 .. n : i <= j => Minus(w, read_[j]) <= Minus(w, read_[i])
    BY DEF Inv, Freed, w
  <2>3. /\ \A i \in 1 .. n : read_'[i] = read_[i]
        /\ read_'[n + 1] = v /\ Len(read_') = n + 1 /\ n \in Nat
    BY <1>0, <1>6
  <2>4. ASSUME NEW i \in 1 .. n
        PROVE  Minus(w, read_[i]) \in Nat /\ Minus(w, v) <= Minus(w, read_[i])
    <3>1. n \in 1 .. n /\ i <= n /\ read_[i] \in Cursor
      BY <1>0
    <3>2. u <= Minus(w, read_[i])
      BY <1>0, <1>13, <2>2, <3>1
    <3>3. Minus(w, read_[i]) \in 0 .. Wrap - 1
      BY <1>0, <3>1, MinusType
    <3> QED BY <1>0, <1>4, <1>13, <3>2, <3>3
  <2>5. Minus(w, v) <= capacity_ /\ Minus(w, v) \in Nat
    <3>1. Minus(w, read_[n]) <= capacity_ /\ Minus(w, v) <= Minus(w, read_[n])
          /\ Minus(w, read_[n]) \in Nat
      BY <1>0, <2>1, <2>4
    <3>2. Minus(w, v) \in Nat
      BY <1>0, <1>4, <1>10, <1>13
    <3> QED BY <3>1, <3>2, CapacityBelowWrap
  <2> HIDE DEF n
  <2> SUFFICES ASSUME NEW i \in 1 .. n + 1, NEW j \in 1 .. n + 1
               PROVE  /\ Minus(w, read_'[i]) <= capacity_
                      /\ i <= j => Minus(w, read_'[j]) <= Minus(w, read_'[i])
    BY <1>1, <2>3 DEF Freed, w
  <2>6. CASE i \in 1 .. n /\ j \in 1 .. n
    BY <2>1, <2>2, <2>3, <2>6
  <2>7. CASE i \in 1 .. n /\ j = n + 1
    BY <2>1, <2>3, <2>4, <2>7
  <2>8. CASE i = n + 1
    <3>1. i <= j => j = n + 1
      BY <2>3, <2>8
    <3> QED BY <2>3, <2>5, <2>8, <3>1
  <2>9. i \in 1 .. n \/ i = n + 1
    BY <2>3
  <2>10. j \in 1 .. n \/ j = n + 1
    BY <2>3
  <2> QED BY <2>6, <2>7, <2>8, <2>9, <2>10
<1>15. Writing(buffer_', Latest(write_'), producer', read_'[1])
  <2>1. read_'[1] = read_[1]
    BY <1>0, <1>6
  <2> QED BY <1>1, <2>1 DEF Inv, Writing
<1>16. Layout(C)'
  <2>1. Published(write_, v, C)
    <3> SUFFICES ASSUME NEW i \in 1 .. Len(write_), NEW j \in 1 .. Len(write_)
                 PROVE  /\ Minus(write_[i], v) \in C
                        /\ i <= j => Minus(write_[i], v) <= Minus(write_[j], v)
      BY DEF Published
    <3>1. i <= j => Minus(write_[i], r) <= Minus(write_[j], r)
      BY <1>2 DEF Layout, Published, r
    <3>2. /\ Minus(write_[i], v) = Minus(write_[i], r) - f /\ Minus(write_[i], r) \in Nat
          /\ Minus(write_[j], v) = Minus(write_[j], r) - f /\ Minus(write_[j], r) \in Nat
          /\ Minus(write_[i], r) \in B /\ Minus(write_[i], r) > 0
      BY <1>12
    <3> QED BY <1>4, <1>9, <3>1, <3>2
  <2>2. Copying(buffer_', v, C, consumer', write_'[1])
    BY <1>1 DEF Copying, Idle
  <2> QED BY <1>1, <1>6, <1>9, <1>13, <2>1, <2>2 DEF Layout
<1>17. C \in SUBSET (0 .. Used')
  BY <1>9, <1>13 DEF Framed
<1> QED BY <1>7, <1>14, <1>15, <1>16, <1>17 DEF Inv

(* Every step of the queue.                                                 *)
LEMMA NextInv == Inv /\ [Next]_vars => Inv'
<1> SUFFICES ASSUME Inv, [Next]_vars PROVE Inv'
  OBVIOUS
<1>1. CASE \E data \in Messages : Push(data)
  BY <1>1, PushInv
<1>2. CASE ProducerRuns
  BY <1>2, CopyInInv, PublishWriteInv DEF ProducerRuns
<1>3. CASE Pop
  BY <1>3, PopInv
<1>4. CASE ConsumerRuns
  BY <1>4, CopyOutInv, PublishReadInv DEF ConsumerRuns
<1>5. CASE UNCHANGED vars
  <2>1. UNCHANGED <<buffer_, read_, write_, producer, consumer, out>>
    BY <1>5 DEF vars
  <2>2. TypeOK'
    BY <2>1 DEF Inv, TypeOK
  <2>3. Used' = Used
    BY <2>1 DEF Used
  <2>4. PICK B \in SUBSET (0 .. Used) : Layout(B)
    BY DEF Inv
  <2>5. Layout(B)'
    BY <2>1, <2>3, <2>4 DEF Layout
  <2>6. Freed(read_', Latest(write_')) /\ Writing(buffer_', Latest(write_'), producer', read_'[1])
    BY <2>1 DEF Inv
  <2> QED BY <2>2, <2>3, <2>4, <2>5, <2>6 DEF Inv
<1> QED BY <1>1, <1>2, <1>3, <1>4, <1>5 DEF Next

(* The invariant holds in every state.                                      *)
LEMMA Inductive == Spec => []Inv
  BY InitInv, NextInv, PTL DEF Spec

(* Type correctness of the queue: cursors stay in range, every byte of the  *)
(* ring is a byte, and what try_pop hands out is a message somebody pushed. *)
THEOREM TypeCorrect == Spec => []TypeOK
<1>1. Inv => TypeOK
  BY DEF Inv
<1> QED BY <1>1, Inductive, PTL

(* The assertions of try_pop hold, for every capacity, every size of the    *)
(* header and every set of messages: the ring is never over full, and the   *)
(* length that try_pop reads stays within what was published and within the *)
(* span it is given.                                                        *)
THEOREM StaysIntact == Spec => []QueueIntact
<1>1. ASSUME Inv PROVE QueueIntact
  <2>1. TypeOK /\ Freed(read_, Latest(write_))
    BY <1>1 DEF Inv
  <2>2. Used <= capacity_
    BY <2>1, Room
  <2>3. producer.pc = "copy" => Used + Len(Frame(producer.data)) <= capacity_
    BY <1>1, ProducerCopies
  <2>4. ASSUME consumer.pc = "copy", HeaderRead
        PROVE  /\ kHeader + SizeOf(consumer.bytes) <= Minus(consumer.write, Latest(read_))
               /\ SizeOf(consumer.bytes) <= OutSize
    <3>1. PICK B \in SUBSET (0 .. Used) : Layout(B)
      BY <1>1 DEF Inv
    <3>2. consumer.bytes \in Seq(Byte) /\ consumer.write = write_[1]
          /\ consumer.write # Latest(read_)
      BY <2>1, <2>4, <3>1, ConsumerCopies
    <3>3. PICK m \in Messages :
            /\ FrameAt(buffer_, Latest(read_), B, 0, m)
            /\ Len(consumer.bytes) <= Len(Frame(m))
            /\ \A i \in 1 .. Len(consumer.bytes) : consumer.bytes[i] = Frame(m)[i]
      BY <2>1, <2>4, <3>1, ConsumerCopies
    <3>4. SizeOf(consumer.bytes) = Len(m)
      BY <2>4, <3>2, <3>3, FrameReadExact DEF HeaderRead
    <3>5. Len(m) <= OutSize
      BY FastQueueAssumption
    <3> DEFINE d == Minus(write_[1], Latest(read_))
               f == Len(Frame(m))
    <3>6. write_[1] \in Cursor /\ 1 \in 1 .. Len(write_) /\ Latest(read_) \in Cursor
      BY <2>1, CursorsOK
    <3>7. d # 0 /\ d \in 0 .. Wrap - 1
      BY <3>2, <3>6, MinusZero, MinusType
    <3>8. d \in B
      BY <3>1, <3>6 DEF Layout, Published
    <3>9. \A l \in B : l > 0 => l >= 0 + f
      BY <3>3 DEF FrameAt
    <3>10. f = kHeader + Len(m) /\ f \in Nat
      BY FrameLen
    <3> HIDE DEF d, f
    <3>11. d >= f
      BY <3>7, <3>8, <3>9, <3>10
    <3>12. d \in Nat /\ f <= d
      BY <3>7, <3>10, <3>11
    <3> QED BY <3>2, <3>4, <3>5, <3>10, <3>12 DEF d
  <2> QED BY <2>2, <2>3, <2>4 DEF QueueIntact
<1> QED BY <1>1, Inductive, PTL

-----------------------------------------------------------------------------
(* The messages in the ring                                                 *)

(* The equation of Parsed.                                                  *)
IsParse(p, ring, to, n) ==
  p = [k \in 0 .. n |->
        IF k < kHeader THEN <<>>
        ELSE LET length == SizeOf(Bytes(ring, to, k, kHeader))
             IN  IF kHeader + length > k THEN <<NoMessage>>
                 ELSE <<Bytes(ring, to, k - kHeader, length)>> \o p[k - kHeader - length]]

(* What a parse may find.                                                   *)
Piece == Seq(Byte) \cup {NoMessage}

(* Bytes of the ring are a sequence of bytes.                               *)
LEMMA BytesType ==
  ASSUME NEW ring \in [0 .. capacity_ - 1 -> Byte], NEW to \in Cursor,
         NEW k \in Nat, k < Wrap, NEW length \in 0 .. k
  PROVE  /\ Bytes(ring, to, k, length) \in Seq(Byte)
         /\ Len(Bytes(ring, to, k, length)) = length
<1>1. ASSUME NEW j \in 1 .. length
      PROVE  ring[offset(Plus(to, Wrap - (k - j + 1)))] \in Byte
  <2>1. Wrap - (k - j + 1) \in Nat
    BY CapacityBelowWrap
  <2>2. offset(Plus(to, Wrap - (k - j + 1))) \in 0 .. capacity_ - 1
    BY <2>1, OffsetPlus
  <2> QED BY <2>2
<1>2. Bytes(ring, to, k, length) \in [1 .. length -> Byte]
  BY <1>1 DEF Bytes
<1> DEFINE s == Bytes(ring, to, k, length)
<1>3. length \in Nat /\ s \in [1 .. length -> Byte]
  BY <1>2
<1> HIDE DEF s
<1> QED BY <1>3 DEF s

(* The bytes can be cut in one way or another, whatever they are.           *)
LEMMA ParseExists ==
  ASSUME NEW ring \in [0 .. capacity_ - 1 -> Byte], NEW to \in Cursor,
         NEW n \in Nat, n < Wrap
  PROVE  \E p : IsParse(p, ring, to, n)
<1> DEFINE X == Seq(Piece)
           length(k) == SizeOf(Bytes(ring, to, k, kHeader))
           value(k, g) == IF k < kHeader THEN <<>>
                          ELSE IF kHeader + length(k) > k THEN <<NoMessage>>
                          ELSE <<Bytes(ring, to, k - kHeader, length(k))>>
                               \o g[k - kHeader - length(k)]
           step == [k \in 0 .. n |-> [g \in [0 .. n -> X] |-> value(k, g)]]
<1>1. kHeader \in Nat \ {0}
  BY ConstantFacts
<1>2. ASSUME NEW k \in 0 .. n, ~(k < kHeader)
      PROVE  length(k) \in Nat
  <2>1. k \in Nat /\ k < Wrap /\ kHeader \in 0 .. k
    BY <1>1, <1>2, CapacityBelowWrap
  <2>2. /\ Bytes(ring, to, k, kHeader) \in Seq(Byte)
        /\ Len(Bytes(ring, to, k, kHeader)) = kHeader
    BY <2>1, BytesType
  <2> DEFINE s == Bytes(ring, to, k, kHeader)
  <2>3. s \in Seq(Byte) /\ Len(s) = kHeader
    BY <2>2
  <2> HIDE DEF s
  <2>4. HasHeader(s)
    BY <2>3 DEF HasHeader
  <2>5. SizeOf(s) \in Nat
    BY <2>4, SizeOfType
  <2> QED BY <2>5 DEF s
<1>3. ASSUME NEW k \in 0 .. n, ~(k < kHeader), ~(kHeader + length(k) > k)
      PROVE  /\ k - kHeader - length(k) \in 0 .. k - 1
             /\ Bytes(ring, to, k - kHeader, length(k)) \in Seq(Byte)
  <2>1. length(k) \in Nat
    BY <1>2, <1>3
  <2> HIDE DEF length
  <2>2. /\ k - kHeader - length(k) \in 0 .. k - 1
        /\ k - kHeader \in Nat /\ k - kHeader < Wrap /\ length(k) \in 0 .. k - kHeader
    BY <1>1, <1>3, <2>1, CapacityBelowWrap
  <2> QED BY <2>2, BytesType
<1>4. ASSUME NEW k \in 0 .. n, NEW g \in [0 .. n -> X]
      PROVE  value(k, g) \in X
  <2>1. CASE k < kHeader
    BY <2>1
  <2>2. CASE ~(k < kHeader) /\ kHeader + length(k) > k
    <3>1. value(k, g) = <<NoMessage>>
      BY <2>2
    <3>2. NoMessage \in Piece
      BY DEF Piece
    <3> HIDE DEF value
    <3> QED BY <3>1, <3>2
  <2>3. CASE ~(k < kHeader) /\ ~(kHeader + length(k) > k)
    <3> DEFINE s == Bytes(ring, to, k - kHeader, length(k))
               rest == g[k - kHeader - length(k)]
    <3>1. value(k, g) = <<s>> \o rest
      BY <2>3
    <3>2. k - kHeader - length(k) \in 0 .. n /\ s \in Piece
      BY <1>3, <2>3 DEF Piece
    <3> HIDE DEF s, length, value
    <3>3. rest \in Seq(Piece)
      BY <3>2
    <3> HIDE DEF rest
    <3>4. <<s>> \in Seq(Piece)
      BY <3>2
    <3>5. <<s>> \o rest \in Seq(Piece)
      BY <3>3, <3>4
    <3> QED BY <3>1, <3>5
  <2> QED BY <2>1, <2>2, <2>3
<1>5. ASSUME NEW k \in 0 .. n, NEW g \in [0 .. n -> X], NEW h \in [0 .. n -> X],
             \A j \in 0 .. k - 1 : g[j] = h[j]
      PROVE  value(k, g) = value(k, h)
  <2>1. CASE k < kHeader \/ kHeader + length(k) > k
    <3> HIDE DEF length
    <3> QED BY <2>1
  <2>2. CASE ~(k < kHeader) /\ ~(kHeader + length(k) > k)
    <3>1. k - kHeader - length(k) \in 0 .. k - 1
      BY <1>3, <2>2
    <3> HIDE DEF length
    <3> QED BY <1>5, <3>1
  <2> QED BY <2>1, <2>2
<1> HIDE DEF value, X
<1>6. LooksBack(step, n, X)
  BY <1>4, <1>5 DEF LooksBack
<1>7. <<>> \in X
  BY DEF X
<1> HIDE DEF step
<1>8. PICK f \in [0 .. n -> X] : \A k \in 0 .. n : f[k] = step[k][f]
  BY <1>6, <1>7, CourseOfValues
<1>9. \A k \in 0 .. n : f[k] = value(k, f)
  BY <1>8 DEF step
<1>10. f = [k \in 0 .. n |-> value(k, f)]
  BY <1>9
<1>11. IsParse(f, ring, to, n)
  BY <1>10, Zenon DEF IsParse, value, length
<1> QED BY <1>11

(* So Parsed satisfies its equation.                                        *)
LEMMA ParsedIs ==
  ASSUME NEW ring \in [0 .. capacity_ - 1 -> Byte], NEW to \in Cursor,
         NEW n \in Nat, n < Wrap
  PROVE  \E p : IsParse(p, ring, to, n) /\ Parsed(ring, to, n) = p[n]
<1>1. \E p : IsParse(p, ring, to, n)
  BY ParseExists
<1> QED BY <1>1, Zenon DEF IsParse, Parsed

(* Going back from a cursor is going on from one before it.                 *)
LEMMA PlusBack ==
  ASSUME NEW from \in Cursor, NEW u \in Nat, u < Wrap, NEW e \in 0 .. u
  PROVE  Plus(Plus(from, u), Wrap - e) = Plus(from, u - e)
<1> DEFINE x == from + u
<1>1. Wrap \in Nat \ {0} /\ from \in 0 .. Wrap - 1
  BY ConstantFacts DEF Cursor
<1>2. CASE x < Wrap
  <2>1. Plus(from, u) = x
    BY <1>1, <1>2 DEF Plus
  <2> QED BY <1>1, <1>2, <2>1 DEF Plus
<1>3. CASE x >= Wrap
  <2>1. Plus(from, u) = x - Wrap
    BY <1>1, <1>3 DEF Plus
  <2> QED BY <1>1, <1>3, <2>1 DEF Plus
<1> QED BY <1>1, <1>2, <1>3

(* Bytes counted from the end of the ring's contents and from its start.    *)
LEMMA BytesFrom ==
  ASSUME NEW ring, NEW from \in Cursor, NEW u \in Nat, u < Wrap,
         NEW k \in 0 .. u, NEW length \in 0 .. k, NEW j \in 1 .. length
  PROVE  Bytes(ring, Plus(from, u), k, length)[j] = ring[offset(Plus(from, (u - k) + j - 1))]
<1> DEFINE e == k - j + 1
<1>1. e \in 0 .. u /\ u - e = (u - k) + j - 1
  OBVIOUS
<1> HIDE DEF e
<1>2. Plus(Plus(from, u), Wrap - e) = Plus(from, u - e)
  BY <1>1, PlusBack
<1>3. Bytes(ring, Plus(from, u), k, length)[j] = ring[offset(Plus(Plus(from, u), Wrap - e))]
  BY DEF Bytes, e
<1> QED BY <1>1, <1>2, <1>3

(* p parses the last n of the u bytes after a cursor.                       *)
Parses(p, ring, from, u, n) == n \in Nat /\ IsParse(p, ring, Plus(from, u), n)

(* b is a boundary among the last n of u bytes.                             *)
Reached(b, B, u, n) == B \subseteq 0 .. u /\ b \in B /\ u - b <= n

(* At b a parse finds m and goes on at the next boundary.                   *)
Finds(p, u, B, b, m) ==
  /\ b + Len(Frame(m)) \in B /\ b + Len(Frame(m)) > b
  /\ p[u - b] = <<m>> \o p[u - (b + Len(Frame(m)))]

(* At a boundary, a parse finds the message whose frame lies there.         *)
LEMMA ParseStep ==
  ASSUME NEW ring, NEW from \in Cursor, NEW u \in Nat, u < Wrap,
         NEW B, NEW b, NEW m \in Messages, FrameAt(ring, from, B, b, m),
         NEW n, NEW p, Parses(p, ring, from, u, n), Reached(b, B, u, n)
  PROVE  Finds(p, u, B, b, m)
<1> DEFINE k == u - b
           f == Len(Frame(m))
           to == Plus(from, u)
           header == Bytes(ring, to, k, kHeader)
           payload == Bytes(ring, to, k - kHeader, Len(m))
<1>0. n \in Nat /\ B \subseteq 0 .. u /\ b \in B /\ u - b <= n
  BY DEF Parses, Reached
<1>1. /\ b \in Nat /\ kHeader \in Nat \ {0} /\ Len(m) \in Nat /\ f = kHeader + Len(m) /\ f > 0
      /\ m \in Seq(Byte) /\ \A j \in 1 .. Len(m) : Frame(m)[kHeader + j] = m[j]
  BY <1>0, ConstantFacts, FrameLen, FrameFacts
<1>2. b + f \in B /\ b + f \in 0 .. u
  BY <1>0 DEF FrameAt
<1>3. \A i \in 1 .. f : ring[offset(Plus(from, b + i - 1))] = Frame(m)[i]
  BY DEF FrameAt, Stored
<1> DEFINE l == Len(m)
<1> HIDE DEF l, f
<1>4. /\ k \in 0 .. u /\ k \in 0 .. n /\ kHeader \in 0 .. k /\ k - kHeader \in 0 .. u
      /\ l \in 0 .. k - kHeader /\ u - k = b /\ ~(k < kHeader) /\ ~(kHeader + l > k)
      /\ k - kHeader - l = u - (b + f) /\ b + f > b
      /\ u - (k - kHeader) = b + kHeader
  <2>1. /\ b \in Nat /\ kHeader \in Nat \ {0} /\ l \in Nat /\ f = kHeader + l /\ f > 0
        /\ b + f \in 0 .. u /\ n \in Nat /\ u - b <= n
    BY <1>0, <1>1, <1>2 DEF l
  <2>2. b + f <= u /\ f \in Nat
    BY <2>1
  <2>3. k \in Nat /\ k <= u /\ k <= n /\ f <= k /\ u - k = b
    BY <2>1, <2>2
  <2>4. k - kHeader - l = u - (b + f) /\ u - (k - kHeader) = b + kHeader
    BY <2>1, <2>2
  <2> HIDE DEF k
  <2> QED BY <2>1, <2>2, <2>3, <2>4
<1> HIDE DEF k, to
<1>5. \A j \in 1 .. kHeader : header[j] = Frame(m)[j]
  <2> TAKE j \in 1 .. kHeader
  <2>1. header[j] = ring[offset(Plus(from, (u - k) + j - 1))]
    BY <1>4, BytesFrom DEF to
  <2>2. j \in 1 .. f
    BY <1>1 DEF l
  <2> QED BY <1>3, <1>4, <2>1, <2>2
<1>6. SizeOf(header) = l
  <2> HIDE DEF header
  <2> QED BY <1>5, HeaderDecodes DEF l
<1>7. payload = m
  <2>1. ASSUME NEW j \in 1 .. l PROVE payload[j] = m[j]
    <3>1. payload[j] = ring[offset(Plus(from, (u - (k - kHeader)) + j - 1))]
      BY <1>4, BytesFrom DEF to, l
    <3>2. kHeader + j \in 1 .. f /\ (b + kHeader) + j - 1 = b + (kHeader + j) - 1
      BY <1>1, <2>1 DEF l
    <3>3. ring[offset(Plus(from, b + (kHeader + j) - 1))] = Frame(m)[kHeader + j]
      BY <1>3, <3>2
    <3>4. Frame(m)[kHeader + j] = m[j]
      BY <1>1 DEF l
    <3> QED BY <1>4, <3>1, <3>2, <3>3, <3>4
  <2>2. payload = [j \in 1 .. l |-> payload[j]]
    BY DEF Bytes, l
  <2>3. m = [j \in 1 .. l |-> m[j]]
    BY <1>1 DEF l
  <2> HIDE DEF payload
  <2> QED BY <2>1, <2>2, <2>3
<1>8. p[k] = IF k < kHeader THEN <<>>
             ELSE IF kHeader + SizeOf(header) > k THEN <<NoMessage>>
             ELSE <<Bytes(ring, to, k - kHeader, SizeOf(header))>> \o p[k - kHeader - SizeOf(header)]
  BY <1>4 DEF Parses, IsParse, to
<1>9. p[k] = <<payload>> \o p[k - kHeader - l]
  <2>1. payload = Bytes(ring, to, k - kHeader, l)
    BY DEF l
  <2> HIDE DEF payload, header
  <2> QED BY <1>4, <1>6, <1>8, <2>1
<1> QED BY <1>2, <1>4, <1>7, <1>9 DEF Finds, k, f

(* Nothing is left after the last boundary.                                 *)
LEMMA ParseEnd ==
  ASSUME NEW ring, NEW to, NEW n \in Nat, NEW p, IsParse(p, ring, to, n)
  PROVE  p[0] = <<>>
<1>1. 0 \in 0 .. n /\ 0 < kHeader
  BY ConstantFacts
<1> QED BY <1>1 DEF IsParse

(* What holds of the last boundary, and of each one if of a later one,      *)
(* holds of all.                                                            *)
LEMMA BoundaryInduction ==
  ASSUME NEW u \in Nat, NEW B, B \subseteq 0 .. u, NEW T, u \in T,
         \A b \in B : b # u => \E c \in B : c > b /\ (c \in T => b \in T)
  PROVE  B \subseteq T
<1> SUFFICES ASSUME NEW x \in B, x \notin T PROVE FALSE
  OBVIOUS
<1> DEFINE L == {u - b : b \in {d \in B : d \notin T}}
<1>1. L \in SUBSET Nat
  OBVIOUS
<1>2. L # {}
  OBVIOUS
<1>3. PICK y \in L : \A z \in L : y <= z
  <2> HIDE DEF L
  <2> QED BY <1>1, <1>2, LeastNatural
<1>4. PICK b \in B : b \notin T /\ y = u - b
  OBVIOUS
<1>5. b # u
  BY <1>4
<1>6. PICK c \in B : c > b /\ (c \in T => b \in T)
  BY <1>5
<1>7. u - c \in L
  BY <1>4, <1>6
<1>8. u - b <= u - c
  BY <1>3, <1>4, <1>7
<1>9. b \in Nat /\ c \in Nat
  OBVIOUS
<1> QED BY <1>6, <1>8, <1>9

(* A parse at a boundary is a sequence of messages, each at least a header  *)
(* long.                                                                    *)
LEMMA ParseMessages ==
  ASSUME NEW ring, NEW from \in Cursor, NEW u \in Nat, u < Wrap,
         NEW B, Framed(ring, from, u, B), NEW p, IsParse(p, ring, Plus(from, u), u)
  PROVE  \A b \in B : /\ p[u - b] \in Seq(Messages) /\ Len(p[u - b]) \in Nat
                      /\ kHeader * Len(p[u - b]) <= u - b
<1> DEFINE Good(b) == /\ p[u - b] \in Seq(Messages) /\ Len(p[u - b]) \in Nat
                      /\ kHeader * Len(p[u - b]) <= u - b
           T == {b \in B : Good(b)}
<1>1. B \subseteq 0 .. u /\ u \in B
  BY DEF Framed
<1>2. u \in T
  <2>1. u - u = 0 /\ p[0] = <<>>
    BY ParseEnd
  <2>2. <<>> \in Seq(Messages) /\ Len(<<>>) = 0 /\ kHeader * 0 = 0
    BY ConstantFacts
  <2>3. Good(u)
    <3> DEFINE x == p[u - u]
               y == u - u
    <3>1. x = <<>> /\ y = 0
      BY <2>1
    <3> HIDE DEF x, y
    <3>2. x \in Seq(Messages) /\ Len(x) = 0 /\ Len(x) \in Nat
      BY <2>2, <3>1
    <3>3. kHeader * Len(x) <= y
      BY <2>2, <3>1, <3>2
    <3> QED BY <3>2, <3>3 DEF x, y
  <2> HIDE DEF Good
  <2> QED BY <1>1, <2>3
<1>3. ASSUME NEW b \in B, b # u
      PROVE  \E c \in B : c > b /\ (c \in T => b \in T)
  <2>1. PICK m \in Messages : FrameAt(ring, from, B, b, m)
    BY <1>3 DEF Framed
  <2> DEFINE c == b + Len(Frame(m))
             s == p[u - c]
  <2>2. Reached(b, B, u, u) /\ Parses(p, ring, from, u, u)
    BY <1>1 DEF Reached, Parses
  <2>3. c \in B /\ c > b /\ p[u - b] = <<m>> \o s
    <3>1. Finds(p, u, B, b, m)
      BY <2>1, <2>2, ParseStep
    <3> QED BY <3>1 DEF Finds
  <2>4. b \in Nat /\ c \in Nat /\ Len(Frame(m)) = kHeader + Len(m) /\ Len(m) \in Nat
        /\ kHeader \in Nat
    BY <1>1, <2>3, FrameLen, ConstantFacts
  <2>5. ASSUME c \in T PROVE b \in T
    <3>1. s \in Seq(Messages) /\ Len(s) \in Nat /\ kHeader * Len(s) <= u - c
      BY <2>5
    <3> HIDE DEF s
    <3>2. <<m>> \o s \in Seq(Messages) /\ Len(<<m>> \o s) = 1 + Len(s)
      BY <3>1
    <3> DEFINE l == Len(s)
               g == Len(Frame(m))
    <3>3. kHeader * (1 + l) = kHeader + kHeader * l /\ kHeader * l \in Nat
      BY <2>4, <3>1
    <3>4. g \in Nat /\ g >= kHeader /\ kHeader * l <= u - (b + g)
      <4>1. g = kHeader + Len(m)
        BY <2>4
      <4> QED BY <2>4, <3>1, <4>1
    <3> HIDE DEF l, g
    <3>5. kHeader * (1 + l) <= u - b /\ 1 + l \in Nat
      BY <2>4, <3>1, <3>3, <3>4 DEF l
    <3> QED BY <2>3, <3>2, <3>5 DEF l
  <2> HIDE DEF c, T
  <2> QED BY <2>3, <2>5
<1>4. B \subseteq T
  <2> HIDE DEF T
  <2> QED BY <1>1, <1>2, <1>3, BoundaryInduction
<1> QED BY <1>4

(* p parses all of a framed ring.                                           *)
Whole(p, ring, from, u, B) ==
  /\ u \in Nat /\ u < Wrap /\ from \in Cursor
  /\ Framed(ring, from, u, B)
  /\ IsParse(p, ring, Plus(from, u), u)

(* The frames of one ring are frames of another one, which may hold more.   *)
Extends(ring, other, from, u, v, B, C) ==
  /\ v \in Nat /\ v < Wrap /\ u <= v /\ C \subseteq 0 .. v /\ B \subseteq C
  /\ \A k \in B : \A m \in Messages :
       FrameAt(ring, from, B, k, m) => FrameAt(other, from, C, k, m)

(* A parse of the last n of v bytes finds t behind the first u.             *)
EndsWith(q, other, from, u, v, n, t) ==
  /\ Parses(q, other, from, v, n)
  /\ t \in Seq(Messages) /\ v - u <= n /\ q[v - u] = t

(* q finds at every boundary within its reach what p finds, and then t.     *)
Agree(p, q, u, v, n, B, t) == \A b \in B : v - b <= n => q[v - b] = p[u - b] \o t

(* Two parses of the same frames differ by what lies behind them.           *)
LEMMA SameParse ==
  ASSUME NEW ring, NEW other, NEW from, NEW u, NEW v, NEW n, NEW B, NEW C,
         NEW p, NEW q, NEW t, Whole(p, ring, from, u, B),
         Extends(ring, other, from, u, v, B, C), EndsWith(q, other, from, u, v, n, t)
  PROVE  Agree(p, q, u, v, n, B, t)
<1>0. /\ u \in Nat /\ u < Wrap /\ from \in Cursor /\ Framed(ring, from, u, B)
      /\ IsParse(p, ring, Plus(from, u), u) /\ v \in Nat /\ v < Wrap /\ u <= v
      /\ C \subseteq 0 .. v /\ B \subseteq C /\ Parses(q, other, from, v, n) /\ n \in Nat
      /\ t \in Seq(Messages) /\ v - u <= n /\ q[v - u] = t
  BY DEF Whole, Extends, EndsWith, Parses
<1> DEFINE T == {b \in B : v - b <= n => q[v - b] = p[u - b] \o t}
<1>1. B \subseteq 0 .. u /\ u \in B
  BY <1>0 DEF Framed
<1>2. u \in T
  <2>1. u - u = 0 /\ p[0] = <<>>
    BY <1>0, ParseEnd
  <2>2. <<>> \o t = t
    BY <1>0
  <2> QED BY <1>0, <1>1, <2>1, <2>2
<1>3. ASSUME NEW b \in B, b # u
      PROVE  \E c \in B : c > b /\ (c \in T => b \in T)
  <2>1. PICK m \in Messages : FrameAt(ring, from, B, b, m)
    BY <1>0, <1>3 DEF Framed
  <2> DEFINE c == b + Len(Frame(m))
             s == p[u - c]
  <2>2. Reached(b, B, u, u) /\ Parses(p, ring, from, u, u)
    BY <1>0, <1>1 DEF Reached, Parses
  <2>3. c \in B /\ c > b /\ p[u - b] = <<m>> \o s
    <3>1. Finds(p, u, B, b, m)
      BY <1>0, <2>1, <2>2, ParseStep
    <3> QED BY <3>1 DEF Finds
  <2>4. s \in Seq(Messages)
    BY <1>0, <2>3, ParseMessages
  <2>5. ASSUME c \in T, v - b <= n PROVE q[v - b] = p[u - b] \o t
    <3>1. FrameAt(other, from, C, b, m)
      BY <2>1 DEF Extends
    <3>2. q[v - b] = <<m>> \o q[v - c]
      <4>1. Reached(b, C, v, n) /\ Parses(q, other, from, v, n)
        BY <1>0, <2>5 DEF Reached
      <4>2. Finds(q, v, C, b, m)
        BY <1>0, <3>1, <4>1, ParseStep
      <4> QED BY <4>2 DEF Finds
    <3>3. v - c <= n
      BY <1>0, <1>1, <2>3, <2>5
    <3>4. q[v - c] = s \o t
      BY <2>5, <3>3
    <3> HIDE DEF s, c
    <3>5. <<m>> \o (s \o t) = (<<m>> \o s) \o t
      BY <1>0, <2>4
    <3> QED BY <2>3, <3>2, <3>4, <3>5
  <2>6. c \in T => b \in T
    BY <2>5
  <2> HIDE DEF c, T
  <2> QED BY <2>3, <2>6
<1>4. B \subseteq T
  <2> HIDE DEF T
  <2> QED BY <1>0, <1>1, <1>2, <1>3, BoundaryInduction
<1> QED BY <1>4 DEF Agree

-----------------------------------------------------------------------------
(* FastQueue implements BoundedFifo                                         *)

(* p cuts what is in the ring into the items of the queue.                  *)
Itemises(p) ==
  IsParse(p, buffer_, Plus(Latest(read_), Used), Used) /\ itemsBar = p[Used]

(* The items are what the frames between the cursors hold.                  *)
LEMMA ItemsAre ==
  ASSUME Inv
  PROVE  /\ Used \in Nat /\ Used < Wrap /\ Latest(read_) \in Cursor
         /\ Latest(write_) = Plus(Latest(read_), Used)
         /\ \E p : Itemises(p)
<1>1. /\ Used \in Nat /\ Used < Wrap /\ Latest(read_) \in Cursor /\ Latest(write_) \in Cursor
      /\ buffer_ \in [0 .. capacity_ - 1 -> Byte]
  BY CursorsOK, CapacityBelowWrap DEF Inv, TypeOK
<1>2. Latest(write_) = Plus(Latest(read_), Used)
  BY <1>1, PlusMinus DEF Used
<1>3. \E p : IsParse(p, buffer_, Latest(write_), Used) /\ itemsBar = p[Used]
  BY <1>1, ParsedIs DEF itemsBar
<1> QED BY <1>1, <1>2, <1>3 DEF Itemises

(* They are messages, and no more than the ring has room for headers.       *)
LEMMA ItemsType ==
  ASSUME Inv
  PROVE  /\ itemsBar \in Seq(Messages) /\ Len(itemsBar) \in Nat
         /\ kHeader * Len(itemsBar) <= Used
<1>1. Used \in Nat /\ Used < Wrap /\ Latest(read_) \in Cursor
  BY ItemsAre
<1>2. PICK p : Itemises(p)
  BY ItemsAre
<1>3. PICK B : Framed(buffer_, Latest(read_), Used, B)
  BY DEF Inv, Layout
<1> DEFINE u == Used
           r == Latest(read_)
<1>4. u \in Nat /\ u < Wrap /\ r \in Cursor /\ Framed(buffer_, r, u, B)
      /\ IsParse(p, buffer_, Plus(r, u), u) /\ itemsBar = p[u]
  BY <1>1, <1>2, <1>3 DEF Itemises
<1> HIDE DEF u, r
<1>5. \A b \in B : /\ p[u - b] \in Seq(Messages) /\ Len(p[u - b]) \in Nat
                   /\ kHeader * Len(p[u - b]) <= u - b
  BY <1>4, ParseMessages
<1>6. 0 \in B /\ u - 0 = u
  BY <1>4 DEF Framed
<1>7. p[u] \in Seq(Messages) /\ Len(p[u]) \in Nat /\ kHeader * Len(p[u]) <= u
  BY <1>5, <1>6
<1> QED BY <1>4, <1>7 DEF u

(* A byte copied in is not yet an item.                                     *)
LEMMA CopyInInvisible ==
  ASSUME Inv, Inv', copy_in
  PROVE  itemsBar' = itemsBar
<1> DEFINE r == Latest(read_)
           u == Used
           ring == buffer_'
<1>1. UNCHANGED <<read_, write_>> /\ producer.pc = "copy"
      /\ producer.done < Len(Frame(producer.data))
  BY DEF copy_in
<1>2. Latest(read_') = r /\ Used' = u
  BY <1>1 DEF Used
<1>3. u \in Nat /\ u < Wrap /\ r \in Cursor /\ itemsBar \in Seq(Messages)
  BY ItemsAre, ItemsType
<1>4. PICK p : IsParse(p, buffer_, Plus(r, u), u) /\ itemsBar = p[u]
  BY ItemsAre DEF Itemises
<1>5. PICK q : IsParse(q, ring, Plus(r, u), u) /\ itemsBar' = q[u]
  <2>1. ring \in [0 .. capacity_ - 1 -> Byte]
    BY DEF Inv, TypeOK
  <2>2. Plus(r, u) \in Cursor /\ Latest(write_') = Plus(r, u)
    BY <1>1, <1>3, ItemsAre, PlusType
  <2>3. itemsBar' = Parsed(ring, Plus(r, u), u)
    BY <1>2, <2>2 DEF itemsBar
  <2> HIDE DEF ring, r, u
  <2> QED BY <1>3, <2>1, <2>2, <2>3, ParsedIs
<1>6. PICK B : Framed(buffer_, r, u, B)
  BY DEF Inv, Layout
<1>7. \A k \in 0 .. u - 1 : ring[offset(Plus(r, k))] = buffer_[offset(Plus(r, k))]
  <2> TAKE k \in 0 .. u - 1
  <2>1. /\ producer.data \in Messages /\ producer.done \in Nat
        /\ u + Len(Frame(producer.data)) <= capacity_
    BY <1>1, ProducerCopies
  <2>2. Len(Frame(producer.data)) \in Nat
    BY <2>1, FrameLen
  <2>3. k \in 0 .. capacity_ - 1 /\ k # u + producer.done
    BY <1>3, <2>1, <2>2, CapacityBelowWrap
  <2> QED BY <2>3, CopyInOutside
<1> HIDE DEF r, u, ring
<1>8. \A k \in B : \A m \in Messages : FrameAt(buffer_, r, B, k, m) => FrameAt(ring, r, B, k, m)
  BY <1>3, <1>6, <1>7, FramedBytes
<1>9. B \subseteq 0 .. u /\ u <= u /\ u - u = 0
  BY <1>3, <1>6 DEF Framed
<1>10. q[0] = <<>> /\ <<>> \in Seq(Messages)
  BY <1>3, <1>5, ParseEnd
<1>11. q[u] = p[u] \o <<>>
  <2>1. Whole(p, buffer_, r, u, B)
    BY <1>3, <1>4, <1>6 DEF Whole
  <2>2. Extends(buffer_, ring, r, u, u, B, B)
    BY <1>3, <1>8, <1>9 DEF Extends
  <2>3. EndsWith(q, ring, r, u, u, u, <<>>)
    BY <1>3, <1>5, <1>9, <1>10 DEF EndsWith, Parses
  <2>4. Agree(p, q, u, u, u, B, <<>>)
    BY <2>1, <2>2, <2>3, SameParse
  <2>5. 0 \in B /\ u - 0 = u
    BY <1>3, <1>6 DEF Framed
  <2> QED BY <1>9, <2>4, <2>5 DEF Agree
<1>12. itemsBar \o <<>> = itemsBar
  BY <1>3
<1> QED BY <1>4, <1>5, <1>11, <1>12

(* The release store of try_push appends one item, for which there is room. *)
LEMMA PublishAppends ==
  ASSUME Inv, Inv', PublishWrite
  PROVE  /\ itemsBar' = itemsBar \o <<producer.data>>
         /\ Len(itemsBar) + 1 <= capacity_ \div kHeader
<1> DEFINE r == Latest(read_)
           u == Used
           data == producer.data
           f == Len(Frame(data))
           v == u + f
<1>0. UNCHANGED <<buffer_, read_>>
  BY DEF PublishWrite
<1>1. u \in Nat /\ u < Wrap /\ r \in Cursor
  BY ItemsAre
<1>2. /\ data \in Messages /\ f \in Nat /\ f > 0 /\ Used' = v /\ v <= capacity_
      /\ Latest(write_') = Plus(r, v) /\ Stored(buffer_, r, u, data)
  BY PublishWriteFacts
<1>3. v \in Nat /\ v < Wrap
  BY <1>1, <1>2, CapacityBelowWrap
<1>4. PICK p : IsParse(p, buffer_, Plus(r, u), u) /\ itemsBar = p[u]
  BY ItemsAre DEF Itemises
<1>5. PICK q : IsParse(q, buffer_, Plus(r, v), v) /\ itemsBar' = q[v]
  <2>1. buffer_ \in [0 .. capacity_ - 1 -> Byte]
    BY DEF Inv, TypeOK
  <2>2. Plus(r, v) \in Cursor
    BY <1>1, <1>3, PlusType
  <2>3. itemsBar' = Parsed(buffer_, Plus(r, v), v)
    BY <1>0, <1>2 DEF itemsBar
  <2> HIDE DEF r, v
  <2> QED BY <1>3, <2>1, <2>2, <2>3, ParsedIs
<1>6. PICK B : Framed(buffer_, r, u, B)
  BY DEF Inv, Layout
<1>C. PICK C : C = B \cup {v}
  OBVIOUS
<1> HIDE DEF r, u, f, v
<1>7. B \subseteq 0 .. u /\ 0 \in B /\ u \in B /\ C \subseteq 0 .. v /\ B \subseteq C
      /\ v = u + f /\ u <= v /\ v - u = f /\ v - v = 0
  <2>1. B \subseteq 0 .. u /\ 0 \in B /\ u \in B
    BY <1>6 DEF Framed
  <2> QED BY <1>1, <1>2, <1>3, <1>C, <2>1 DEF v
<1>8. Extends(buffer_, buffer_, r, u, v, B, C)
  <2>1. ASSUME NEW k \in B, NEW m \in Messages, FrameAt(buffer_, r, B, k, m)
        PROVE  FrameAt(buffer_, r, C, k, m)
    <3>1. v >= u
      BY <1>1, <1>3, <1>7
    <3> QED BY <1>1, <1>3, <1>7, <1>C, <2>1, <3>1, FrameAtGrows
  <2> QED BY <1>3, <1>7, <2>1 DEF Extends
<1>9. FrameAt(buffer_, r, C, u, data)
  <2>1. u + Len(Frame(data)) \in C
    BY <1>7, <1>C DEF f
  <2>2. \A l \in C : l > u => l >= u + Len(Frame(data))
    BY <1>1, <1>2, <1>7, <1>C DEF f
  <2> QED BY <1>2, <2>1, <2>2 DEF FrameAt
<1>10. q[f] = <<data>>
  <2>1. Parses(q, buffer_, r, v, v) /\ Reached(u, C, v, v)
    BY <1>1, <1>2, <1>3, <1>5, <1>7 DEF Parses, Reached
  <2>2. Finds(q, v, C, u, data)
    BY <1>1, <1>2, <1>3, <1>9, <2>1, ParseStep
  <2>3. q[v - u] = <<data>> \o q[v - (u + f)]
    BY <2>2 DEF Finds, f
  <2>4. q[0] = <<>>
    BY <1>3, <1>5, ParseEnd
  <2>5. q[f] = <<data>> \o <<>>
    BY <1>7, <2>3, <2>4
  <2> QED BY <2>5
<1>11. q[v] = p[u] \o <<data>>
  <2>1. Whole(p, buffer_, r, u, B)
    BY <1>1, <1>4, <1>6 DEF Whole
  <2>2. EndsWith(q, buffer_, r, u, v, v, <<data>>)
    <3>1. v - u <= v
      BY <1>1, <1>2, <1>3, <1>7
    <3>2. <<data>> \in Seq(Messages)
      BY <1>2
    <3> QED BY <1>3, <1>5, <1>7, <1>10, <3>1, <3>2 DEF EndsWith, Parses
  <2>3. Agree(p, q, u, v, v, B, <<data>>)
    BY <1>8, <2>1, <2>2, SameParse
  <2>4. v - 0 = v /\ u - 0 = u /\ v - 0 <= v
    BY <1>1, <1>3
  <2> QED BY <1>7, <2>3, <2>4 DEF Agree
<1>12. Len(itemsBar) + 1 <= capacity_ \div kHeader
  <2> DEFINE l == Len(itemsBar)
             c == capacity_
             h == kHeader
  <2>1. l \in Nat /\ h * l <= u /\ c \in Nat /\ h \in Nat \ {0}
    BY ItemsType, ConstantFacts DEF u
  <2>2. f >= h
    <3>1. f = kHeader + Len(data) /\ Len(data) \in Nat
      BY <1>2, FrameLen DEF f
    <3> QED BY <2>1, <3>1
  <2>3. u + f <= c
    BY <1>2 DEF v
  <2> HIDE DEF l, c, h
  <2>4. h * (l + 1) = h * l + h /\ h * l \in Nat
    BY <2>1
  <2>5. h * (l + 1) <= c
    BY <1>1, <1>2, <2>1, <2>2, <2>3, <2>4
  <2> DEFINE d == c \div h
             e == c % h
  <2>6. d \in Nat /\ e \in 0 .. h - 1 /\ c = h * d + e
    BY <2>1, ModSplit
  <2> HIDE DEF d, e
  <2>7. l + 1 <= d
    <3>1. SUFFICES ASSUME d + 1 <= l + 1 PROVE FALSE
      BY <2>1, <2>6
    <3>2. h * (d + 1) <= h * (l + 1) /\ h * (d + 1) = h * d + h
      BY <2>1, <2>6, <3>1
    <3>3. h * d \in Nat
      BY <2>1, <2>6
    <3> QED BY <2>1, <2>4, <2>5, <2>6, <3>2, <3>3
  <2> QED BY <2>7 DEF l, d, c, h
<1> QED BY <1>4, <1>5, <1>11, <1>12

(* The release store of try_pop takes the first item into out.              *)
LEMMA PublishTakesHead ==
  ASSUME Inv, Inv', PublishRead
  PROVE  itemsBar # <<>> /\ out' = Head(itemsBar) /\ itemsBar' = Tail(itemsBar)
<1> DEFINE r == Latest(read_)
           w == Latest(write_)
           u == Used
<1>0. UNCHANGED <<buffer_, write_>> /\ TypeOK
  BY DEF PublishRead, Inv
<1>1. /\ u \in Nat /\ u < Wrap /\ r \in Cursor /\ w \in Cursor /\ w = Plus(r, u)
      /\ read_ \in Seq(Cursor) /\ u = Minus(w, r)
  BY ItemsAre, CursorsOK DEF Inv, TypeOK, Used
<1>2. PICK B \in SUBSET (0 .. Used) : Layout(B)
  BY DEF Inv
<1>3. PICK m \in Messages :
        /\ FrameAt(buffer_, r, B, 0, m)
        /\ out' = m
        /\ read_' = Append(read_, Plus(r, Len(Frame(m))))
  BY <1>0, <1>2, PublishReadFacts
<1> DEFINE f == Len(Frame(m))
           n == u - f
<1>4. Framed(buffer_, r, u, B) /\ B \subseteq 0 .. u /\ 0 \in B
  BY <1>2 DEF Layout, Framed
<1>5. f \in Nat /\ f > 0
  BY FrameLen
<1>6. f \in B
  <2>1. 0 + f \in B
    BY <1>3 DEF FrameAt
  <2> HIDE DEF f
  <2> QED BY <1>5, <2>1
<1> HIDE DEF r, w, u, f
<1>7. f <= u /\ n \in Nat /\ n < Wrap
  <2>1. f \in 0 .. u
    BY <1>4, <1>6
  <2> QED BY <1>1, <1>5, <2>1, CapacityBelowWrap
<1>8. Used' = n /\ Latest(read_') = Plus(r, f)
  <2>1. Plus(r, f) \in Cursor
    BY <1>1, <1>5, PlusType
  <2>2. Latest(read_') = Plus(r, f)
    BY <1>1, <1>3, <2>1, StoredFacts DEF f
  <2>3. Minus(r, r) = 0
    BY <1>1, MinusZero
  <2>4. Minus(Plus(r, f), r) = Minus(r, r) + f
    BY <1>1, <1>5, <1>7, <2>3, CapacityBelowWrap, PlusMoves
  <2>5. Minus(Plus(r, f), r) = f
    BY <1>5, <2>3, <2>4
  <2>6. Minus(w, r) = Minus(Plus(r, f), r) + Minus(w, Plus(r, f))
    BY <1>1, <1>7, <2>1, <2>5, MinusSplits
  <2>7. Minus(w, Plus(r, f)) \in 0 .. Wrap - 1
    BY <1>1, <2>1, MinusType
  <2>8. Minus(w, Plus(r, f)) = u - f
    BY <1>1, <1>5, <2>5, <2>6, <2>7
  <2> QED BY <1>0, <2>2, <2>8 DEF Used, w
<1>9. PICK p : IsParse(p, buffer_, Plus(r, u), u) /\ itemsBar = p[u]
  BY ItemsAre DEF Itemises, r, u
<1>10. PICK q : IsParse(q, buffer_, Plus(r, u), n) /\ itemsBar' = q[n]
  <2>1. buffer_ \in [0 .. capacity_ - 1 -> Byte]
    BY <1>0 DEF TypeOK
  <2>2. Plus(r, u) \in Cursor
    BY <1>1
  <2>3. itemsBar' = Parsed(buffer_, Plus(r, u), n)
    BY <1>0, <1>1, <1>8 DEF itemsBar, w
  <2> HIDE DEF n
  <2> QED BY <1>7, <2>1, <2>2, <2>3, ParsedIs
<1>11. p[u] = <<m>> \o p[n]
  <2>1. Parses(p, buffer_, r, u, u) /\ Reached(0, B, u, u)
    BY <1>1, <1>4, <1>9 DEF Parses, Reached
  <2>2. Finds(p, u, B, 0, m)
    BY <1>1, <1>3, <2>1, ParseStep
  <2>3. p[u - 0] = <<m>> \o p[u - (0 + f)]
    BY <2>2 DEF Finds, f
  <2>4. u - 0 = u /\ u - (0 + f) = n
    BY <1>1, <1>5
  <2> QED BY <2>3, <2>4
<1>12. p[n] \in Seq(Messages)
  BY <1>1, <1>4, <1>6, <1>9, ParseMessages
<1>13. q[n] = p[n]
  <2>1. Whole(p, buffer_, r, u, B)
    BY <1>1, <1>4, <1>9 DEF Whole
  <2>2. u <= u /\ u - u = 0 /\ 0 <= n
    BY <1>1, <1>7
  <2>3. Extends(buffer_, buffer_, r, u, u, B, B)
    BY <1>1, <1>4, <2>2 DEF Extends
  <2>4. q[0] = <<>> /\ <<>> \in Seq(Messages)
    BY <1>7, <1>10, ParseEnd
  <2>5. EndsWith(q, buffer_, r, u, u, n, <<>>)
    BY <1>7, <1>10, <2>2, <2>4 DEF EndsWith, Parses
  <2>6. Agree(p, q, u, u, n, B, <<>>)
    BY <2>1, <2>3, <2>5, SameParse
  <2>7. n <= n
    BY <1>7
  <2>8. q[n] = p[n] \o <<>>
    BY <1>6, <2>6, <2>7 DEF Agree
  <2> HIDE DEF n
  <2> QED BY <1>12, <2>8
<1> DEFINE s == p[n]
<1>14. s \in Seq(Messages) /\ itemsBar = <<m>> \o s /\ itemsBar' = s /\ out' = m
  BY <1>3, <1>9, <1>10, <1>11, <1>12, <1>13
<1> HIDE DEF s
<1>15. <<m>> \o s # <<>> /\ Head(<<m>> \o s) = m /\ Tail(<<m>> \o s) = s
  BY <1>14
<1> QED BY <1>14, <1>15

(* The initial states of the queue are initial states of the FIFO.          *)
LEMMA InitRefines == Init => Fifo!Init
<1> SUFFICES ASSUME Init PROVE Fifo!Init
  OBVIOUS
<1>1. Inv
  BY InitInv
<1>2. Latest(read_) = 0 /\ Latest(write_) = 0
  BY DEF Init, Latest, Last
<1>3. 0 \in Cursor
  BY ConstantFacts DEF Cursor
<1>4. Used = 0
  BY <1>2, <1>3, MinusZero DEF Used
<1>5. PICK p : IsParse(p, buffer_, Plus(Latest(read_), Used), Used) /\ itemsBar = p[Used]
  BY <1>1, ItemsAre DEF Itemises
<1>6. 0 \in Nat
  OBVIOUS
<1>7. p[0] = <<>>
  BY <1>4, <1>5, <1>6, ParseEnd
<1> QED BY <1>4, <1>5, <1>7 DEF Fifo!Init, Init, offeredBar, Idle

(* What is not in the ring or in a cursor is not in the items.              *)
LEMMA ItemsUntouched ==
  ASSUME buffer_' = buffer_, Latest(write_') = Latest(write_), Latest(read_') = Latest(read_)
  PROVE  itemsBar' = itemsBar
<1>1. Used' = Used
  BY DEF Used
<1> QED BY <1>1 DEF itemsBar

(* Every step of the queue is a step of the FIFO, or none.                  *)
LEMMA NextRefines ==
  ASSUME Inv, Inv', [Next]_vars
  PROVE  [Fifo!Next]_(Fifo!vars)
<1> USE DEF Fifo!vars
<1>0. TypeOK /\ read_ \in Seq(Cursor) /\ write_ \in Seq(Cursor)
  BY DEF Inv, TypeOK
<1>1. ASSUME NEW data \in Messages, Push(data) PROVE [Fifo!Next]_(Fifo!vars)
  <2>1. PICK i \in DOMAIN read_ : read_' = Loaded(read_, i)
    BY <1>1 DEF Push
  <2>2. itemsBar' = itemsBar
    BY <1>0, <1>1, <2>1, LoadedFacts, ItemsUntouched DEF Push
  <2>3. producer = Idle /\ out' = out
        /\ (producer' = Idle \/ producer' = [pc |-> "copy", data |-> data, done |-> 0])
    BY <1>1 DEF Push
  <2>4. CASE producer' = Idle
    BY <2>2, <2>3, <2>4 DEF offeredBar
  <2>5. CASE producer' = [pc |-> "copy", data |-> data, done |-> 0]
    <3>1. producer'.pc = "copy" /\ Idle.pc = "idle"
      BY <2>5 DEF Idle
    <3>2. producer' # Idle /\ producer'.data = data
      BY <2>5, <3>1
    <3>3. offeredBar = <<>> /\ offeredBar' = <<data>> /\ <<data>> \in Seq(Messages)
      BY <2>3, <3>2 DEF offeredBar
    <3>4. Fifo!Offer
      BY <2>2, <2>3, <3>3 DEF Fifo!Offer
    <3> QED BY <3>4 DEF Fifo!Next
  <2> QED BY <2>3, <2>4, <2>5
<1>2. CASE copy_in
  <2>1. itemsBar' = itemsBar
    BY <1>2, CopyInInvisible
  <2>2. producer.pc = "copy" /\ out' = out
        /\ producer' = [producer EXCEPT !.done = producer.done + 1]
    BY <1>2 DEF copy_in
  <2>3. producer \in [pc : {"copy"}, data : Messages, done : Nat]
    BY <2>2, ProducerCopies
  <2>4. producer'.pc = "copy" /\ producer'.data = producer.data
    BY <2>2, <2>3
  <2>5. offeredBar' = offeredBar
    BY <2>2, <2>4 DEF offeredBar, Idle
  <2> QED BY <2>1, <2>2, <2>5
<1>3. CASE PublishWrite
  <2>1. /\ itemsBar' = itemsBar \o <<producer.data>>
        /\ Len(itemsBar) + 1 <= capacity_ \div kHeader
    BY <1>3, PublishAppends
  <2>2. producer.pc = "copy" /\ producer' = Idle /\ out' = out
    BY <1>3 DEF PublishWrite
  <2>3. offeredBar = <<producer.data>> /\ offeredBar' = <<>>
    BY <2>2 DEF offeredBar, Idle
  <2>4. Len(offeredBar) = 1
    BY <2>3
  <2>5. Fifo!Accept
    BY <2>1, <2>2, <2>3, <2>4 DEF Fifo!Accept
  <2> QED BY <2>5 DEF Fifo!Next
<1>4. CASE Pop
  <2>1. PICK i \in DOMAIN write_ : write_' = Loaded(write_, i)
    BY <1>4 DEF Pop
  <2>2. itemsBar' = itemsBar
    BY <1>0, <1>4, <2>1, LoadedFacts, ItemsUntouched DEF Pop
  <2> QED BY <1>4, <2>2 DEF Pop, offeredBar
<1>5. CASE copy_out
  <2>1. itemsBar' = itemsBar
    BY <1>5, ItemsUntouched DEF copy_out
  <2> QED BY <1>5, <2>1 DEF copy_out, offeredBar
<1>6. CASE PublishRead
  <2>1. itemsBar # <<>> /\ out' = Head(itemsBar) /\ itemsBar' = Tail(itemsBar)
    BY <1>6, PublishTakesHead
  <2>2. offeredBar' = offeredBar
    BY <1>6 DEF PublishRead, offeredBar
  <2>3. Fifo!Deliver
    BY <2>1, <2>2 DEF Fifo!Deliver
  <2> QED BY <2>3 DEF Fifo!Next
<1>7. CASE UNCHANGED vars
  <2>1. itemsBar' = itemsBar
    BY <1>7, ItemsUntouched DEF vars
  <2> QED BY <1>7, <2>1 DEF vars, offeredBar
<1> QED BY <1>1, <1>2, <1>3, <1>4, <1>5, <1>6, <1>7 DEF Next, ProducerRuns, ConsumerRuns

(* FastQueue is a lossless bounded FIFO: every message try_push accepts is  *)
(* popped whole, in order and once, wherever its header or its payload      *)
(* wraps round the ring, with loads that may be late.                       *)
THEOREM FastQueueIsFifo == Spec => Delivers
<1>1. Inv /\ Inv' /\ [Next]_vars => [Fifo!Next]_(Fifo!vars)
  BY NextRefines
<1> QED BY <1>1, InitRefines, Inductive, PTL DEF Spec, Delivers, Fifo!Spec
=============================================================================
