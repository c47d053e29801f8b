-------------------------- MODULE InductionLemmas --------------------------
(***************************************************************************)
(* Induction over the natural numbers in a form that names a set instead   *)
(* of a predicate, and what the proofs need of it: the pigeonhole          *)
(* principle for sequences without repetition, functions defined by        *)
(* recursion, and facts about division.                                    *)
(***************************************************************************)
EXTENDS Integers, Sequences, Functions, FunctionTheorems, WellFoundedInduction, TLAPS

(* Every non-empty set of natural numbers has a least element.              *)
LEMMA LeastNatural ==
  ASSUME NEW T \in SUBSET Nat, T # {}
  PROVE  \E x \in T : \A y \in T : x <= y
<1> DEFINE R == OpToRel(<, Nat)
<1>1. IsWellFoundedOn(R, Nat)
  BY NatLessThanWellFounded
<1>2. \A x, y \in Nat : x < y => <<x, y>> \in R
  BY DEF OpToRel
<1> HIDE DEF R
<1>3. \E x \in T : \A y \in T : ~(<<y, x>> \in R)
  BY <1>1, WFMin
<1>4. PICK x \in T : \A y \in T : ~(<<y, x>> \in R)
  BY <1>3
<1>5. \A y \in T : x <= y
  <2> TAKE y \in T
  <2>1. ~(y < x)
    BY <1>2, <1>4
  <2> QED BY <2>1
<1> QED BY <1>5

(* A set that holds 0 and the successor of each of its members is Nat.      *)
LEMMA NatSetInduction ==
  ASSUME NEW T \in SUBSET Nat, 0 \in T, \A n \in T : n + 1 \in T
  PROVE  T = Nat
<1>1. SUFFICES ASSUME Nat \ T # {} PROVE FALSE
  OBVIOUS
<1>2. PICK x \in Nat \ T : \A y \in Nat \ T : x <= y
  <2>1. Nat \ T \in SUBSET Nat
    OBVIOUS
  <2> QED BY <1>1, <2>1, LeastNatural
<1>3. x # 0 /\ x - 1 \in Nat
  OBVIOUS
<1>4. x - 1 \in T
  BY <1>2, <1>3
<1> QED BY <1>3, <1>4

(* The same over an interval: a set that holds its least element, and with  *)
(* every member but the last the next one, holds all of the interval.       *)
LEMMA IntervalInduction ==
  ASSUME NEW a \in Nat, NEW b \in Nat, NEW T, a <= b => a \in T,
         \A k \in a .. b : k \in T /\ k + 1 <= b => k + 1 \in T
  PROVE  a .. b \subseteq T
<1> DEFINE U == {n \in Nat : a + n <= b => a + n \in T}
<1>1. 0 \in U
  OBVIOUS
<1>2. ASSUME NEW n \in U PROVE n + 1 \in U
  <2> SUFFICES ASSUME a + (n + 1) <= b PROVE a + (n + 1) \in T
    BY <1>2
  <2>1. a + n \in a .. b /\ a + n \in T
    BY <1>2
  <2>2. (a + n) + 1 \in T
    BY <2>1
  <2> QED BY <2>2
<1>3. U = Nat
  <2>1. U \in SUBSET Nat
    OBVIOUS
  <2> HIDE DEF U
  <2> QED BY <1>1, <1>2, <2>1, NatSetInduction
<1>4. ASSUME NEW k \in a .. b PROVE k \in T
  <2>1. k - a \in Nat /\ a + (k - a) = k /\ k <= b
    OBVIOUS
  <2>2. k - a \in U
    <3> HIDE DEF U
    <3> QED BY <1>3, <2>1
  <2> QED BY <2>1, <2>2
<1> QED BY <1>4

(* m distinct values among n leave m no larger than n.                      *)
LEMMA Pigeonhole ==
  ASSUME NEW m \in Nat, NEW n \in Nat, NEW f \in [1 .. m -> 1 .. n],
         \A i, j \in 1 .. m : f[i] = f[j] => i = j
  PROVE  m <= n
<1>1. f \in Injection(1 .. m, 1 .. n)
  BY DEF Injection, IsInjective
<1>2. ExistsInjection(1 .. m, 1 .. n)
  BY <1>1, Fun_ExistsInj
<1> QED BY <1>2, Fun_NatInjLeq

(* A sequence of n steps from a can be followed: what a recursive function  *)
(* on 0 .. n needs to be well defined.                                      *)
LEMMA RecursionExists ==
  ASSUME NEW S, NEW a \in S, NEW n \in Nat, NEW step \in [1 .. n -> [S -> S]]
  PROVE  \E f \in [0 .. n -> S] : f[0] = a /\ \A k \in 1 .. n : f[k] = step[k][f[k - 1]]
<1> DEFINE Is(f, m) == /\ f \in [0 .. m -> S] /\ f[0] = a
                       /\ \A k \in 1 .. m : f[k] = step[k][f[k - 1]]
           T == {m \in Nat : m <= n => \E f : Is(f, m)}
<1>1. 0 \in T
  <2> DEFINE f == [k \in 0 .. 0 |-> a]
  <2>1. Is(f, 0)
    OBVIOUS
  <2> HIDE DEF Is, f
  <2> QED BY <2>1
<1>2. ASSUME NEW m \in T PROVE m + 1 \in T
  <2> SUFFICES ASSUME m + 1 <= n PROVE \E f : Is(f, m + 1)
    <3> HIDE DEF Is
    <3> QED BY <1>2
  <2>1. PICK f : Is(f, m)
    BY <1>2
  <2>2. m \in Nat /\ m + 1 \in 1 .. n
    BY <1>2
  <2>3. f[m] \in S /\ step[m + 1][f[m]] \in S
    BY <2>1, <2>2
  <2> DEFINE g == [k \in 0 .. m + 1 |-> IF k = m + 1 THEN step[m + 1][f[m]] ELSE f[k]]
  <2>4. \A k \in 0 .. m + 1 : k = m + 1 \/ k \in 0 .. m
    BY <2>2
  <2>5. g \in [0 .. m + 1 -> S] /\ g[0] = a
    BY <2>1, <2>2, <2>3, <2>4
  <2>6. ASSUME NEW k \in 1 .. m + 1 PROVE g[k] = step[k][g[k - 1]]
    <3>1. k - 1 \in 0 .. m /\ k - 1 \in 0 .. m + 1 /\ k - 1 # m + 1 /\ k \in 0 .. m + 1
      BY <2>2
    <3>2. g[k - 1] = f[k - 1]
      BY <3>1
    <3>3. CASE k = m + 1
      <4>1. g[k] = step[m + 1][f[m]] /\ k - 1 = m
        BY <2>2, <3>1, <3>3
      <4> HIDE DEF g
      <4> QED BY <3>2, <3>3, <4>1
    <3>4. CASE k # m + 1
      <4>1. k \in 1 .. m /\ g[k] = f[k]
        BY <2>2, <3>1, <3>4
      <4>2. f[k] = step[k][f[k - 1]]
        BY <2>1, <4>1
      <4> HIDE DEF g
      <4> QED BY <3>2, <4>1, <4>2
    <3> QED BY <3>3, <3>4
  <2>7. Is(g, m + 1)
    <3> HIDE DEF g
    <3> QED BY <2>5, <2>6
  <2> HIDE DEF Is, g
  <2> QED BY <2>7
<1>3. T = Nat
  <2>1. T \in SUBSET Nat
    OBVIOUS
  <2> HIDE DEF T
  <2> QED BY <1>1, <1>2, <2>1, NatSetInduction
<1>4. \E f : Is(f, n)
  <2> HIDE DEF Is
  <2> QED BY <1>3
<1> QED BY <1>4

(* One step for each of 1 .. n.                                             *)
Steps(step, n, S) == step \in [1 .. n -> [S -> S]]

(* f starts at a, and each of its values is a step from the one before.     *)
Follows(f, step, n, S, a) ==
  f \in [0 .. n -> S] /\ f[0] = a /\ \A k \in 1 .. n : f[k] = step[k][f[k - 1]]

(* RecursionExists in these terms.                                          *)
LEMMA RecursionFollows ==
  ASSUME NEW S, NEW a \in S, NEW n \in Nat, NEW step, Steps(step, n, S)
  PROVE  \E f : Follows(f, step, n, S, a)
<1>1. step \in [1 .. n -> [S -> S]]
  BY DEF Steps
<1>2. \E f \in [0 .. n -> S] : f[0] = a /\ \A k \in 1 .. n : f[k] = step[k][f[k - 1]]
  BY <1>1, RecursionExists
<1> QED BY <1>2 DEF Follows

(* Steps that each only use the values before it.                           *)
LooksBack(step, n, X) ==
  /\ step \in [0 .. n -> [[0 .. n -> X] -> X]]
  /\ \A k \in 0 .. n : \A g, h \in [0 .. n -> X] :
       (\A j \in 0 .. k - 1 : g[j] = h[j]) => step[k][g] = step[k][h]

(* The same when a value depends on all the values before it.               *)
LEMMA CourseOfValues ==
  ASSUME NEW X, NEW x \in X, NEW n \in Nat, NEW step, LooksBack(step, n, X)
  PROVE  \E f \in [0 .. n -> X] : \A k \in 0 .. n : f[k] = step[k][f]
<1> DEFINE S == [0 .. n -> X]
           a == [k \in 0 .. n |-> x]
           m == n + 1
           put == [i \in 1 .. m |-> [g \in S |-> [g EXCEPT ![i - 1] = step[i - 1][g]]]]
<1>1. m \in Nat /\ a \in S
  OBVIOUS
<1>2. put \in [1 .. m -> [S -> S]]
  <2> SUFFICES ASSUME NEW i \in 1 .. m, NEW g \in S
               PROVE  [g EXCEPT ![i - 1] = step[i - 1][g]] \in S
    OBVIOUS
  <2>1. i - 1 \in 0 .. n
    OBVIOUS
  <2>2. step[i - 1][g] \in X
    BY <2>1 DEF LooksBack
  <2> QED BY <2>1, <2>2
<1>3. PICK h \in [0 .. m -> S] : h[0] = a /\ \A i \in 1 .. m : h[i] = put[i][h[i - 1]]
  <2> HIDE DEF S, a, m, put
  <2>1. Steps(put, m, S)
    BY <1>2 DEF Steps
  <2>2. \E h : Follows(h, put, m, S, a)
    BY <1>1, <2>1, RecursionFollows
  <2> QED BY <2>2 DEF Follows
<1>4. ASSUME NEW i \in 0 .. n
      PROVE  /\ h[i] \in S /\ h[i + 1] \in S
             /\ h[i + 1] = [h[i] EXCEPT ![i] = step[i][h[i]]]
  <2>1. i + 1 \in 1 .. m /\ i + 1 \in 0 .. m /\ i \in 0 .. m /\ (i + 1) - 1 = i
    OBVIOUS
  <2>2. h[i] \in S /\ h[i + 1] \in S
    BY <2>1
  <2>3. h[i + 1] = put[i + 1][h[i]]
    <3> HIDE DEF put, m
    <3> QED BY <1>3, <2>1
  <2>4. put[i + 1][h[i]] = [h[i] EXCEPT ![i] = step[i][h[i]]]
    BY <2>1, <2>2
  <2> QED BY <2>2, <2>3, <2>4
<1>5. ASSUME NEW k \in 0 .. n
      PROVE  \A i \in k + 1 .. m : h[i][k] = h[k + 1][k]
  <2> DEFINE T == {i \in k + 1 .. m : h[i][k] = h[k + 1][k]}
  <2>1. k + 1 \in T
    OBVIOUS
  <2>2. ASSUME NEW i \in k + 1 .. m, i \in T, i + 1 <= m PROVE i + 1 \in T
    <3>1. i \in 0 .. n /\ i # k /\ i + 1 \in k + 1 .. m
      BY <2>2
    <3>2. h[i] \in S /\ h[i + 1] = [h[i] EXCEPT ![i] = step[i][h[i]]]
      BY <1>4, <3>1
    <3>3. h[i + 1][k] = h[i][k]
      BY <3>1, <3>2
    <3> QED BY <2>2, <3>1, <3>3
  <2>3. k + 1 \in Nat /\ m \in Nat
    OBVIOUS
  <2> HIDE DEF T, m
  <2>4. k + 1 .. m \subseteq T
    BY <2>1, <2>2, <2>3, IntervalInduction
  <2> QED BY <2>4 DEF T
<1>6. ASSUME NEW k \in 0 .. n PROVE h[m][k] = step[k][h[m]]
  <2>1. h[k] \in S /\ h[m] \in S
    BY <1>1
  <2>2. h[m][k] = h[k + 1][k]
    BY <1>5
  <2>3. h[k + 1][k] = step[k][h[k]]
    BY <1>4, <2>1
  <2>4. ASSUME NEW j \in 0 .. k - 1 PROVE h[k][j] = h[m][j]
    <3>1. j \in 0 .. n /\ k \in j + 1 .. m /\ m \in j + 1 .. m
      OBVIOUS
    <3> QED BY <1>5, <3>1
  <2>5. step[k][h[k]] = step[k][h[m]]
    <3> HIDE DEF m
    <3> QED BY <2>1, <2>4 DEF LooksBack
  <2> QED BY <2>2, <2>3, <2>5
<1>7. h[m] \in S
  BY <1>1
<1> QED BY <1>6, <1>7

-----------------------------------------------------------------------------
(* Division                                                                 *)

(* Division by a positive number.                                           *)
LEMMA ModSplit ==
  ASSUME NEW a \in Nat, NEW n \in Nat \ {0}
  PROVE  /\ a \div n \in Nat
         /\ a % n \in 0 .. n - 1
         /\ a = n * (a \div n) + (a % n)
  OBVIOUS

(* A remainder is what is left below the divisor.                           *)
LEMMA ModUnique ==
  ASSUME NEW n \in Nat \ {0}, NEW q \in Nat, NEW r \in 0 .. n - 1
  PROVE  (n * q + r) % n = r
  OBVIOUS

(* Numbers less than n apart have different remainders.                     *)
LEMMA ModClose ==
  ASSUME NEW a \in Nat, NEW b \in Nat, NEW n \in Nat \ {0},
         a % n = b % n, a <= b, b - a < n
  PROVE  a = b
<1> DEFINE p == a \div n
           q == b \div n
<1>1. p \in Nat /\ q \in Nat /\ a = n * p + (a % n) /\ b = n * q + (b % n)
  BY ModSplit
<1> HIDE DEF p, q
<1>2. b - a = n * q - n * p
  BY <1>1
<1>3. CASE q <= p
  <2>1. n * q <= n * p
    BY <1>1, <1>3
  <2> QED BY <1>1, <1>2, <2>1
<1>4. CASE q >= p + 1
  <2>1. n * q >= n * (p + 1) /\ n * (p + 1) = n * p + n
    BY <1>1, <1>4
  <2> QED BY <1>1, <1>2, <2>1
<1> QED BY <1>1, <1>3, <1>4

(* A remainder by w keeps the remainder by a divisor n of w.                *)
LEMMA ModMod ==
  ASSUME NEW a \in Nat, NEW n \in Nat \ {0}, NEW w \in Nat \ {0}, w % n = 0
  PROVE  (a % w) % n = a % n
<1> DEFINE q == a \div w
           r == a % w
           z == w \div n
           p == r \div n
           e == r % n
<1>1. q \in Nat /\ r \in Nat /\ a = w * q + r
  BY ModSplit
<1>2. z \in Nat /\ w = n * z
  <2>1. z \in Nat /\ w = n * z + (w % n)
    BY ModSplit
  <2> HIDE DEF z
  <2> QED BY <2>1
<1> HIDE DEF q, r, z
<1>3. p \in Nat /\ e \in 0 .. n - 1 /\ r = n * p + e
  BY <1>1, ModSplit
<1> HIDE DEF p, e
<1>4. a = n * (z * q + p) + e
  <2>1. w * q = n * (z * q)
    BY <1>1, <1>2
  <2>2. z * q \in Nat
    BY <1>1, <1>2
  <2>3. n * (z * q + p) = n * (z * q) + n * p
    BY <1>3, <2>2
  <2> QED BY <1>1, <1>3, <2>1, <2>2, <2>3
<1>5. z * q + p \in Nat
  BY <1>1, <1>2, <1>3
<1>6. a % n = e
  BY <1>3, <1>4, <1>5, ModUnique
<1> QED BY <1>6 DEF e, r

(* The remainder by b * w, from that by w and the digit above it.           *)
LEMMA ModDigit ==
  ASSUME NEW a \in Nat, NEW w \in Nat \ {0}, NEW b \in Nat \ {0}
  PROVE  a % (b * w) = (a % w) + ((a \div w) % b) * w
<1> DEFINE q == a \div w
           r == a % w
           p == q \div b
           d == q % b
<1>1. q \in Nat /\ r \in 0 .. w - 1 /\ a = w * q + r
  BY ModSplit
<1> HIDE DEF q, r
<1>2. p \in Nat /\ d \in 0 .. b - 1 /\ q = b * p + d
  BY <1>1, ModSplit
<1> HIDE DEF p, d
<1>3. b * w \in Nat \ {0}
  <2>1. b * w >= w
    OBVIOUS
  <2> QED BY <2>1
<1>4. r + d * w \in 0 .. b * w - 1
  <2>1. d * w \in Nat /\ d * w <= (b - 1) * w
    BY <1>2
  <2>2. (b - 1) * w = b * w - w
    OBVIOUS
  <2> QED BY <1>1, <1>3, <2>1, <2>2
<1>5. a = (b * w) * p + (r + d * w)
  <2>1. w * (b * p + d) = (b * w) * p + d * w
    BY <1>2
  <2> QED BY <1>1, <1>2, <2>1
<1>6. a % (b * w) = r + d * w
  BY <1>2, <1>3, <1>4, <1>5, ModUnique
<1> QED BY <1>6 DEF r, d, q
=============================================================================
