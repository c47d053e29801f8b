--------------------- MODULE BranchlessLowerBoundProofs ---------------------
(***************************************************************************)
(* branchless_lower_bound is correct for every sorted range, every value   *)
(* and both comparators.  The argument is the loop invariant Bracketed:    *)
(* probing position first + half decides, because the range is sorted, for *)
(* everything on one side of it.                                           *)
(***************************************************************************)
EXTENDS BranchlessLowerBound, TLAPS

(* What a probe settles: if the probed key is ordered before the value so  *)
(* is every key to its left, and otherwise no key to its right is.         *)
LEMMA ProbeDecides ==
  ASSUME NEW s \in Seq(Int), Sorted(s), NEW v \in Int, NEW m \in DOMAIN s
  PROVE  /\ comp(s[m], v) => \A j \in 1 .. m : comp(s[j], v)
         /\ ~comp(s[m], v) => \A j \in m .. Len(s) : ~comp(s[j], v)
<1>1. /\ Len(s) \in Nat /\ DOMAIN s = 1 .. Len(s)
      /\ \A j \in 1 .. Len(s) : s[j] \in Int
  OBVIOUS
<1>2. ASSUME NEW j \in 1 .. m, comp(s[m], v) PROVE comp(s[j], v)
  <2>1. j = m \/ ~comp(s[m], s[j])
    BY <1>1 DEF Sorted
  <2>2. s[j] \in Int /\ s[m] \in Int
    BY <1>1
  <2> QED BY <1>2, <2>1, <2>2 DEF comp
<1>3. ASSUME NEW j \in m .. Len(s), ~comp(s[m], v) PROVE ~comp(s[j], v)
  <2>1. j = m \/ ~comp(s[j], s[m])
    BY <1>1 DEF Sorted
  <2>2. s[j] \in Int /\ s[m] \in Int
    BY <1>1
  <2> QED BY <1>3, <2>1, <2>2 DEF comp
<1> QED BY <1>2, <1>3

(* The conjunction that is inductive: the window stays inside the range    *)
(* and brackets the lower bound.                                           *)
IInv == TypeOK /\ Bracketed

(* The search starts with the whole range as its window.                    *)
LEMMA InitEstablishes == Init => IInv
  BY SearchAssumption DEF Init, IInv, TypeOK, Bracketed

(* One iteration of the loop keeps the window inside the range and          *)
(* bracketing the value.                                                    *)
LEMMA StepPreserves == IInv /\ [Next]_vars => IInv'
<1> SUFFICES ASSUME IInv, [Next]_vars PROVE IInv'
  OBVIOUS
<1> USE DEF IInv
<1>1. CASE Step
  <2> DEFINE half == length \div 2
             probe == first + half + 1
  <2>0. /\ keys' = keys /\ value' = value
        /\ Len(keys) \in Nat
    BY <1>1, SearchAssumption DEF TypeOK, Step
  <2>1. /\ keys \in Seq(Int) /\ Sorted(keys) /\ value \in Int
        /\ keys' = keys /\ value' = value
    BY <1>1, SearchAssumption DEF TypeOK, Step
  <2>2. /\ half \in Nat /\ half < length /\ half <= length - half
        /\ length <= 2 * half + 1
    BY <1>1 DEF TypeOK, Step
  <2>3. probe \in DOMAIN keys
    BY <2>1, <2>2 DEF TypeOK
  <2>4. /\ comp(keys[probe], value) => \A j \in 1 .. probe : comp(keys[j], value)
        /\ ~comp(keys[probe], value)
             => \A j \in probe .. Len(keys) : ~comp(keys[j], value)
    BY <2>1, <2>3, ProbeDecides
  <2>5. CASE comp(keys[probe], value)
    <3>1. first' = first + (length - half) /\ length' = half
      BY <1>1, <2>5 DEF Step
    <3>2. /\ first' \in Nat /\ length' \in Nat
          /\ first' + length' = first + length
          /\ first' <= probe
      BY <2>2, <3>1 DEF TypeOK
    <3>3. TypeOK'
      BY <2>0, <3>2 DEF TypeOK
    <3>4. \A j \in 1 .. first' : comp(keys[j], value)
      BY <2>2, <2>4, <2>5, <3>2 DEF TypeOK
    <3>5. \A j \in first' + length' + 1 .. Len(keys) : ~comp(keys[j], value)
      BY <3>2 DEF Bracketed
    <3>6. Bracketed'
      BY <2>0, <3>4, <3>5 DEF Bracketed, comp
    <3> QED BY <3>3, <3>6
  <2>6. CASE ~comp(keys[probe], value)
    <3>1. first' = first /\ length' = half
      BY <1>1, <2>6 DEF Step
    <3>2. /\ first' \in Nat /\ length' \in Nat
          /\ first' + length' + 1 = probe
      BY <2>2, <3>1 DEF TypeOK
    <3>3. TypeOK'
      <4>1. first' + length' <= Len(keys)
        BY <2>0, <2>2, <3>1 DEF TypeOK
      <4> QED BY <2>0, <3>2, <4>1 DEF TypeOK
    <3>4. \A j \in 1 .. first' : comp(keys[j], value)
      BY <3>1 DEF Bracketed
    <3>5. \A j \in first' + length' + 1 .. Len(keys) : ~comp(keys[j], value)
      BY <2>4, <2>6, <3>2
    <3>6. Bracketed'
      BY <2>0, <3>4, <3>5 DEF Bracketed, comp
    <3> QED BY <3>3, <3>6
  <2> QED BY <2>5, <2>6
<1>2. CASE UNCHANGED vars
  BY <1>2 DEF vars, TypeOK, Bracketed, comp
<1> QED BY <1>1, <1>2 DEF Next

(* So every iteration does.                                                 *)
LEMMA Inductive == Spec => []IInv
<1> QED BY InitEstablishes, StepPreserves, PTL DEF Spec

(* The search never probes outside [begin, end), whatever the range.       *)
THEOREM MemorySafe == Spec => []TypeOK
<1>1. IInv => TypeOK
  BY DEF IInv
<1> QED BY <1>1, Inductive, PTL

(* The loop invariant holds for every range: left of the window everything *)
(* is ordered before the value, right of it nothing is.                    *)
THEOREM WindowBrackets == Spec => []Bracketed
<1>1. IInv => Bracketed
  BY DEF IInv
<1> QED BY <1>1, Inductive, PTL

(* Whenever the loop has ended, the returned position is the lower bound.  *)
THEOREM Correct == Spec => []ReturnsLowerBound
<1>1. IInv => ReturnsLowerBound
  <2> SUFFICES ASSUME IInv, length = 0
               PROVE  IsLowerBound(keys, value, first)
    BY DEF ReturnsLowerBound
  <2>1. Len(keys) \in Nat
    BY SearchAssumption DEF IInv, TypeOK
  <2> QED BY <2>1 DEF IInv, TypeOK, Bracketed, IsLowerBound
<1> QED BY <1>1, Inductive, PTL

=============================================================================
