------------------------- MODULE ParseScaledProofs -------------------------
(***************************************************************************)
(* parse_scaled reads no character past the end of its text, accepts       *)
(* exactly the numerals and converts every one whose magnitude fits, for   *)
(* every text, precision, base and int64_t.                                *)
(***************************************************************************)
EXTENDS ParseScaled, InductionLemmas

(* The number of characters of the sign.                                    *)
Start == IF text[1] \in {Plus, Minus} THEN 1 ELSE 0

(* The scan is before the point: digits only, and none is fractional.       *)
Integral ==
  /\ \A k \in Start + 1 .. i : is_digit(text[k])
  /\ any_digit <=> i > Start
  /\ consumed = 0

(* The scan is past the point at p: digits only apart from it; the first    *)
(* `decimals` of those after it have been consumed.                         *)
FractionalAt(p) ==
  /\ text[p] = Point
  /\ \A k \in Start + 1 .. i : k # p => is_digit(text[k])
  /\ IF i - p <= decimals THEN consumed = i - p ELSE consumed = decimals
  /\ any_digit <=> p > Start + 1 \/ consumed > 0

Fractional == \E p \in Start + 1 .. i : FractionalAt(p)

(* What the scan knows of the text wherever it is.                          *)
ScanInv ==
  /\ pc = "enter" => ~any_digit /\ consumed = 0
  /\ pc \in {"integer", "fraction", "pad"} => decimals >= 0 /\ text # <<>>
  /\ pc \in {"integer", "fraction"} => i >= Start
  /\ pc = "integer" => Integral
  /\ pc = "fraction" => Fractional
  /\ pc = "pad" => (any_digit <=> WellFormed(text, decimals))
  /\ RejectsMalformed

IInv == TypeOK /\ ScanInv

-----------------------------------------------------------------------------
(* The characters                                                           *)

LEMMA ComputedType ==
  ASSUME NEW n, NEW m \in Computed(n)
  PROVE  m \in Int64
BY DEF Computed

LEMMA ZeroType == 0 \in Int64
BY ScaledAssumption DEF Int64

(* A point is no digit.                                                     *)
LEMMA PointIsNoDigit == ~is_digit(Point)
BY ScaledAssumption DEF is_digit, Point

LEMMA UnsignedPositions ==
  ASSUME TypeOK, text # <<>>
  PROVE  /\ Unsigned(text) = Start + 1 .. Len(text)
         /\ Start \in {0, 1}
         /\ Start <= Len(text)
BY DEF Unsigned, Start, TypeOK

-----------------------------------------------------------------------------
(* The shapes of a text                                                     *)

(* Neither a digit nor a point: the text is no numeral.                     *)
LEMMA BadCharacter ==
  ASSUME NEW k \in Unsigned(text), ~is_digit(text[k]), ~FirstPoint(text, k)
  PROVE  ~WellFormed(text, decimals)
BY DEF WellFormed

(* Digits only: a numeral if there is one.                                  *)
LEMMA DigitsOnly ==
  ASSUME TypeOK, text # <<>>, decimals >= 0, Integral, AtEnd
  PROVE  any_digit <=> WellFormed(text, decimals)
<1>1. \A k \in Unsigned(text) : is_digit(text[k])
  BY UnsignedPositions DEF Integral, AtEnd
<1>2. \A k \in Unsigned(text) : Kept(text, decimals, k)
  BY <1>1, PointIsNoDigit DEF Kept
<1>3. any_digit <=> \E k \in Unsigned(text) : TRUE
  <2>1. any_digit <=> Len(text) > Start
    BY DEF Integral, AtEnd, TypeOK
  <2>2. Len(text) > Start <=> Start + 1 \in Unsigned(text)
    BY UnsignedPositions DEF TypeOK
  <2>3. ASSUME NEW k \in Unsigned(text)
        PROVE  Len(text) > Start
    BY UnsignedPositions DEF TypeOK
  <2> QED BY <2>1, <2>2, <2>3
<1> QED BY <1>1, <1>2, <1>3 DEF WellFormed

(* Digits around one point: a numeral if there is one before the point or,  *)
(* with a precision above zero, after it.                                   *)
LEMMA DigitsAndPoint ==
  ASSUME TypeOK, text # <<>>, decimals >= 0, Fractional, AtEnd
  PROVE  any_digit <=> WellFormed(text, decimals)
<1>1. PICK p \in Start + 1 .. i : FractionalAt(p)
  BY DEF Fractional
<1>2. /\ Unsigned(text) = Start + 1 .. Len(text)
      /\ i = Len(text) /\ i \in Nat /\ Start \in {0, 1}
      /\ p \in Unsigned(text) /\ p \in Int /\ text[p] = Point
  BY <1>1, UnsignedPositions DEF AtEnd, TypeOK, FractionalAt
<1>3. \A k \in Unsigned(text) : k # p => is_digit(text[k]) /\ text[k] # Point
  BY <1>1, <1>2, PointIsNoDigit DEF FractionalAt
<1>4. FirstPoint(text, p)
  BY <1>2, <1>3 DEF FirstPoint
<1>5. \A k \in Unsigned(text) : Kept(text, decimals, k) <=> (p < k => k - p <= decimals)
  BY <1>2, <1>3 DEF Kept
<1>6. any_digit <=> \E k \in Unsigned(text) : k # p /\ (p < k => k - p <= decimals)
  <2>1. ASSUME any_digit
        PROVE  \E k \in Unsigned(text) : k # p /\ (p < k => k - p <= decimals)
    <3>1. CASE p > Start + 1
      BY <3>1, <1>2
    <3>2. CASE consumed > 0
      <4>1. p + 1 <= i /\ 1 <= decimals
        BY <3>2, <1>1, <1>2 DEF FractionalAt, TypeOK
      <4> QED BY <4>1, <1>2
    <3> QED BY <2>1, <3>1, <3>2, <1>1 DEF FractionalAt
  <2>2. ASSUME NEW k \in Unsigned(text), k # p, p < k => k - p <= decimals
        PROVE  any_digit
    <3>1. p > Start + 1 \/ consumed > 0
      BY <2>2, <1>1, <1>2 DEF FractionalAt, TypeOK
    <3> QED BY <3>1, <1>1 DEF FractionalAt
  <2> QED BY <2>1, <2>2
<1>7. \A k \in Unsigned(text) : is_digit(text[k]) <=> k # p
  BY <1>2, <1>3, PointIsNoDigit
<1> QED BY <1>4, <1>5, <1>6, <1>7 DEF WellFormed

-----------------------------------------------------------------------------
(* The invariant                                                            *)

LEMMA InitEstablishes == Init => IInv
<1> SUFFICES ASSUME Init PROVE IInv
  OBVIOUS
<1>1. text \in Seq(Chars) /\ decimals \in Int /\ i \in 0 .. Len(text)
  BY ScaledAssumption DEF Init
<1>2. negative \in BOOLEAN /\ any_digit \in BOOLEAN /\ ~any_digit
  BY Zenon DEF Init
<1>3. /\ pc = "enter" /\ consumed \in Nat /\ consumed = 0 /\ value \in Int64
      /\ result \in [ok : BOOLEAN, value : Int64]
  BY ZeroType DEF Init, Error
<1> QED BY <1>1, <1>2, <1>3 DEF IInv, TypeOK, ScanInv, RejectsMalformed

(* Nothing but the locals changes once the arguments are known.             *)
LEMMA ArgumentsKept ==
  ASSUME [Next]_vars
  PROVE  text' = text /\ decimals' = decimals /\ Start' = Start
BY DEF Next, vars, args, Enter, IntegerDigit, IntegerEnd, FractionDigit,
       TrailingDigit, FractionEnd, NoDigits, PadZero, Return, Returned, Start

(* The scan never reads past the end, and every value fits an int64_t.      *)
LEMMA StepPreservesType == TypeOK /\ [Next]_vars => TypeOK'
<1> SUFFICES ASSUME TypeOK, [Next]_vars PROVE TypeOK'
  OBVIOUS
<1>0. text' = text /\ decimals' = decimals
  BY ArgumentsKept
<1>1. ASSUME Fail PROVE TypeOK'
  BY <1>0, <1>1, ZeroType DEF Fail, TypeOK, Error, locals
<1>2. CASE Enter
  <2>1. CASE decimals >= 0 /\ text # <<>>
    <3>1. /\ negative' = (text[1] = Minus)
          /\ i' = IF text[1] \in {Plus, Minus} THEN 1 ELSE 0
          /\ pc' = "integer"
          /\ UNCHANGED <<value, any_digit, consumed, result>>
      BY <1>2, <2>1 DEF Enter, TypeOK
    <3>2. negative' \in BOOLEAN
      BY <3>1, Zenon
    <3>3. i' \in 0 .. Len(text)
      BY <2>1, <3>1 DEF TypeOK
    <3> QED BY <1>0, <3>1, <3>2, <3>3 DEF TypeOK
  <2> QED BY <1>1, <1>2, <2>1 DEF Enter
<1>3. ASSUME NEW f \in {0, 1}, Digit(f), i # Len(text) PROVE TypeOK'
  <2>1. CASE is_digit(Char)
    <3>1. value' \in Int64
      BY <1>3, <2>1, ComputedType DEF Digit, Fail
    <3> QED BY <1>0, <1>3, <2>1, <3>1 DEF Digit, TypeOK
  <2> QED BY <1>1, <1>3, <2>1 DEF Digit
<1>4. CASE IntegerDigit
  BY <1>3, <1>4 DEF IntegerDigit, AtEnd
<1>5. CASE IntegerEnd
  BY <1>0, <1>5 DEF IntegerEnd, AtEnd, TypeOK
<1>6. CASE FractionDigit
  BY <1>3, <1>6 DEF FractionDigit, AtEnd
<1>7. CASE TrailingDigit
  <2>1. CASE is_digit(Char)
    BY <1>0, <1>7, <2>1 DEF TrailingDigit, AtEnd, TypeOK
  <2> QED BY <1>1, <1>7, <2>1 DEF TrailingDigit
<1>8. CASE FractionEnd
  BY <1>0, <1>8 DEF FractionEnd, TypeOK, locals
<1>9. CASE NoDigits
  BY <1>1, <1>9 DEF NoDigits
<1>10. CASE PadZero
  <2>1. value' \in Int64
    BY <1>10, ComputedType DEF PadZero
  <2> QED BY <1>0, <1>10, <2>1 DEF PadZero, TypeOK
<1>11. CASE Return
  <2>1. PICK n \in IF negative THEN Computed(-value) ELSE {value} : result' = Ok(n)
    BY <1>11 DEF Return
  <2>2. n \in Int64
    BY <2>1, ComputedType DEF TypeOK
  <2> QED BY <1>0, <1>11, <2>1, <2>2 DEF Return, TypeOK, Ok, locals
<1>12. CASE Returned \/ UNCHANGED vars
  BY <1>12 DEF Returned, vars, args, locals, TypeOK
<1> QED BY <1>2, <1>4, <1>5, <1>6, <1>7, <1>8, <1>9, <1>10, <1>11, <1>12 DEF Next

(* A rejected text is no numeral.                                           *)
LEMMA FailPreserves ==
  ASSUME text' = text, decimals' = decimals, Fail, ~WellFormed(text, decimals)
  PROVE  ScanInv'
BY DEF Fail, ScanInv, RejectsMalformed, Error

(* The character looked at is one of the text's.                            *)
LEMMA CharPosition ==
  ASSUME TypeOK, text # <<>>, i >= Start, ~AtEnd
  PROVE  i + 1 \in Unsigned(text) /\ Char = text[i + 1] /\ i + 1 \in 1 .. Len(text)
BY UnsignedPositions DEF TypeOK, AtEnd, Char

(* Every step keeps what the scan knows.                                    *)
LEMMA StepPreservesScan == IInv /\ [Next]_vars => ScanInv'
<1> SUFFICES ASSUME TypeOK, ScanInv, [Next]_vars PROVE ScanInv'
  BY DEF IInv
<1>0. text' = text /\ decimals' = decimals /\ Start' = Start
  BY ArgumentsKept
<1>1. CASE Enter
  <2>1. CASE decimals < 0 \/ text = <<>>
    <3>1. ~WellFormed(text, decimals)
      BY <2>1 DEF WellFormed, Unsigned, TypeOK
    <3>2. Fail
      BY <1>1, <2>1 DEF Enter, TypeOK
    <3> QED BY <1>0, <3>1, <3>2, FailPreserves
  <2>2. CASE decimals >= 0 /\ text # <<>>
    <3>1. /\ pc' = "integer" /\ i' = Start
          /\ any_digit' = any_digit /\ consumed' = consumed
      BY <1>1, <2>2 DEF Enter, Start, TypeOK
    <3>2. ~any_digit /\ consumed = 0
      BY <1>1 DEF Enter, ScanInv
    <3>3. ~any_digit' /\ consumed' = 0 /\ Start \in {0, 1}
      BY <3>1, <3>2 DEF Start
    <3>4. Integral'
      BY <1>0, <3>1, <3>3 DEF Integral
    <3> QED BY <1>0, <2>2, <3>1, <3>3, <3>4 DEF ScanInv, RejectsMalformed
  <2> QED BY <2>1, <2>2 DEF TypeOK
<1>2. CASE IntegerDigit
  <2>1. /\ Integral /\ i >= Start /\ text # <<>> /\ decimals >= 0
        /\ pc = "integer" /\ ~AtEnd /\ Char # Point
    BY <1>2 DEF IntegerDigit, ScanInv
  <2>2. i + 1 \in Unsigned(text) /\ Char = text[i + 1]
    BY <2>1, CharPosition
  <2>3. CASE ~is_digit(Char)
    <3>1. ~WellFormed(text, decimals)
      BY <2>1, <2>2, <2>3, BadCharacter DEF FirstPoint
    <3>2. Fail
      BY <1>2, <2>3 DEF IntegerDigit, Digit
    <3> QED BY <1>0, <3>1, <3>2, FailPreserves
  <2>4. CASE is_digit(Char)
    <3>1. /\ any_digit' = TRUE /\ i' = i + 1 /\ consumed' = consumed + 0
          /\ pc' = pc
      BY <1>2, <2>4 DEF IntegerDigit, Digit
    <3>2. i \in Nat /\ consumed = 0 /\ consumed' = 0 /\ Start \in {0, 1} /\ i' >= Start
      BY <2>1, <3>1 DEF TypeOK, Integral, Start
    <3>3. \A k \in Start + 1 .. i' : is_digit(text[k])
      BY <2>1, <2>2, <2>4, <3>1, <3>2 DEF Integral
    <3>4. Integral'
      BY <1>0, <2>1, <3>1, <3>2, <3>3 DEF Integral
    <3> QED BY <1>0, <2>1, <3>1, <3>2, <3>4 DEF ScanInv, RejectsMalformed
  <2> QED BY <2>3, <2>4
<1>3. CASE IntegerEnd
  <2>1. /\ Integral /\ i >= Start /\ text # <<>> /\ decimals >= 0
        /\ any_digit' = any_digit /\ consumed' = consumed
    BY <1>3 DEF IntegerEnd, ScanInv
  <2>2. CASE AtEnd
    <3>1. pc' = "pad"
      BY <1>3, <2>2 DEF IntegerEnd
    <3>2. any_digit <=> WellFormed(text, decimals)
      BY <2>1, <2>2, DigitsOnly
    <3> QED BY <1>0, <2>1, <3>1, <3>2 DEF ScanInv, RejectsMalformed
  <2>3. CASE ~AtEnd
    <3>1. pc' = "fraction" /\ i' = i + 1 /\ Char = Point
      BY <1>3, <2>3 DEF IntegerEnd
    <3>2. i + 1 \in Unsigned(text) /\ text[i + 1] = Point /\ i \in Nat /\ Start \in {0, 1}
      BY <2>1, <2>3, <3>1, CharPosition DEF TypeOK, Start
    <3>3. PICK p \in Start + 1 .. i + 1 : p = i + 1
      BY <2>1, <3>2
    <3>4. Fractional'
      <4>1. FractionalAt(p)'
        BY <1>0, <2>1, <3>1, <3>2, <3>3 DEF FractionalAt, Integral, TypeOK
      <4> QED BY <1>0, <3>1, <3>3, <4>1 DEF Fractional
    <3> QED BY <1>0, <2>1, <3>1, <3>2, <3>4 DEF ScanInv, RejectsMalformed
  <2> QED BY <2>2, <2>3
<1>4. ASSUME pc = "fraction", ~AtEnd, ~is_digit(Char) PROVE ~WellFormed(text, decimals)
  <2>1. PICK p \in Start + 1 .. i : FractionalAt(p)
    BY <1>4 DEF ScanInv, Fractional
  <2>2. /\ i + 1 \in Unsigned(text) /\ Char = text[i + 1]
        /\ Unsigned(text) = Start + 1 .. Len(text)
        /\ i \in 0 .. Len(text) /\ Start \in {0, 1} /\ i # Len(text)
    BY <1>4, CharPosition, UnsignedPositions DEF ScanInv, TypeOK, AtEnd
  <2>3. p \in Unsigned(text) /\ p < i + 1 /\ text[p] = Point
    BY <2>1, <2>2 DEF FractionalAt
  <2> QED BY <1>4, <2>2, <2>3, BadCharacter DEF FirstPoint
<1>5. ASSUME NEW p \in Start + 1 .. i, FractionalAt(p), pc = "fraction",
             ~AtEnd, is_digit(Char), pc' = pc, i' = i + 1
      PROVE  \A k \in Start' + 1 .. i' : k # p => is_digit(text'[k])
  <2>1. Char = text[i + 1] /\ i \in Nat /\ Start \in {0, 1}
    BY <1>5 DEF Char, TypeOK, Start
  <2> QED BY <1>0, <1>5, <2>1 DEF FractionalAt
<1>6. CASE FractionDigit
  <2>1. PICK p \in Start + 1 .. i : FractionalAt(p)
    BY <1>6 DEF FractionDigit, ScanInv, Fractional
  <2>2. /\ pc = "fraction" /\ ~AtEnd /\ consumed < decimals /\ decimals >= 0
        /\ text # <<>> /\ i >= Start /\ Digit(1)
    BY <1>6 DEF FractionDigit, ScanInv
  <2>3. CASE ~is_digit(Char)
    BY <1>0, <1>4, <2>2, <2>3, FailPreserves DEF Digit
  <2>4. CASE is_digit(Char)
    <3>1. any_digit' = TRUE /\ i' = i + 1 /\ consumed' = consumed + 1 /\ pc' = pc
      BY <2>2, <2>4 DEF Digit
    <3>2. i \in Nat /\ consumed \in Nat /\ decimals \in Int /\ Start \in {0, 1}
      BY DEF TypeOK, Start
    <3>3. text'[p] = Point
      BY <1>0, <2>1 DEF FractionalAt
    <3>4. i' - p <= decimals' /\ consumed' = i' - p /\ consumed' > 0
      BY <1>0, <2>1, <2>2, <3>1, <3>2 DEF FractionalAt
    <3>5. \A k \in Start' + 1 .. i' : k # p => is_digit(text'[k])
      BY <1>5, <2>1, <2>2, <2>4, <3>1
    <3>6. FractionalAt(p)'
      BY <3>1, <3>3, <3>4, <3>5 DEF FractionalAt
    <3>7. p \in Start' + 1 .. i' /\ i' >= Start'
      BY <1>0, <2>1, <2>2, <3>1, <3>2
    <3> QED BY <1>0, <2>2, <3>1, <3>6, <3>7 DEF ScanInv, Fractional, RejectsMalformed
  <2> QED BY <2>3, <2>4
<1>7. CASE TrailingDigit
  <2>1. PICK p \in Start + 1 .. i : FractionalAt(p)
    BY <1>7 DEF TrailingDigit, ScanInv, Fractional
  <2>2. /\ pc = "fraction" /\ ~AtEnd /\ consumed >= decimals /\ decimals >= 0
        /\ text # <<>> /\ i >= Start
    BY <1>7 DEF TrailingDigit, ScanInv
  <2>3. CASE ~is_digit(Char)
    BY <1>0, <1>4, <1>7, <2>2, <2>3, FailPreserves DEF TrailingDigit
  <2>4. CASE is_digit(Char)
    <3>1. any_digit' = any_digit /\ i' = i + 1 /\ consumed' = consumed /\ pc' = pc
      BY <1>7, <2>4 DEF TrailingDigit
    <3>2. i \in Nat /\ consumed \in Nat /\ decimals \in Int /\ Start \in {0, 1}
      BY DEF TypeOK, Start
    <3>3. text'[p] = Point
      BY <1>0, <2>1 DEF FractionalAt
    <3>4. ~(i' - p <= decimals') /\ consumed' = decimals'
      BY <1>0, <2>1, <2>2, <3>1, <3>2 DEF FractionalAt
    <3>5. \A k \in Start' + 1 .. i' : k # p => is_digit(text'[k])
      BY <1>5, <2>1, <2>2, <2>4, <3>1
    <3>6. any_digit' <=> p > Start' + 1 \/ consumed' > 0
      BY <1>0, <2>1, <3>1 DEF FractionalAt
    <3>7. FractionalAt(p)'
      BY <3>3, <3>4, <3>5, <3>6 DEF FractionalAt
    <3>8. p \in Start' + 1 .. i' /\ i' >= Start'
      BY <1>0, <2>1, <2>2, <3>1, <3>2
    <3> QED BY <1>0, <2>2, <3>1, <3>7, <3>8 DEF ScanInv, Fractional, RejectsMalformed
  <2> QED BY <2>3, <2>4
<1>8. CASE FractionEnd
  <2>1. /\ AtEnd /\ Fractional /\ text # <<>> /\ decimals >= 0
        /\ pc' = "pad" /\ any_digit' = any_digit
    BY <1>8 DEF FractionEnd, ScanInv, locals
  <2>2. any_digit <=> WellFormed(text, decimals)
    BY <2>1, DigitsAndPoint
  <2> QED BY <1>0, <2>1, <2>2 DEF ScanInv, RejectsMalformed
<1>9. CASE NoDigits
  BY <1>0, <1>9, FailPreserves DEF NoDigits, ScanInv
<1>10. CASE PadZero
  BY <1>0, <1>10 DEF PadZero, ScanInv, RejectsMalformed
<1>11. CASE Return
  BY <1>0, <1>11 DEF Return, ScanInv, RejectsMalformed, Ok
<1>12. CASE Returned \/ UNCHANGED vars
  <2>1. UNCHANGED <<pc, i, any_digit, consumed, result>>
    BY <1>12 DEF Returned, vars, locals
  <2> QED BY <1>0, <2>1 DEF ScanInv, Integral, Fractional, FractionalAt, RejectsMalformed
<1> QED BY <1>1, <1>2, <1>3, <1>6, <1>7, <1>8, <1>9, <1>10, <1>11, <1>12 DEF Next

-----------------------------------------------------------------------------
(* The theorems                                                             *)

LEMMA Invariance == Spec => []IInv
<1>1. IInv /\ [Next]_vars => IInv'
  BY StepPreservesType, StepPreservesScan DEF IInv
<1> QED BY InitEstablishes, <1>1, PTL DEF Spec

(* No character past the end of the text is read and every value of the     *)
(* accumulator is an int64_t, overflow included: TypeOK is invariant.       *)
THEOREM ReadsWithinText == Spec => []TypeOK
<1>1. IInv => TypeOK
  BY DEF IInv
<1> QED BY Invariance, <1>1, PTL

(* A text is accepted exactly if it is a numeral, for texts of every        *)
(* length, every precision and any outcome of an overflow:                  *)
(* RejectsMalformed is invariant.                                           *)
THEOREM AcceptsNumerals == Spec => []RejectsMalformed
<1>1. IInv => RejectsMalformed
  BY DEF IInv, ScanInv
<1> QED BY Invariance, <1>1, PTL

-----------------------------------------------------------------------------
(* What a numeral denotes                                                   *)

(* The equation of Powers.                                                  *)
IsPowers(f, n) == f = [k \in 0 .. n |-> IF k = 0 THEN 1 ELSE Base * f[k - 1]]

(* Powers are positive, each Base times the one before.                     *)
LEMMA PowersFacts ==
  ASSUME NEW n \in Nat
  PROVE  /\ Powers(n)[0] = 1
         /\ \A k \in 1 .. n : Powers(n)[k] = Base * Powers(n)[k - 1]
         /\ \A k \in 0 .. n : Powers(n)[k] \in Nat \ {0}
<1> DEFINE S == Nat \ {0}
           step == [k \in 1 .. n |-> [p \in S |-> Base * p]]
<1>1. Base \in S
  BY ScaledAssumption
<1>2. \A p \in S : Base * p \in S
  <2> TAKE p \in S
  <2>1. Base * p \in Nat /\ Base * p >= p
    BY <1>1
  <2> QED BY <2>1
<1>3. step \in [1 .. n -> [S -> S]]
  BY <1>2
<1>4. 1 \in S
  OBVIOUS
<1>5. PICK f \in [0 .. n -> S] : f[0] = 1 /\ \A k \in 1 .. n : f[k] = step[k][f[k - 1]]
  <2> HIDE DEF S, step
  <2> QED BY <1>3, <1>4, RecursionExists
<1>6. \A k \in 1 .. n : f[k] = Base * f[k - 1]
  <2> TAKE k \in 1 .. n
  <2>1. k - 1 \in 0 .. n
    OBVIOUS
  <2>2. f[k - 1] \in S
    BY <2>1
  <2> QED BY <1>5, <2>2
<1>7. IsPowers(f, n)
  <2>1. f = [k \in 0 .. n |-> f[k]]
    OBVIOUS
  <2>2. \A k \in 0 .. n : f[k] = IF k = 0 THEN 1 ELSE Base * f[k - 1]
    BY <1>5, <1>6
  <2> QED BY <2>1, <2>2 DEF IsPowers
<1>8. IsPowers(Powers(n), n)
  <2>1. \E g : IsPowers(g, n)
    BY <1>7
  <2> QED BY <2>1, Zenon DEF IsPowers, Powers
<1> DEFINE P == Powers(n)
<1> HIDE DEF P
<1>9. P[0] = 1 /\ \A k \in 1 .. n : P[k] = Base * P[k - 1]
  BY <1>8 DEF IsPowers, P
<1> DEFINE T == {k \in 0 .. n : P[k] \in S}
<1>10. 0 .. n \subseteq T
  <2>1. 0 \in T
    BY <1>9
  <2>2. ASSUME NEW k \in 0 .. n, k \in T, k + 1 <= n PROVE k + 1 \in T
    <3>1. k + 1 \in 1 .. n /\ k + 1 \in 0 .. n /\ (k + 1) - 1 = k
      BY <2>2
    <3>2. P[k] \in S
      BY <2>2
    <3>3. P[k + 1] = Base * P[k]
      BY <1>9, <3>1
    <3> QED BY <1>2, <3>1, <3>2, <3>3
  <2> HIDE DEF T
  <2> QED BY <2>1, <2>2, IntervalInduction
<1> QED BY <1>9, <1>10 DEF P

(* The equation of Sums.                                                    *)
IsSums(f, t, d) ==
  f = [k \in 0 .. Len(t) |-> IF k = 0 THEN 0 ELSE f[k - 1] + Addend(t, d, k)]

(* No position takes away: the sums grow up to the magnitude.               *)
LEMMA SumsFacts ==
  ASSUME NEW t, NEW d, Len(t) \in Nat, \A k \in 1 .. Len(t) : Addend(t, d, k) \in Nat
  PROVE  /\ Sums(t, d)[0] = 0
         /\ \A k \in 1 .. Len(t) : Sums(t, d)[k] = Sums(t, d)[k - 1] + Addend(t, d, k)
         /\ \A k \in 0 .. Len(t) : Sums(t, d)[k] \in Nat /\ Sums(t, d)[k] <= Magnitude(t, d)
<1> DEFINE n == Len(t)
           add == [k \in 1 .. n |-> Addend(t, d, k)]
           step == [k \in 1 .. n |-> [p \in Nat |-> p + add[k]]]
<1>1. n \in Nat /\ add \in [1 .. n -> Nat]
  OBVIOUS
<1>2. step \in [1 .. n -> [Nat -> Nat]]
  <2> HIDE DEF add, n
  <2> QED BY <1>1
<1>3. 0 \in Nat
  OBVIOUS
<1>4. PICK f \in [0 .. n -> Nat] : f[0] = 0 /\ \A k \in 1 .. n : f[k] = step[k][f[k - 1]]
  <2> HIDE DEF step, n, add
  <2>1. Steps(step, n, Nat)
    BY <1>2 DEF Steps
  <2>2. \E f : Follows(f, step, n, Nat, 0)
    BY <1>1, <1>3, <2>1, RecursionFollows
  <2> QED BY <2>2 DEF Follows
<1>5. \A k \in 1 .. n : f[k] = f[k - 1] + add[k]
  <2> HIDE DEF add, n
  <2> TAKE k \in 1 .. n
  <2>1. k - 1 \in 0 .. n
    BY <1>1
  <2>2. f[k - 1] \in Nat
    BY <2>1
  <2> QED BY <1>4, <2>2
<1>6. IsSums(f, t, d)
  <2>1. f = [k \in 0 .. n |-> f[k]]
    OBVIOUS
  <2>2. \A k \in 0 .. n : f[k] = IF k = 0 THEN 0 ELSE f[k - 1] + Addend(t, d, k)
    BY <1>1, <1>4, <1>5
  <2> HIDE DEF add
  <2> QED BY <2>1, <2>2 DEF IsSums
<1>7. IsSums(Sums(t, d), t, d)
  <2>1. \E g : IsSums(g, t, d)
    BY <1>6
  <2> QED BY <2>1, Zenon DEF IsSums, Sums
<1> DEFINE P == Sums(t, d)
<1> HIDE DEF P, add, n
<1>8. \A k \in 1 .. n : add[k] = Addend(t, d, k)
  BY DEF add
<1>9. P[0] = 0 /\ \A k \in 1 .. n : P[k] = P[k - 1] + add[k]
  BY <1>1, <1>7, <1>8 DEF IsSums, P, n
<1> DEFINE T == {k \in 0 .. n : P[k] \in Nat /\ \A j \in 0 .. k : P[j] \in Nat /\ P[j] <= P[k]}
<1>10. 0 .. n \subseteq T
  <2>1. 0 \in T
    BY <1>1, <1>9
  <2>2. ASSUME NEW k \in 0 .. n, k \in T, k + 1 <= n PROVE k + 1 \in T
    <3>1. k + 1 \in 1 .. n /\ k + 1 \in 0 .. n /\ (k + 1) - 1 = k
      BY <1>1, <2>2
    <3>2. P[k] \in Nat /\ \A j \in 0 .. k : P[j] \in Nat /\ P[j] <= P[k]
      BY <2>2
    <3>3. P[k + 1] = P[k] + add[k + 1] /\ add[k + 1] \in Nat
      BY <1>1, <1>9, <3>1
    <3>4. \A j \in 0 .. k + 1 : j \in 0 .. k \/ j = k + 1
      BY <1>1
    <3>5. \A j \in 0 .. k + 1 : P[j] \in Nat /\ P[j] <= P[k + 1]
      BY <3>2, <3>3, <3>4
    <3> QED BY <3>1, <3>2, <3>3, <3>5
  <2> HIDE DEF T
  <2> QED BY <1>1, <2>1, <2>2, IntervalInduction
<1>11. n \in T
  BY <1>1, <1>10
<1>12. \A k \in 0 .. n : P[k] \in Nat /\ P[k] <= P[n]
  BY <1>11
<1>13. Magnitude(t, d) = P[n]
  BY DEF Magnitude, P, n
<1> QED BY <1>8, <1>9, <1>12, <1>13 DEF P, n

(* The characters of the sign of t.                                         *)
SignOf(t) == IF t[1] \in {Plus, Minus} THEN 1 ELSE 0

(* A text that may be a numeral.                                            *)
Numeral(t, d) == t \in Seq(Chars) /\ t # <<>> /\ d \in Nat /\ WellFormed(t, d)

LEMMA UnsignedOf ==
  ASSUME NEW t \in Seq(Chars), t # <<>>
  PROVE  /\ Unsigned(t) = SignOf(t) + 1 .. Len(t)
         /\ SignOf(t) \in {0, 1} /\ SignOf(t) <= Len(t)
BY DEF Unsigned, SignOf

(* The point of a numeral is past its sign, is the only one, and everything *)
(* else past the sign is a digit.                                           *)
LEMMA PointFacts ==
  ASSUME NEW t, NEW d, Numeral(t, d)
  PROVE  /\ PointOf(t) \in SignOf(t) + 1 .. Len(t) + 1
         /\ PointOf(t) <= Len(t) => t[PointOf(t)] = Point
         /\ \A k \in SignOf(t) + 1 .. Len(t) : k # PointOf(t) => is_digit(t[k])
<1> DEFINE s == SignOf(t)
           n == Len(t)
           points == {j \in Unsigned(t) : t[j] = Point}
<1>1. t \in Seq(Chars) /\ t # <<>> /\ WellFormed(t, d)
  BY DEF Numeral
<1>2. Unsigned(t) = s + 1 .. n /\ s \in {0, 1} /\ s <= n /\ n \in Nat
  BY <1>1, UnsignedOf
<1>3. \A k \in s + 1 .. n : is_digit(t[k]) \/ FirstPoint(t, k)
  BY <1>1, <1>2 DEF WellFormed
<1> HIDE DEF s, n
<1>4. \A j, k \in points : j = k
  <2>1. \A j, k \in points : ~(j < k)
    BY <1>2, <1>3, PointIsNoDigit DEF FirstPoint
  <2> QED BY <1>2, <2>1
<1>5. CASE points = {}
  <2>1. PointOf(t) = n + 1
    BY <1>5 DEF PointOf, n
  <2>2. \A k \in s + 1 .. n : is_digit(t[k])
    BY <1>2, <1>3, <1>5 DEF FirstPoint
  <2> QED BY <1>2, <2>1, <2>2 DEF s, n
<1>6. CASE points # {}
  <2>1. PICK q \in points : TRUE
    BY <1>6
  <2>2. q \in s + 1 .. n /\ t[q] = Point /\ q \in Int
    BY <1>2, <2>1
  <2>3. PointOf(t) = q
    <3>1. PointOf(t) = Min(points)
      BY <1>6 DEF PointOf
    <3>2. \E x \in points : \A y \in points : x <= y
      BY <1>4, <2>1, <2>2
    <3>3. Min(points) \in points
      <4> HIDE DEF points
      <4> QED BY <3>2, Zenon DEF Min
    <3> QED BY <1>4, <2>1, <3>1, <3>3
  <2>4. \A k \in s + 1 .. n : k # q => is_digit(t[k])
    BY <1>2, <1>3, <1>4, <2>1 DEF FirstPoint
  <2> QED BY <1>2, <2>2, <2>3, <2>4 DEF s, n
<1> QED BY <1>5, <1>6

(* What each position of a numeral adds: the sign and the point nothing,    *)
(* a digit its value at its place, or nothing past the precision.           *)
LEMMA AddendFacts ==
  ASSUME NEW t, NEW d, Numeral(t, d), NEW k \in 1 .. Len(t)
  PROVE  LET q == PointOf(t)
             P == Powers(Len(t) + d)
         IN  /\ k <= SignOf(t) => Addend(t, d, k) = 0
             /\ k > SignOf(t) /\ k < q => Addend(t, d, k) = t[k] * P[q - k - 1 + d]
             /\ k = q => Addend(t, d, k) = 0
             /\ k > q /\ k - q <= d => Addend(t, d, k) = t[k] * P[d - (k - q)]
             /\ k > q /\ k - q > d => Addend(t, d, k) = 0
<1> DEFINE s == SignOf(t)
           n == Len(t)
           q == PointOf(t)
<1>1. t \in Seq(Chars) /\ t # <<>> /\ d \in Nat
  BY DEF Numeral
<1>2. Unsigned(t) = s + 1 .. n /\ s \in {0, 1} /\ s <= n /\ n \in Nat
  BY <1>1, UnsignedOf
<1>3. q \in s + 1 .. n + 1 /\ (q <= n => t[q] = Point)
      /\ \A j \in s + 1 .. n : j # q => is_digit(t[j])
  BY PointFacts
<1> HIDE DEF s, n, q
<1>4. \A j \in s + 1 .. n : t[j] = Point <=> j = q
  BY <1>2, <1>3, PointIsNoDigit
<1>5. k \in s + 1 .. n => (Kept(t, d, k) <=> (k > q => k - q <= d))
  BY <1>1, <1>2, <1>3, <1>4 DEF Kept, n
<1>6. k \in 1 .. n
  BY DEF n
<1>7. k <= s => Addend(t, d, k) = 0
  BY <1>2, <1>6 DEF Addend
<1>8. k = q => Addend(t, d, k) = 0
  BY <1>2, <1>3, <1>4, <1>6, PointIsNoDigit DEF Addend
<1>9. k > q /\ k - q > d => Addend(t, d, k) = 0
  BY <1>1, <1>2, <1>3, <1>5, <1>6 DEF Addend
<1>10. ASSUME k > s, k # q, k > q => k - q <= d
       PROVE  Addend(t, d, k) = t[k] * Powers(n + d)[Place(t, k) + d]
  <2>1. k \in Unsigned(t) /\ is_digit(t[k]) /\ Kept(t, d, k)
    BY <1>2, <1>3, <1>5, <1>6, <1>10
  <2> QED BY <2>1 DEF Addend, n
<1>11. k > s /\ k < q => Addend(t, d, k) = t[k] * Powers(n + d)[q - k - 1 + d]
  <2> SUFFICES ASSUME k > s, k < q PROVE Addend(t, d, k) = t[k] * Powers(n + d)[q - k - 1 + d]
    OBVIOUS
  <2>1. Place(t, k) = q - k - 1
    BY DEF Place, q
  <2>2. k # q /\ (k > q => k - q <= d)
    BY <1>2, <1>3, <1>6
  <2> QED BY <1>10, <2>1, <2>2
<1>12. k > q /\ k - q <= d => Addend(t, d, k) = t[k] * Powers(n + d)[d - (k - q)]
  <2> SUFFICES ASSUME k > q, k - q <= d
               PROVE  Addend(t, d, k) = t[k] * Powers(n + d)[d - (k - q)]
    OBVIOUS
  <2>1. ~(k < q) /\ k # q /\ k > s /\ q \in Int /\ k \in Int
    BY <1>2, <1>3, <1>6
  <2>2. Place(t, k) = q - k
    BY <2>1 DEF Place, q
  <2>3. Place(t, k) + d = d - (k - q)
    BY <1>1, <2>1, <2>2
  <2> QED BY <1>10, <2>1, <2>3
<1> QED BY <1>7, <1>8, <1>9, <1>11, <1>12 DEF s, n, q

(* The powers a numeral uses are among those computed, its digits natural   *)
(* numbers: what a position adds is a natural number.                       *)
LEMMA AddendType ==
  ASSUME NEW t, NEW d, Numeral(t, d), NEW k \in 1 .. Len(t)
  PROVE  Addend(t, d, k) \in Nat
<1> DEFINE s == SignOf(t)
           n == Len(t)
           q == PointOf(t)
           P == Powers(Len(t) + d)
<1>1. t \in Seq(Chars) /\ t # <<>> /\ d \in Nat /\ n \in Nat /\ n + d \in Nat
  BY DEF Numeral
<1>2. s \in {0, 1} /\ s <= n
  BY <1>1, UnsignedOf
<1>3. q \in s + 1 .. n + 1 /\ \A j \in s + 1 .. n : j # q => is_digit(t[j])
  BY PointFacts
<1>4. \A j \in 0 .. n + d : P[j] \in Nat
  BY <1>1, PowersFacts
<1>5. /\ k <= s => Addend(t, d, k) = 0
      /\ k > s /\ k < q => Addend(t, d, k) = t[k] * P[q - k - 1 + d]
      /\ k = q => Addend(t, d, k) = 0
      /\ k > q /\ k - q <= d => Addend(t, d, k) = t[k] * P[d - (k - q)]
      /\ k > q /\ k - q > d => Addend(t, d, k) = 0
  BY AddendFacts
<1>6. k \in 1 .. n
  OBVIOUS
<1> HIDE DEF s, n, q, P
<1>7. k > s /\ k # q => t[k] \in Nat
  <2> SUFFICES ASSUME k > s, k # q PROVE t[k] \in Nat
    OBVIOUS
  <2>1. is_digit(t[k])
    BY <1>1, <1>2, <1>3, <1>6
  <2> QED BY <2>1, ScaledAssumption DEF is_digit
<1>8. CASE k > s /\ k < q
  <2>1. q - k - 1 + d \in 0 .. n + d
    BY <1>1, <1>2, <1>3, <1>6, <1>8
  <2>2. P[q - k - 1 + d] \in Nat /\ t[k] \in Nat
    BY <1>3, <1>4, <1>6, <1>7, <1>8, <2>1
  <2> QED BY <1>5, <1>8, <2>2
<1>9. CASE k > q /\ k - q <= d
  <2>1. d - (k - q) \in 0 .. n + d /\ k > s /\ k # q
    BY <1>1, <1>2, <1>3, <1>6, <1>9
  <2>2. P[d - (k - q)] \in Nat /\ t[k] \in Nat
    BY <1>4, <1>7, <2>1
  <2> QED BY <1>5, <1>9, <2>2
<1>10. (k > s /\ k < q) \/ (k > q /\ k - q <= d) \/ Addend(t, d, k) = 0
  BY <1>1, <1>2, <1>3, <1>5, <1>6
<1> QED BY <1>8, <1>9, <1>10

-----------------------------------------------------------------------------
(* The value of the digits read so far                                      *)

(* The numeral's magnitude fits an int64_t.                                 *)
Fits == Numeral(text, decimals) /\ Magnitude(text, decimals) <= MaxInt

(* The power of Base that counts e places.                                  *)
Power(e) == Powers(Len(text) + decimals)[e]

Total(k) == Sums(text, decimals)[k]

(* Left of the point the value still lacks the places up to it and those of *)
(* the precision; right of it, the places not consumed yet.                 *)
ExactInv ==
  Fits =>
    /\ pc = "enter" => value = 0
    /\ pc \in {"integer", "fraction", "pad"} => (negative <=> text[1] = Minus) /\ value \in Nat
    /\ pc = "integer" => value * Power(PointOf(text) - i - 1 + decimals) = Total(i)
    /\ pc \in {"fraction", "pad"} => value * Power(decimals - consumed) = Total(i)
    /\ pc = "pad" => AtEnd /\ consumed <= decimals
    /\ pc = "done" => result = Ok(Scaled(text, decimals))

(* What the proofs use of the powers and the sums of a numeral.             *)
LEMMA NumeralFacts ==
  ASSUME Fits
  PROVE  /\ text \in Seq(Chars) /\ text # <<>> /\ Len(text) \in Nat /\ decimals \in Nat
         /\ Start \in {0, 1} /\ Start <= Len(text)
         /\ PointOf(text) \in Start + 1 .. Len(text) + 1
         /\ PointOf(text) <= Len(text) => text[PointOf(text)] = Point
         /\ \A k \in Start + 1 .. Len(text) : k # PointOf(text) => is_digit(text[k])
         /\ Power(0) = 1
         /\ \A e \in 0 .. Len(text) + decimals : Power(e) \in Nat /\ Power(e) >= 1
         /\ \A e \in 1 .. Len(text) + decimals : Power(e) = Base * Power(e - 1)
         /\ Total(0) = 0 /\ Total(Len(text)) = Magnitude(text, decimals)
         /\ \A k \in 0 .. Len(text) : Total(k) \in Nat /\ Total(k) <= MaxInt
         /\ \A k \in 1 .. Len(text) : Total(k) = Total(k - 1) + Addend(text, decimals, k)
<1>1. text \in Seq(Chars) /\ text # <<>> /\ decimals \in Nat
  BY DEF Fits, Numeral
<1>2. Len(text) \in Nat /\ Len(text) + decimals \in Nat
  BY <1>1
<1>3. Start = SignOf(text)
  BY DEF Start, SignOf
<1>4. Start \in {0, 1} /\ Start <= Len(text)
  BY <1>1, <1>3, UnsignedOf
<1>5. Numeral(text, decimals) /\ Magnitude(text, decimals) <= MaxInt
  BY DEF Fits
<1>6. \A k \in 1 .. Len(text) : Addend(text, decimals, k) \in Nat
  BY <1>5, AddendType
<1>7. /\ Total(0) = 0
      /\ \A k \in 1 .. Len(text) : Total(k) = Total(k - 1) + Addend(text, decimals, k)
      /\ \A k \in 0 .. Len(text) : Total(k) \in Nat /\ Total(k) <= Magnitude(text, decimals)
  BY <1>2, <1>6, SumsFacts DEF Total
<1>8. Total(Len(text)) = Magnitude(text, decimals)
  BY DEF Total, Magnitude
<1>9. \A k \in 0 .. Len(text) : Total(k) \in Nat /\ Total(k) <= MaxInt
  <2>1. Magnitude(text, decimals) \in Nat
    BY <1>2, <1>7, <1>8
  <2> QED BY <1>5, <1>7, <2>1, ScaledAssumption
<1>10. /\ Power(0) = 1
       /\ \A e \in 0 .. Len(text) + decimals : Power(e) \in Nat /\ Power(e) >= 1
       /\ \A e \in 1 .. Len(text) + decimals : Power(e) = Base * Power(e - 1)
  BY <1>2, PowersFacts DEF Power
<1>11. /\ PointOf(text) \in Start + 1 .. Len(text) + 1
       /\ PointOf(text) <= Len(text) => text[PointOf(text)] = Point
       /\ \A k \in Start + 1 .. Len(text) : k # PointOf(text) => is_digit(text[k])
  BY <1>3, <1>5, PointFacts
<1> QED BY <1>1, <1>2, <1>4, <1>7, <1>8, <1>9, <1>10, <1>11

(* The same of what its positions add.                                      *)
LEMMA NumeralAddends ==
  ASSUME Fits, NEW k \in 1 .. Len(text)
  PROVE  /\ k <= Start => Addend(text, decimals, k) = 0
         /\ k > Start /\ k < PointOf(text)
              => Addend(text, decimals, k) = text[k] * Power(PointOf(text) - k - 1 + decimals)
         /\ k = PointOf(text) => Addend(text, decimals, k) = 0
         /\ k > PointOf(text) /\ k - PointOf(text) <= decimals
              => Addend(text, decimals, k) = text[k] * Power(decimals - (k - PointOf(text)))
         /\ k > PointOf(text) /\ k - PointOf(text) > decimals
              => Addend(text, decimals, k) = 0
<1>1. Numeral(text, decimals) /\ Start = SignOf(text)
  BY DEF Fits, Start, SignOf
<1> QED BY <1>1, AddendFacts DEF Power

(* Reading a digit: the value times its new scale is the sum with it.       *)
LEMMA HornerStep ==
  ASSUME NEW v \in Nat, NEW c \in Nat, NEW p \in Nat, p >= 1, NEW s \in Nat,
         v * (Base * p) + c * p = s, s <= MaxInt
  PROVE  /\ v * Base + c \in Nat
         /\ (v * Base + c) * p = s
         /\ Computed(v * Base + c) = {v * Base + c}
<1>1. Base \in Nat /\ MaxInt \in Nat
  BY ScaledAssumption
<1> DEFINE w == v * Base + c
<1>2. w \in Nat
  BY <1>1
<1>3. w * p = s
  <2>1. (v * Base + c) * p = v * (Base * p) + c * p
    BY <1>1
  <2> QED BY <2>1
<1> HIDE DEF w
<1>4. w <= w * p
  BY <1>2
<1>5. w \in Int64
  BY <1>1, <1>2, <1>3, <1>4 DEF Int64
<1>6. Computed(w) = {w}
  BY <1>5 DEF Computed
<1> QED BY <1>2, <1>3, <1>6 DEF w

LEMMA InitExact == Init => ExactInv
BY DEF Init, ExactInv

(* A step fails only on a text that is no numeral.                          *)
LEMMA FailsOnNonNumerals ==
  ASSUME IInv', Fail, text' = text, decimals' = decimals
  PROVE  ~Fits
<1>1. RejectsMalformed'
  BY DEF IInv, ScanInv
<1>2. pc' = "done" /\ ~result'.ok
  BY DEF Fail, Error
<1>3. ~WellFormed(text, decimals)
  BY <1>1, <1>2 DEF RejectsMalformed
<1> QED BY <1>3 DEF Fits, Numeral

LEMMA FitsKept ==
  ASSUME text' = text, decimals' = decimals
  PROVE  /\ Fits' <=> Fits
         /\ PointOf(text)' = PointOf(text)
         /\ Scaled(text, decimals)' = Scaled(text, decimals)
         /\ \A e : Power(e)' = Power(e)
         /\ \A k : Total(k)' = Total(k)
BY DEF Fits, Power, Total

(* Reading the sign.                                                        *)
LEMMA EnterExact ==
  ASSUME IInv, IInv', ExactInv, Fits, Enter
  PROVE  ExactInv'
<1>1. text' = text /\ decimals' = decimals
  BY DEF Enter, args
<1>2. ~(decimals < 0 \/ text = <<>>)
  BY NumeralFacts
<1>3. /\ pc = "enter" /\ (negative' = (text[1] = Minus)) /\ i' = Start /\ pc' = "integer"
      /\ value' = value
  BY <1>2 DEF Enter, Start
<1>4. value = 0
  BY <1>3 DEF ExactInv
<1>5. Total(Start) = 0
  <2>1. Start = 0 \/ (Start = 1 /\ 1 \in 1 .. Len(text))
    BY NumeralFacts
  <2>2. CASE Start = 1 /\ 1 \in 1 .. Len(text)
    <3>1. Addend(text, decimals, 1) = 0
      BY <2>2, NumeralAddends
    <3>2. Total(1) = Total(0) + 0 /\ Total(0) = 0
      BY <2>2, <3>1, NumeralFacts
    <3> QED BY <2>2, <3>2
  <2> QED BY <2>1, <2>2, NumeralFacts
<1> DEFINE e == PointOf(text) - Start - 1 + decimals
<1>6. e \in 0 .. Len(text) + decimals
  BY NumeralFacts
<1>7. Power(e) \in Nat
  BY <1>6, NumeralFacts
<1>8. value' * Power(e) = Total(Start)
  <2> HIDE DEF e
  <2> QED BY <1>3, <1>4, <1>5, <1>7
<1>9. value' * Power(PointOf(text) - i' - 1 + decimals) = Total(i')
  BY <1>3, <1>8
<1>10. (negative' <=> text[1] = Minus) /\ value' \in Nat
  <2>1. negative' <=> text[1] = Minus
    BY <1>3, Zenon
  <2> QED BY <1>3, <1>4, <2>1
<1> QED BY <1>1, <1>3, <1>9, <1>10, FitsKept DEF ExactInv

(* Reading a digit before the point.                                        *)
LEMMA IntegerDigitExact ==
  ASSUME IInv, IInv', ExactInv, Fits, IntegerDigit
  PROVE  ExactInv'
<1>1. text' = text /\ decimals' = decimals
  BY DEF IntegerDigit, args
<1>2. pc = "integer" /\ ~AtEnd /\ Char # Point /\ Digit(0)
  BY DEF IntegerDigit
<1>3. is_digit(Char)
  BY <1>1, <1>2, FailsOnNonNumerals DEF Digit
<1>4. /\ value' \in Computed(value * Base + Char) /\ i' = i + 1
      /\ negative' = negative /\ pc' = pc
  BY <1>2, <1>3 DEF Digit
<1> DEFINE q == PointOf(text)
<1>5. /\ (negative <=> text[1] = Minus) /\ value \in Nat
      /\ value * Power(q - i - 1 + decimals) = Total(i)
  BY <1>2 DEF ExactInv
<1>6. i \in 0 .. Len(text) /\ i # Len(text) /\ i >= Start
      /\ \A k \in Start + 1 .. i : is_digit(text[k])
  BY <1>2 DEF IInv, TypeOK, AtEnd, ScanInv, Integral
<1>7. /\ q \in Start + 1 .. Len(text) + 1 /\ (q <= Len(text) => text[q] = Point)
      /\ decimals \in Nat /\ Start \in {0, 1} /\ Len(text) \in Nat
  BY NumeralFacts
<1> HIDE DEF q
<1>8. i + 1 < q
  <2>1. q > i
    BY <1>6, <1>7, PointIsNoDigit
  <2>2. q # i + 1
    BY <1>2, <1>6, <1>7 DEF Char
  <2> QED BY <1>6, <1>7, <2>1, <2>2
<1> DEFINE e == q - (i + 1) - 1 + decimals
<1>9. e + 1 = q - i - 1 + decimals /\ e \in 0 .. Len(text) + decimals
      /\ e + 1 \in 1 .. Len(text) + decimals /\ (e + 1) - 1 = e
  BY <1>6, <1>7, <1>8
<1>10. i + 1 \in 1 .. Len(text) /\ i + 1 \in 0 .. Len(text) /\ (i + 1) - 1 = i
  BY <1>6, <1>7
<1> HIDE DEF e
<1>11. Power(e + 1) = Base * Power(e) /\ Power(e) \in Nat /\ Power(e) >= 1
  BY <1>9, NumeralFacts
<1>12. Addend(text, decimals, i + 1) = Char * Power(e)
  <2>1. q - (i + 1) - 1 + decimals = e
    BY DEF e
  <2> QED BY <1>6, <1>7, <1>8, <1>10, <2>1, NumeralAddends DEF q, Char
<1>13. Total(i + 1) = Total(i) + Char * Power(e) /\ Total(i + 1) \in Nat /\ Total(i + 1) <= MaxInt
  BY <1>10, <1>12, NumeralFacts
<1>14. Char \in Nat
  BY <1>3, ScaledAssumption DEF is_digit
<1>15. value * (Base * Power(e)) + Char * Power(e) = Total(i + 1)
  BY <1>5, <1>9, <1>11, <1>13
<1>16. /\ value * Base + Char \in Nat
       /\ (value * Base + Char) * Power(e) = Total(i + 1)
       /\ Computed(value * Base + Char) = {value * Base + Char}
  BY <1>5, <1>11, <1>13, <1>14, <1>15, HornerStep
<1>17. value' \in Nat /\ value' * Power(PointOf(text) - i' - 1 + decimals) = Total(i')
  BY <1>4, <1>16 DEF e, q
<1>18. negative' <=> text[1] = Minus
  BY <1>4, <1>5, Zenon
<1> QED BY <1>1, <1>2, <1>4, <1>17, <1>18, FitsKept DEF ExactInv

(* Reaching the point, or the end of a text without one.                    *)
LEMMA IntegerEndExact ==
  ASSUME IInv, IInv', ExactInv, Fits, IntegerEnd
  PROVE  ExactInv'
<1>1. text' = text /\ decimals' = decimals
  BY DEF IntegerEnd, args
<1>2. /\ pc = "integer" /\ value' = value /\ consumed' = consumed /\ any_digit' = any_digit
      /\ negative' = negative
  BY DEF IntegerEnd
<1> DEFINE q == PointOf(text)
<1>3. /\ (negative <=> text[1] = Minus) /\ value \in Nat
      /\ value * Power(q - i - 1 + decimals) = Total(i)
  BY <1>2 DEF ExactInv
<1>4. i \in 0 .. Len(text) /\ i >= Start /\ consumed = 0 /\ Integral
      /\ (\A k \in Start + 1 .. i : is_digit(text[k])) /\ (any_digit <=> i > Start)
  BY <1>2 DEF IInv, TypeOK, ScanInv, Integral
<1>5. /\ q \in Start + 1 .. Len(text) + 1 /\ (q <= Len(text) => text[q] = Point)
      /\ decimals \in Nat /\ Start \in {0, 1} /\ Len(text) \in Nat
      /\ \A k \in Start + 1 .. Len(text) : k # q => is_digit(text[k])
  BY NumeralFacts
<1> HIDE DEF q
<1>6. q > i
  BY <1>4, <1>5, PointIsNoDigit
<1>7. negative' <=> text[1] = Minus
  BY <1>2, <1>3, Zenon
<1>8. decimals - consumed' = decimals /\ consumed' <= decimals
  BY <1>2, <1>4, <1>5
<1>9. CASE AtEnd
  <2>1. q - i - 1 + decimals = decimals
    BY <1>4, <1>5, <1>6, <1>9 DEF AtEnd
  <2>2. i' = i /\ pc' = "pad" /\ AtEnd'
    BY <1>1, <1>9 DEF IntegerEnd, AtEnd
  <2>3. value' * Power(decimals - consumed') = Total(i') /\ value' \in Nat
    BY <1>2, <1>3, <1>8, <2>1, <2>2
  <2> QED BY <1>1, <1>7, <1>8, <2>2, <2>3, FitsKept DEF ExactInv
<1>10. CASE ~AtEnd
  <2>1. i' = i + 1 /\ pc' = "fraction" /\ text[i + 1] = Point
    BY <1>10 DEF IntegerEnd, Char
  <2>2. i + 1 = q
    BY <1>4, <1>5, <1>10, <2>1, PointIsNoDigit DEF AtEnd
  <2>3. q - i - 1 + decimals = decimals
    BY <1>4, <1>5, <2>2
  <2>4. q \in 1 .. Len(text) /\ q \in 0 .. Len(text) /\ q - 1 = i
    BY <1>4, <1>5, <1>10, <2>2 DEF AtEnd
  <2>5. Total(q) = Total(i)
    <3>1. Addend(text, decimals, q) = 0
      BY <2>4, NumeralAddends DEF q
    <3>2. Total(q) = Total(i) + 0 /\ Total(i) \in Nat
      BY <1>4, <2>4, <3>1, NumeralFacts
    <3> QED BY <3>2
  <2>6. value' * Power(decimals - consumed') = Total(i') /\ value' \in Nat
    BY <1>2, <1>3, <1>8, <2>1, <2>2, <2>3, <2>5
  <2> QED BY <1>1, <1>7, <2>1, <2>6, FitsKept DEF ExactInv
<1> QED BY <1>9, <1>10

(* Past the point, the point is the one the numeral has.                    *)
LEMMA PointKnown ==
  ASSUME IInv, Fits, pc = "fraction"
  PROVE  /\ PointOf(text) \in Start + 1 .. i
         /\ i - PointOf(text) <= decimals => consumed = i - PointOf(text)
         /\ i - PointOf(text) > decimals => consumed = decimals
<1>1. PICK p \in Start + 1 .. i : FractionalAt(p)
  BY DEF IInv, ScanInv, Fractional
<1>2. text[p] = Point /\ p \in Start + 1 .. Len(text) /\ i \in Int /\ p \in Int
  BY <1>1, NumeralFacts DEF FractionalAt, IInv, TypeOK
<1>3. p = PointOf(text)
  BY <1>2, NumeralFacts, PointIsNoDigit
<1>4. IF i - p <= decimals THEN consumed = i - p ELSE consumed = decimals
  BY <1>1 DEF FractionalAt
<1> QED BY <1>1, <1>2, <1>3, <1>4, NumeralFacts

(* Reading a digit within the precision.                                    *)
LEMMA FractionDigitExact ==
  ASSUME IInv, IInv', ExactInv, Fits, FractionDigit
  PROVE  ExactInv'
<1>1. text' = text /\ decimals' = decimals
  BY DEF FractionDigit, args
<1>2. pc = "fraction" /\ ~AtEnd /\ consumed < decimals /\ Digit(1)
  BY DEF FractionDigit
<1>3. is_digit(Char)
  BY <1>1, <1>2, FailsOnNonNumerals DEF Digit
<1>4. /\ value' \in Computed(value * Base + Char) /\ i' = i + 1 /\ consumed' = consumed + 1
      /\ negative' = negative /\ pc' = pc
  BY <1>2, <1>3 DEF Digit
<1> DEFINE q == PointOf(text)
<1>5. /\ (negative <=> text[1] = Minus) /\ value \in Nat
      /\ value * Power(decimals - consumed) = Total(i)
  BY <1>2 DEF ExactInv
<1>6. i \in 0 .. Len(text) /\ i # Len(text) /\ consumed \in Nat
  BY <1>2 DEF IInv, TypeOK, AtEnd
<1>7. decimals \in Nat /\ Len(text) \in Nat /\ Start \in {0, 1}
  BY NumeralFacts
<1>8. /\ q \in Start + 1 .. i
      /\ i - q <= decimals => consumed = i - q
      /\ i - q > decimals => consumed = decimals
  BY <1>2, PointKnown
<1> HIDE DEF q
<1>9. consumed = i - q
  BY <1>2, <1>6, <1>7, <1>8
<1> DEFINE e == decimals - (consumed + 1)
<1>10. /\ e + 1 = decimals - consumed /\ (e + 1) - 1 = e
       /\ e \in 0 .. Len(text) + decimals /\ e + 1 \in 1 .. Len(text) + decimals
  BY <1>2, <1>6, <1>7
<1>11. i + 1 \in 1 .. Len(text) /\ i + 1 \in 0 .. Len(text) /\ (i + 1) - 1 = i
  BY <1>6, <1>7
<1>12. i + 1 > q /\ (i + 1) - q <= decimals /\ decimals - ((i + 1) - q) = e
  BY <1>2, <1>6, <1>7, <1>8, <1>9
<1> HIDE DEF e
<1>13. Power(e + 1) = Base * Power(e) /\ Power(e) \in Nat /\ Power(e) >= 1
  BY <1>10, NumeralFacts
<1>14. Addend(text, decimals, i + 1) = Char * Power(e)
  BY <1>11, <1>12, NumeralAddends DEF q, Char
<1>15. Total(i + 1) = Total(i) + Char * Power(e) /\ Total(i + 1) \in Nat /\ Total(i + 1) <= MaxInt
  BY <1>11, <1>14, NumeralFacts
<1>16. Char \in Nat
  BY <1>3, ScaledAssumption DEF is_digit
<1>17. value * (Base * Power(e)) + Char * Power(e) = Total(i + 1)
  BY <1>5, <1>10, <1>13, <1>15
<1>18. /\ value * Base + Char \in Nat
       /\ (value * Base + Char) * Power(e) = Total(i + 1)
       /\ Computed(value * Base + Char) = {value * Base + Char}
  BY <1>5, <1>13, <1>15, <1>16, <1>17, HornerStep
<1>19. value' \in Nat /\ value' * Power(decimals - consumed') = Total(i')
  BY <1>4, <1>18 DEF e
<1>20. negative' <=> text[1] = Minus
  BY <1>4, <1>5, Zenon
<1> QED BY <1>1, <1>2, <1>4, <1>19, <1>20, FitsKept DEF ExactInv

(* Dropping a digit past the precision.                                     *)
LEMMA TrailingDigitExact ==
  ASSUME IInv, IInv', ExactInv, Fits, TrailingDigit
  PROVE  ExactInv'
<1>1. text' = text /\ decimals' = decimals
  BY DEF TrailingDigit, args
<1>2. pc = "fraction" /\ ~AtEnd /\ consumed >= decimals
  BY DEF TrailingDigit
<1>3. is_digit(Char)
  BY <1>1, FailsOnNonNumerals DEF TrailingDigit
<1>4. value' = value /\ i' = i + 1 /\ consumed' = consumed /\ negative' = negative /\ pc' = pc
  BY <1>3 DEF TrailingDigit
<1> DEFINE q == PointOf(text)
<1>5. /\ (negative <=> text[1] = Minus) /\ value \in Nat
      /\ value * Power(decimals - consumed) = Total(i)
  BY <1>2 DEF ExactInv
<1>6. i \in 0 .. Len(text) /\ i # Len(text) /\ consumed \in Nat
  BY <1>2 DEF IInv, TypeOK, AtEnd
<1>7. decimals \in Nat /\ Len(text) \in Nat /\ Start \in {0, 1}
  BY NumeralFacts
<1>8. /\ q \in Start + 1 .. i
      /\ i - q <= decimals => consumed = i - q
      /\ i - q > decimals => consumed = decimals
  BY <1>2, PointKnown
<1> HIDE DEF q
<1>9. i + 1 \in 1 .. Len(text) /\ i + 1 > q /\ (i + 1) - q > decimals /\ (i + 1) - 1 = i
      /\ i \in 0 .. Len(text)
  BY <1>2, <1>6, <1>7, <1>8
<1>10. Addend(text, decimals, i + 1) = 0
  BY <1>9, NumeralAddends DEF q
<1>11. Total(i + 1) = Total(i)
  <2>1. Total(i + 1) = Total(i) + 0 /\ Total(i) \in Nat
    BY <1>9, <1>10, NumeralFacts
  <2> QED BY <2>1
<1>12. negative' <=> text[1] = Minus
  BY <1>4, <1>5, Zenon
<1> QED BY <1>1, <1>2, <1>4, <1>5, <1>11, <1>12, FitsKept DEF ExactInv

(* The end of the fraction.                                                 *)
LEMMA FractionEndExact ==
  ASSUME IInv, IInv', ExactInv, Fits, FractionEnd
  PROVE  ExactInv'
<1>1. /\ text' = text /\ decimals' = decimals
      /\ pc = "fraction" /\ AtEnd /\ pc' = "pad"
      /\ UNCHANGED <<i, negative, value, consumed>>
  BY DEF FractionEnd, args, locals
<1>2. /\ (negative <=> text[1] = Minus) /\ value \in Nat
      /\ value * Power(decimals - consumed) = Total(i)
  BY <1>1 DEF ExactInv
<1>3. consumed <= decimals
  <2>1. i \in Int /\ decimals \in Nat /\ PointOf(text) \in Int
    BY NumeralFacts DEF IInv, TypeOK
  <2> QED BY <1>1, <2>1, PointKnown
<1>4. AtEnd' /\ consumed' <= decimals
  BY <1>1, <1>3 DEF AtEnd
<1>5. negative' <=> text[1] = Minus
  BY <1>1, <1>2, Zenon
<1> QED BY <1>1, <1>2, <1>4, <1>5, FitsKept DEF ExactInv

(* Padding with a zero.                                                     *)
LEMMA PadZeroExact ==
  ASSUME IInv, IInv', ExactInv, Fits, PadZero
  PROVE  ExactInv'
<1>1. /\ text' = text /\ decimals' = decimals
      /\ pc = "pad" /\ pc' = pc /\ consumed < decimals /\ consumed' = consumed + 1
      /\ UNCHANGED <<i, negative>> /\ value' \in Computed(value * Base)
  BY DEF PadZero, args
<1>2. /\ (negative <=> text[1] = Minus) /\ value \in Nat
      /\ value * Power(decimals - consumed) = Total(i) /\ AtEnd
  BY <1>1 DEF ExactInv
<1>3. consumed \in Nat /\ decimals \in Nat /\ Len(text) \in Nat
  BY NumeralFacts DEF IInv, TypeOK
<1> DEFINE e == decimals - (consumed + 1)
<1>4. /\ e + 1 = decimals - consumed /\ (e + 1) - 1 = e
      /\ e \in 0 .. Len(text) + decimals /\ e + 1 \in 1 .. Len(text) + decimals
      /\ consumed' <= decimals
  BY <1>1, <1>3
<1> HIDE DEF e
<1>5. Power(e + 1) = Base * Power(e) /\ Power(e) \in Nat /\ Power(e) >= 1
  BY <1>4, NumeralFacts
<1>6. Total(i) \in Nat /\ Total(i) <= MaxInt
  BY NumeralFacts DEF IInv, TypeOK
<1>7. value * (Base * Power(e)) + 0 * Power(e) = Total(i)
  BY <1>2, <1>4, <1>5, <1>6
<1>8. /\ value * Base + 0 \in Nat
      /\ (value * Base + 0) * Power(e) = Total(i)
      /\ Computed(value * Base + 0) = {value * Base + 0}
  BY <1>2, <1>5, <1>6, <1>7, HornerStep
<1>9. value * Base + 0 = value * Base
  BY <1>2, ScaledAssumption
<1>10. value' \in Nat /\ value' * Power(decimals - consumed') = Total(i')
  BY <1>1, <1>8, <1>9 DEF e
<1>11. (negative' <=> text[1] = Minus) /\ AtEnd'
  <2>1. negative' <=> text[1] = Minus
    BY <1>1, <1>2, Zenon
  <2>2. AtEnd'
    BY <1>1, <1>2 DEF AtEnd
  <2> QED BY <2>1, <2>2
<1> QED BY <1>1, <1>4, <1>10, <1>11, FitsKept DEF ExactInv

(* Applying the sign.                                                       *)
LEMMA ReturnExact ==
  ASSUME IInv, IInv', ExactInv, Fits, Return
  PROVE  ExactInv'
<1>1. /\ text' = text /\ decimals' = decimals
      /\ pc = "pad" /\ pc' = "done" /\ consumed >= decimals
      /\ \E n \in IF negative THEN Computed(-value) ELSE {value} : result' = Ok(n)
  BY DEF Return, args
<1>2. /\ (negative <=> text[1] = Minus) /\ value \in Nat
      /\ value * Power(decimals - consumed) = Total(i) /\ AtEnd /\ consumed <= decimals
  BY <1>1 DEF ExactInv
<1>3. decimals - consumed = 0 /\ i = Len(text)
  <2>1. consumed \in Nat /\ decimals \in Nat
    BY NumeralFacts DEF IInv, TypeOK
  <2> QED BY <1>1, <1>2, <2>1 DEF AtEnd
<1>4. value = Magnitude(text, decimals) /\ value <= MaxInt
  <2>1. value * 1 = Magnitude(text, decimals)
    BY <1>2, <1>3, NumeralFacts
  <2> QED BY <1>2, <2>1 DEF Fits
<1>5. Computed(-value) = {-value}
  BY <1>2, <1>4, ScaledAssumption DEF Computed, Int64
<1>6. CASE negative
  <2>1. text[1] = Minus
    BY <1>2, <1>6
  <2>2. result' = Ok(-value)
    BY <1>1, <1>5, <1>6
  <2>3. result' = Ok(Scaled(text, decimals))
    BY <1>4, <2>1, <2>2 DEF Scaled
  <2> QED BY <1>1, <2>3, FitsKept DEF ExactInv
<1>7. CASE ~negative
  <2>1. text[1] # Minus
    BY <1>2, <1>7
  <2>2. result' = Ok(value)
    BY <1>1, <1>7
  <2>3. result' = Ok(Scaled(text, decimals))
    BY <1>4, <2>1, <2>2 DEF Scaled
  <2> QED BY <1>1, <2>3, FitsKept DEF ExactInv
<1> QED BY <1>6, <1>7

LEMMA StepPreservesExact == IInv /\ IInv' /\ ExactInv /\ [Next]_vars => ExactInv'
<1> SUFFICES ASSUME IInv, IInv', ExactInv, [Next]_vars PROVE ExactInv'
  OBVIOUS
<1>1. text' = text /\ decimals' = decimals
  BY ArgumentsKept
<1>2. CASE ~Fits
  BY <1>1, <1>2, FitsKept DEF ExactInv
<1>3. CASE Fits
  <2>1. CASE NoDigits
    BY <1>1, <1>3, <2>1, FailsOnNonNumerals DEF NoDigits
  <2>2. CASE Returned \/ UNCHANGED vars
    <3>1. UNCHANGED <<pc, i, negative, value, consumed, result>>
      BY <2>2 DEF Returned, vars, locals
    <3>2. AtEnd' <=> AtEnd
      BY <1>1, <3>1 DEF AtEnd
    <3> QED BY <1>1, <1>3, <3>1, <3>2, FitsKept DEF ExactInv
  <2> QED BY <1>3, <2>1, <2>2, EnterExact, IntegerDigitExact, IntegerEndExact,
             FractionDigitExact, TrailingDigitExact, FractionEndExact, PadZeroExact,
             ReturnExact DEF Next
<1> QED BY <1>2, <1>3

(* A numeral whose scaled magnitude fits an int64_t is converted exactly,   *)
(* for texts of every length and every precision, and no intermediate value *)
(* overflows on the way: ParsesExactly is invariant.                        *)
THEOREM ConvertsExactly == Spec => []ParsesExactly
<1>1. IInv /\ ExactInv => ParsesExactly
  <2> SUFFICES ASSUME IInv, ExactInv, pc = "done", WellFormed(text, decimals),
                      Magnitude(text, decimals) <= MaxInt
               PROVE  result = Ok(Scaled(text, decimals))
    BY DEF ParsesExactly
  <2>1. decimals \in Nat /\ text # <<>> /\ text \in Seq(Chars)
    BY DEF IInv, TypeOK, WellFormed, Unsigned
  <2>2. Fits
    BY <2>1 DEF Fits, Numeral
  <2> QED BY <2>2 DEF ExactInv
<1>2. ExactInv /\ IInv /\ IInv' /\ [Next]_vars => ExactInv'
  BY StepPreservesExact
<1> QED BY InitExact, Invariance, <1>1, <1>2, PTL DEF Spec
=============================================================================
