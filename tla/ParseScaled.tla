---------------------------- MODULE ParseScaled ----------------------------
(***************************************************************************)
(* parse_scaled (src/io/binance_depth.cpp): a decimal string becomes an    *)
(* integer scaled by 10^decimals, without floating point.  One step is one *)
(* iteration of one of its loops.  `i` counts the characters consumed, so  *)
(* text[i] in the code is text[i + 1] here.                                *)
(*                                                                         *)
(* A character is an integer: a digit is its value, the others are the     *)
(* negative codes below.  Base and MaxInt are 10 and 2^63 - 1 in the code. *)
(* Signed overflow is undefined: any int64_t may come out of it.           *)
(***************************************************************************)
EXTENDS Integers, Sequences, FiniteSetsExt

CONSTANTS
  Base,       \* the numeral base
  MaxInt,     \* the largest int64_t
  Texts,      \* the strings parsed
  Precisions  \* the values of the argument `decimals`

Plus == -1
Minus == -2
Point == -3
Letter == -4   \* any other character

is_digit(c) == c \in 0 .. Base - 1
Chars == (0 .. Base - 1) \cup {Plus, Minus, Point, Letter}

ASSUME ScaledAssumption ==
  /\ Base \in Nat /\ Base > 1
  /\ MaxInt \in Nat
  /\ Texts \subseteq Seq(Chars)
  /\ Precisions \subseteq Int

VARIABLES text, decimals, pc, i, negative, value, any_digit, consumed, result

args == <<text, decimals>>
locals == <<i, negative, value, any_digit, consumed>>
vars == <<args, locals, pc, result>>

Int64 == -(MaxInt + 1) .. MaxInt

(* What an arithmetic expression may evaluate to.                           *)
Computed(n) == IF n \in Int64 THEN {n} ELSE Int64

Ok(n) == [ok |-> TRUE, value |-> n]
Error == [ok |-> FALSE, value |-> 0]

Init ==
  /\ text \in Texts
  /\ decimals \in Precisions
  /\ pc = "enter"
  /\ i = 0
  /\ negative = FALSE
  /\ value = 0
  /\ any_digit = FALSE
  /\ consumed = 0
  /\ result = Error

Fail ==
  /\ pc' = "done"
  /\ result' = Error
  /\ UNCHANGED locals

(* The tests of the arguments, and the sign.                                *)
Enter ==
  /\ pc = "enter"
  /\ \/ /\ decimals < 0 \/ text = <<>>
        /\ Fail
     \/ /\ decimals >= 0 /\ text # <<>>
        /\ negative' = (text[1] = Minus)
        /\ i' = IF text[1] \in {Plus, Minus} THEN 1 ELSE 0
        /\ pc' = "integer"
        /\ UNCHANGED <<value, any_digit, consumed, result>>
  /\ UNCHANGED args

AtEnd == i = Len(text)
Char == text[i + 1]

(* The body of both digit loops; `fraction` is 1 in the second one.         *)
Digit(fraction) ==
  \/ /\ ~is_digit(Char)
     /\ Fail
  \/ /\ is_digit(Char)
     /\ value' \in Computed(value * Base + Char)
     /\ any_digit' = TRUE
     /\ i' = i + 1
     /\ consumed' = consumed + fraction
     /\ UNCHANGED <<negative, pc, result>>

IntegerDigit ==
  /\ pc = "integer"
  /\ ~AtEnd
  /\ Char # Point
  /\ Digit(0)
  /\ UNCHANGED args

IntegerEnd ==
  /\ pc = "integer"
  /\ ~AtEnd => Char = Point
  /\ pc' = IF AtEnd THEN "pad" ELSE "fraction"
  /\ i' = IF AtEnd THEN i ELSE i + 1
  /\ UNCHANGED <<args, negative, value, any_digit, consumed, result>>

FractionDigit ==
  /\ pc = "fraction"
  /\ ~AtEnd
  /\ consumed < decimals
  /\ Digit(1)
  /\ UNCHANGED args

(* Slip: the digits past the precision are not looked at.                   *)
TrailingIgnored ==
  /\ pc = "fraction"
  /\ ~AtEnd
  /\ consumed >= decimals
  /\ i' = i + 1
  /\ UNCHANGED <<args, negative, value, any_digit, consumed, pc, result>>

(* Digits past the precision are validated and dropped.                     *)
TrailingDigit ==
  /\ pc = "fraction"
  /\ ~AtEnd
  /\ consumed >= decimals
  /\ \/ /\ ~is_digit(Char)
        /\ Fail
     \/ /\ is_digit(Char)
        /\ i' = i + 1
        /\ UNCHANGED <<negative, value, any_digit, consumed, pc, result>>
  /\ UNCHANGED args

FractionEnd ==
  /\ pc = "fraction"
  /\ AtEnd
  /\ pc' = "pad"
  /\ UNCHANGED <<args, locals, result>>

NoDigits ==
  /\ pc = "pad"
  /\ ~any_digit
  /\ Fail
  /\ UNCHANGED args

(* Slip: the fraction is padded as if none of its digits had been read.     *)
PadWhole ==
  /\ pc = "pad"
  /\ any_digit
  /\ consumed < decimals
  /\ value' \in Computed(value * Base ^ decimals)
  /\ consumed' = decimals
  /\ UNCHANGED <<args, i, negative, any_digit, pc, result>>

PadZero ==
  /\ pc = "pad"
  /\ any_digit
  /\ consumed < decimals
  /\ value' \in Computed(value * Base)
  /\ consumed' = consumed + 1
  /\ UNCHANGED <<args, i, negative, any_digit, pc, result>>

Return ==
  /\ pc = "pad"
  /\ any_digit
  /\ consumed >= decimals
  /\ \E n \in IF negative THEN Computed(-value) ELSE {value} : result' = Ok(n)
  /\ pc' = "done"
  /\ UNCHANGED <<args, locals>>

Returned == pc = "done" /\ UNCHANGED vars

Next ==
  \/ Enter
  \/ IntegerDigit \/ IntegerEnd
  \/ FractionDigit \/ TrailingDigit \/ FractionEnd
  \/ NoDigits \/ PadZero \/ Return
  \/ Returned

Spec == Init /\ [][Next]_vars

-----------------------------------------------------------------------------
(* What a numeral denotes, by position rather than by scanning              *)

(* The positions after the sign.                                            *)
Unsigned(t) == {k \in DOMAIN t : k > 1 \/ t[1] \notin {Plus, Minus}}

(* A point at position k is preceded by none.                               *)
FirstPoint(t, k) == t[k] = Point /\ \A j \in Unsigned(t) : j < k => t[j] # Point

(* Position k is before the point, or among the first d after it.           *)
Kept(t, d, k) == \A j \in Unsigned(t) : j < k /\ t[j] = Point => k - j <= d

(* A numeral: a sign, digits and at most one point, with a digit within the *)
(* precision asked for.                                                     *)
WellFormed(t, d) ==
  /\ d >= 0
  /\ \A k \in Unsigned(t) : is_digit(t[k]) \/ FirstPoint(t, k)
  /\ \E k \in Unsigned(t) : is_digit(t[k]) /\ Kept(t, d, k)

(* The position of the point, past the end if there is none.                *)
PointOf(t) ==
  LET points == {j \in Unsigned(t) : t[j] = Point}
  IN  IF points = {} THEN Len(t) + 1 ELSE Min(points)

(* The power of Base that the digit at position k counts for.               *)
Place(t, k) == IF k < PointOf(t) THEN PointOf(t) - k - 1 ELSE PointOf(t) - k

(* The powers of Base up to the n-th.                                       *)
Powers(n) ==
  LET power[k \in 0 .. n] == IF k = 0 THEN 1 ELSE Base * power[k - 1]
  IN  power

(* What position k adds to the magnitude.                                   *)
Addend(t, d, k) ==
  IF k \in Unsigned(t) /\ is_digit(t[k]) /\ Kept(t, d, k)
    THEN t[k] * Powers(Len(t) + d)[Place(t, k) + d]
    ELSE 0

(* The sums of what the first k positions add.                              *)
Sums(t, d) ==
  LET sum[k \in 0 .. Len(t)] == IF k = 0 THEN 0 ELSE sum[k - 1] + Addend(t, d, k)
  IN  sum

Magnitude(t, d) == Sums(t, d)[Len(t)]

Scaled(t, d) == IF t[1] = Minus THEN -Magnitude(t, d) ELSE Magnitude(t, d)

-----------------------------------------------------------------------------
(* Properties                                                               *)

(* Type invariant: no character past the end of the text is read.           *)
TypeOK ==
  /\ text \in Seq(Chars)
  /\ decimals \in Int
  /\ pc \in {"enter", "integer", "fraction", "pad", "done"}
  /\ i \in 0 .. Len(text)
  /\ negative \in BOOLEAN
  /\ value \in Int64
  /\ any_digit \in BOOLEAN
  /\ consumed \in Nat
  /\ result \in [ok : BOOLEAN, value : Int64]

(* "The scaled integer, or an error message on malformed input"             *)
(* (binance_depth.hpp): a result comes back exactly for the numerals, with  *)
(* signs, points and letters anywhere, with any precision, overflow or not. *)
RejectsMalformed == pc = "done" => (result.ok <=> WellFormed(text, decimals))

(* A numeral whose scaled magnitude fits an int64_t is converted exactly:   *)
(* extra fractional digits are truncated towards zero, missing ones padded, *)
(* and no intermediate value overflows.                                     *)
ParsesExactly ==
  pc = "done" /\ WellFormed(text, decimals) /\ Magnitude(text, decimals) <= MaxInt
    => result = Ok(Scaled(text, decimals))

=============================================================================
