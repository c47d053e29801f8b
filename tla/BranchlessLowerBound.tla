------------------------ MODULE BranchlessLowerBound ------------------------
(***************************************************************************)
(* branchless_lower_bound (src/engine/branchless_binary_search.hpp): the   *)
(* search by which OrderBook::find_level positions a price in a sorted     *)
(* vector of levels.  One step is one iteration of the while loop; `first` *)
(* is the iterator's offset from begin(), so first[half] in the code is    *)
(* keys[first + half + 1] here.  The projection &Level::price is applied   *)
(* beforehand: keys holds the projected prices.                            *)
(***************************************************************************)
EXTENDS Integers, Sequences

CONSTANTS
  Ranges,      \* the sorted key sequences searched
  Values,      \* the values searched for
  Descending   \* TRUE: comp is std::greater (bids); FALSE: std::less (asks)

(* The comparator: the code instantiates it with greater and with less.    *)
comp(a, b) == IF Descending THEN a > b ELSE a < b

(* Ranges are sorted with respect to comp; equal keys are allowed.         *)
Sorted(s) == \A i, j \in DOMAIN s : i < j => ~comp(s[j], s[i])

ASSUME SearchAssumption ==
  /\ Descending \in BOOLEAN
  /\ Ranges \subseteq Seq(Int)
  /\ Values \subseteq Int
  /\ \A s \in Ranges : Sorted(s)

VARIABLES keys, value, first, length

vars == <<keys, value, first, length>>

Init ==
  /\ keys \in Ranges
  /\ value \in Values
  /\ first = 0
  /\ length = Len(keys)

(* Slips: the stride is half where the length is odd; the longer half is    *)
(* kept as the length too; a window of one key is never dropped.           *)
StrideByHalf ==
  /\ length > 0
  /\ LET half == length \div 2
     IN  /\ first' = IF comp(keys[first + half + 1], value)
                       THEN first + half ELSE first
         /\ length' = half
  /\ UNCHANGED <<keys, value>>

KeepLength ==
  /\ length > 0
  /\ LET half == length \div 2
     IN  /\ first' = IF comp(keys[first + half + 1], value)
                       THEN first + (length - half) ELSE first
         /\ length' = length - half
  /\ UNCHANGED <<keys, value>>

KeepOneKey ==
  /\ length > 0
  /\ LET half == length \div 2
     IN  /\ first' = IF comp(keys[first + half + 1], value)
                       THEN first + half ELSE first
         /\ length' = length - half
  /\ UNCHANGED <<keys, value>>

(* The loop body: probe the middle, advance by a bool-scaled stride.       *)
Step ==
  /\ length > 0
  /\ LET half == length \div 2
     IN  /\ first' = IF comp(keys[first + half + 1], value)
                       THEN first + (length - half) ELSE first
         /\ length' = half
  /\ UNCHANGED <<keys, value>>

Next == Step

(* The loop runs to completion: the search is straight-line code.          *)
Spec == Init /\ [][Next]_vars /\ WF_vars(Step)

-----------------------------------------------------------------------------

(* The reference: offset k splits the range into the keys ordered before   *)
(* the value and those that are not, which is std::ranges::lower_bound.    *)
IsLowerBound(s, v, k) ==
  /\ k \in 0 .. Len(s)
  /\ \A j \in 1 .. k : comp(s[j], v)
  /\ \A j \in k + 1 .. Len(s) : ~comp(s[j], v)

(* Type invariant, with the loop's memory safety: the window              *)
(* [first, first + length) stays inside the range, so first[half] is never *)
(* read past end().                                                        *)
TypeOK ==
  /\ keys \in Ranges
  /\ value \in Values
  /\ first \in Nat
  /\ length \in Nat
  /\ first + length <= Len(keys)

(* The loop invariant: everything left of the window is ordered before the *)
(* value, nothing right of it is.                                          *)
Bracketed ==
  /\ \A j \in 1 .. first : comp(keys[j], value)
  /\ \A j \in first + length + 1 .. Len(keys) : ~comp(keys[j], value)

(* When the loop ends the returned iterator is the lower bound: the first  *)
(* position whose key is not ordered before the value.                     *)
ReturnsLowerBound == length = 0 => IsLowerBound(keys, value, first)

(* The loop terminates for every range, although the window shrinks to     *)
(* length / 2 even when it was the longer half that was kept.              *)
Terminates == <>(length = 0)

=============================================================================
