---------------------- MODULE MCBranchlessLowerBound ----------------------
(***************************************************************************)
(* All sorted ranges of up to MaxLen keys over a small alphabet, equal     *)
(* keys included, and values below, between and above the keys.            *)
(***************************************************************************)
EXTENDS BranchlessLowerBound

CONSTANTS MaxLen, MaxKey

MCRanges ==
  {s \in UNION {[1 .. n -> 1 .. MaxKey] : n \in 0 .. MaxLen} : Sorted(s)}

MCValues == 0 .. MaxKey + 1
=============================================================================
