--------------------------- MODULE MCParseScaled ---------------------------
(***************************************************************************)
(* Every string of up to MaxLen characters, for TLC.                       *)
(***************************************************************************)
EXTENDS ParseScaled

CONSTANT MaxLen

MCTexts == UNION {[1 .. n -> Chars] : n \in 0 .. MaxLen}
MCPrecisions == -1 .. MaxLen - 1
=============================================================================
