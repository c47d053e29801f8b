---------------------------- MODULE MCSpscQueue ----------------------------
(***************************************************************************)
(* Instances of SpscQueue for TLC: all ranges of up to MaxBatch elements.  *)
(* MaxBatch > N offers ranges that can never fit.                          *)
(***************************************************************************)
EXTENDS SpscQueueRefinement

CONSTANT MaxBatch

MCBatches == UNION {[1 .. n -> Elements] : n \in 0 .. MaxBatch}
=============================================================================
