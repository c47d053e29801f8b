---------------------------- MODULE MCOrderBook ----------------------------
(***************************************************************************)
(* Instances of OrderBook for TLC.  Ids are model values.  The orders that *)
(* may rest are GOOD_TILL_CANCELED with any id; the others never rest, so  *)
(* one id stands for all of theirs.                                        *)
(***************************************************************************)
EXTENDS OrderBookRefinement, TLC

CONSTANTS
  RestingIdSet,   \* ids of the orders that may rest
  TransientId,    \* the id of the orders that never rest
  RestVolumes,    \* volumes of the orders that may rest
  TakeVolumes     \* volumes of the others

MCOrderIds == RestingIdSet \cup {TransientId, kAnonymous}

MCOrders ==
  [id : RestingIdSet, side : Sides, price : Prices, volume : RestVolumes,
   type : {"GOOD_TILL_CANCELED"}]
  \cup
  [id : {TransientId}, side : Sides, price : Prices, volume : TakeVolumes,
   type : {"FILL_OR_KILL", "IMMEDIATE_OR_CANCEL"}]

IdSymmetry == Permutations(RestingIdSet)
=============================================================================
