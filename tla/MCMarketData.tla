---------------------------- MODULE MCMarketData ----------------------------
(***************************************************************************)
(* A small market for TLC.  Bids rest at 1, asks at 2 and 3; one change    *)
(* sets a bid, resizes one ask and removes the other, and the other change *)
(* undoes it.  The notices are malformed in one way each: no arrays, a     *)
(* level of three fields, a field that is not a string, a string that is   *)
(* not a numeral.                                                          *)
(***************************************************************************)
EXTENDS MarketData

L(price, volume) == [price |-> price, volume |-> volume]

MCChanges ==
  {[BID |-> <<L(1, 1)>>, ASK |-> <<L(2, 1), L(3, 0)>>],
   [BID |-> <<L(1, 0)>>, ASK |-> <<L(2, 2), L(3, 1)>>]}

Doc(bids, asks) == [kind |-> "object", id |-> Number(1), bids |-> bids, asks |-> asks]
One == String(<<1>>)

MCNotices ==
  <<Doc(Absent, Absent),
    Doc(Array(<<Array(<<One, One, One>>)>>), Array(<<>>)),
    Doc(Array(<<>>), Array(<<Array(<<One, Number(1)>>)>>)),
    Doc(Array(<<Array(<<One, One>>), Array(<<String(<<>>), One>>)>>), Array(<<>>))>>
=============================================================================
