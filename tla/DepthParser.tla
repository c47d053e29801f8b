---------------------------- MODULE DepthParser ----------------------------
(***************************************************************************)
(* The depth documents of src/io/binance_depth.{hpp,cpp}: what a JSON body *)
(* or a line of a capture becomes.  A JSON value is a record               *)
(* [kind, items].  Error messages are left out: a result is an error or    *)
(* the parsed value.                                                       *)
(*                                                                         *)
(* A decimal string is <<n>>, n being the integer that parse_scaled makes  *)
(* of it, or <<>> if parse_scaled rejects it (module ParseScaled).         *)
(***************************************************************************)
EXTENDS Integers, Sequences

CONSTANT PriceSpan   \* the number of values of Price, 2^64 in the code

ASSUME SpanAssumption == PriceSpan \in Nat \ {0}

Array(items) == [kind |-> "array", items |-> items]
String(decimal) == [kind |-> "string", items |-> decimal]
Number(n) == [kind |-> "number", items |-> <<n>>]
Absent == [kind |-> "absent", items |-> <<>>]

Ok(value) == [ok |-> TRUE, value |-> value]
Error == [ok |-> FALSE, value |-> <<>>]

(* A line of a capture: an update, some other frame, nothing but white      *)
(* space, or a frame of which the end is missing.                           *)
Frame(kind, n) == [kind |-> kind, n |-> n]
Blank == Frame("blank", 0)
Torn == Frame("torn", 0)

(* static_cast<Price>: a negative number becomes a huge price.              *)
ToPrice(n) == n % PriceSpan

(* A ["price", "qty"] pair of strings, both of them numerals.               *)
IsLevel(pair) ==
  /\ pair.kind = "array"
  /\ Len(pair.items) = 2
  /\ \A f \in {1, 2} : pair.items[f].kind = "string" /\ pair.items[f].items # <<>>

(* All levels of an array in their order, or an error if one of them is     *)
(* malformed: both passes are completed before anything is returned.        *)
parse_levels(array) ==
  IF array.kind = "array" /\ \A k \in DOMAIN array.items : IsLevel(array.items[k])
    THEN Ok([k \in DOMAIN array.items |->
               LET fields == array.items[k].items
               IN  [price  |-> ToPrice(fields[1].items[1]),
                    volume |-> fields[2].items[1]]])
    ELSE Error

(* Both arrays, or an error.                                                *)
parse_sides(doc) ==
  LET bids == parse_levels(doc.bids)
      asks == parse_levels(doc.asks)
  IN  IF bids.ok /\ asks.ok THEN Ok([BID |-> bids.value, ASK |-> asks.value]) ELSE Error

(* An id that is absent or not a number is left 0.                          *)
IdOrZero(v) == IF v.kind = "number" THEN v.items[1] ELSE 0

(* A document is an object with ids and two arrays; a torn or foreign text  *)
(* is not one and does not get past the JSON parser.                        *)
parse_binance_depth(doc) ==
  IF doc.kind = "object" /\ parse_sides(doc).ok
    THEN Ok([lastUpdateId |-> IdOrZero(doc.id), levels |-> parse_sides(doc).value])
    ELSE Error

(* E and U are read like u; nothing looks at them afterwards.               *)
parse_binance_depth_update(doc) ==
  IF doc.kind = "object" /\ parse_sides(doc).ok
    THEN Ok([finalUpdateId |-> IdOrZero(doc.id), levels |-> parse_sides(doc).value])
    ELSE Error

(* The levels of a snapshot or an update in the order of the loops over     *)
(* them: the bids, then the asks.                                           *)
InOrder(levels) ==
  LET entries(side) == [k \in DOMAIN levels[side] |->
                          [side   |-> side,
                           price  |-> levels[side][k].price,
                           volume |-> levels[side][k].volume]]
  IN  entries("BID") \o entries("ASK")
=============================================================================
