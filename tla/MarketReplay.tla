---------------------------- MODULE MarketReplay ----------------------------
(***************************************************************************)
(* The replay of benchmark/market_replay.cpp: load a snapshot and a        *)
(* capture, seed an OrderBook with the one and apply the other to it with  *)
(* set_level, again and again.  `replay` holds its locals:                 *)
(*                                                                         *)
(*    mode     the benchmark: "steady" (one book) or "cold" (a new book    *)
(*             for every pass); "none" while the inputs are loaded         *)
(*    pc       "load", "parse", "run", "passed" (between two passes), or   *)
(*             "abort" after an input that does not parse                  *)
(*    snap     the parsed snapshot                                         *)
(*    line_no  lines of the capture read so far                            *)
(*    feed     the parsed updates                                          *)
(*    next     the update to apply next                                    *)
(*    todo     the levels of the seed or of an update still to be set      *)
(*    pass     passes completed                                            *)
(*                                                                         *)
(* Only inputs from files are modelled, not the synthesized ones.          *)
(***************************************************************************)
EXTENDS OrderBook, DepthParser

CONSTANT MaxPasses   \* bound on the iterations of the benchmark loop

VARIABLE replay

NoSnapshot == [lastUpdateId |-> 0, levels |-> [BID |-> <<>>, ASK |-> <<>>]]

ReplayIdle ==
  [mode |-> "none", pc |-> "load", snap |-> NoSnapshot, line_no |-> 0,
   feed |-> <<>>, next |-> 1, todo |-> <<>>, pass |-> 0]

(* load: the snapshot first; "Aborts if an OB_SNAPSHOT file is set but      *)
(* fails to parse".                                                         *)
LoadSnapshot(doc) ==
  /\ replay.pc = "load"
  /\ LET snapshot == parse_binance_depth(doc)
     IN  replay' = IF snapshot.ok
                     THEN [replay EXCEPT !.pc = "parse", !.snap = snapshot.value]
                     ELSE [replay EXCEPT !.pc = "abort"]
  /\ UNCHANGED <<book, call>>

(* One iteration of the loop of parse_binance_depth_updates: blank lines    *)
(* are counted and skipped, the first bad line ends it.                     *)
ParseLine(lines) ==
  /\ replay.pc = "parse"
  /\ replay.line_no < Len(lines)
  /\ LET line   == lines[replay.line_no + 1]
         update == parse_binance_depth_update(line)
         read   == [replay EXCEPT !.line_no = @ + 1]
     IN  \/ /\ line.kind = "blank"
            /\ replay' = read
         \/ /\ line.kind # "blank"
            /\ replay' = IF update.ok
                           THEN [read EXCEPT !.feed = Append(@, update.value)]
                           ELSE [read EXCEPT !.pc = "abort"]
  /\ UNCHANGED <<book, call>>

(* The end of the loop: all lines have been read.  Either benchmark seeds   *)
(* a book next.                                                             *)
ParseEnd(lines) ==
  /\ replay.pc = "parse"
  /\ replay.line_no = Len(lines)
  /\ \E mode \in {"steady", "cold"} :
       replay' = [replay EXCEPT !.pc = "run", !.mode = mode,
                                !.todo = InOrder(replay.snap.levels)]
  /\ UNCHANGED <<book, call>>

(* Slips: sizes are added to what rests instead of replacing it; a size of  *)
(* 0 is taken for no change.                                                *)
AddAnotherLevel ==
  /\ replay.pc = "run"
  /\ replay.todo # <<>>
  /\ LET l == Head(replay.todo) IN AddOrder(l.side, l.price, l.volume)
  /\ replay' = [replay EXCEPT !.todo = Tail(@)]

SkipRemovals ==
  /\ replay.pc = "run"
  /\ replay.todo # <<>>
  /\ LET l == Head(replay.todo)
     IN  \/ l.volume > 0 /\ SetLevel(l.side, l.price, l.volume)
         \/ l.volume = 0 /\ call = Idle /\ UNCHANGED <<book, call>>
  /\ replay' = [replay EXCEPT !.todo = Tail(@)]

(* One iteration of the loops of seed_book and of apply.                    *)
SetNextLevel ==
  /\ replay.pc = "run"
  /\ replay.todo # <<>>
  /\ LET l == Head(replay.todo) IN SetLevel(l.side, l.price, l.volume)
  /\ replay' = [replay EXCEPT !.todo = Tail(@)]

Finished == replay.pc = "run" /\ replay.todo = <<>> /\ call = Idle

(* apply the next update: its ids are not looked at.                        *)
Apply ==
  /\ Finished
  /\ replay.next <= Len(replay.feed)
  /\ replay' = [replay EXCEPT !.next = @ + 1,
                              !.todo = InOrder(replay.feed[replay.next].levels)]
  /\ UNCHANGED <<book, call>>

PassEnd ==
  /\ Finished
  /\ replay.next > Len(replay.feed)
  /\ replay' = [replay EXCEPT !.pc = "passed", !.pass = @ + 1]
  /\ UNCHANGED <<book, call>>

(* The benchmark loop goes round: the cold one with a new, seeded book.     *)
NextPass ==
  /\ replay.pc = "passed"
  /\ replay.pass < MaxPasses
  /\ \/ /\ replay.mode = "steady"
        /\ replay' = [replay EXCEPT !.pc = "run", !.next = 1]
        /\ UNCHANGED book
     \/ /\ replay.mode = "cold"
        /\ replay' = [replay EXCEPT !.pc = "run", !.next = 1,
                                    !.todo = InOrder(replay.snap.levels)]
        /\ book' = [pool |-> EmptyPool, levels |-> [side \in Sides |-> <<>>],
                    index |-> <<>>]
  /\ UNCHANGED call
=============================================================================
