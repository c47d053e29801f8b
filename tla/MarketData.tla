----------------------------- MODULE MarketData -----------------------------
(***************************************************************************)
(* The way of market data through the programs of this repository:         *)
(*                                                                         *)
(*    exchange --stream--> ws_capture_tool --file--> parser --> replay     *)
(*        |                                              ^        |        *)
(*        +-------snapshot------- saved by the user -----+    OrderBook    *)
(*        +-------snapshot------- snapshot_tool ------------> OrderBook    *)
(*                                                                         *)
(* The exchange is external.  Update n of its market sets some levels to   *)
(* absolute sizes (0 removes one), and a snapshot taken after update n     *)
(* carries n as its lastUpdateId and all levels of the market (the limit   *)
(* of the request is not reached).  A behaviour is about one program that  *)
(* owns a book: a replay, preceded by a capture, or the snapshot tool.     *)
(***************************************************************************)
EXTENDS WsCapture, MarketReplay, SnapshotTool, FiniteSets

CONSTANTS
  Changes,      \* what one update may set: [BID, ASK] sequences of levels
  Notices,      \* documents in frames that are not depth updates
  MaxUpdates    \* bound on the number of updates

(* What the exchange sends: prices that fit their type, sizes that are not  *)
(* negative, and no other frame that could be taken for an update.          *)
ASSUME MarketAssumption ==
  /\ Prices \subseteq 0 .. PriceSpan - 1
  /\ Volumes \subseteq Nat
  /\ Changes \subseteq [Sides -> Seq([price : Prices, volume : Volumes])]
  /\ \A k \in DOMAIN Notices : /\ Notices[k].kind # "blank"
                              /\ ~parse_binance_depth(Notices[k]).ok

VARIABLES
  program,      \* "replay", or snapshot_tool on a "live" or a "file" source
  updates,      \* the updates of the market, in order
  saved         \* lastUpdateId of the snapshot the user saved; -1: none yet

externalVars == <<program, updates, saved>>
bookVars == <<book, call>>
allVars == <<captureVars, replay, tool, bookVars, externalVars>>

Replaying == program = "replay"

-----------------------------------------------------------------------------
(* The exchange                                                             *)

Sets(change, side, price) == {k \in DOMAIN change[side] : change[side][k].price = price}

(* The size at a price after the changes us, in this order: the one that    *)
(* was set last.                                                            *)
SizeAfter(us, side, price) ==
  LET touching == {k \in DOMAIN us : Sets(us[k], side, price) # {}}
  IN  IF touching = {} THEN 0
      ELSE LET u == us[Max(touching)]
           IN  u[side][Max(Sets(u, side, price))].volume

SizesAfter(us) == [side \in Sides |-> [price \in Prices |-> SizeAfter(us, side, price)]]

(* The sizes in the market after n updates.                                 *)
Market(n) == SizesAfter(SubSeq(updates, 1, n))

(* The prices with a positive size, best first.                             *)
Ladder(side, size) ==
  LET present == {p \in Prices : size[p] > 0}
  IN  CHOOSE prices \in [1 .. Cardinality(present) -> present] :
        \A i, j \in DOMAIN prices : i < j => Better(side, prices[i], prices[j])

(* The levels of a side after n updates.                                    *)
LiveLevels(n, side) ==
  LET prices == Ladder(side, Market(n)[side])
  IN  [k \in DOMAIN prices |->
         [price |-> prices[k], volume |-> Market(n)[side][prices[k]]]]

Encoded(levels) ==
  Array([k \in DOMAIN levels |-> Array(<<String(<<levels[k].price>>),
                                         String(<<levels[k].volume>>)>>)])

SnapshotDocument(n) ==
  [kind |-> "object", id |-> Number(n),
   bids |-> Encoded(LiveLevels(n, "BID")), asks |-> Encoded(LiveLevels(n, "ASK"))]

(* The text of a line: a document, blank, or torn.  A torn one does not end *)
(* in a brace, and the JSON parser refuses it.                              *)
Document(frame) ==
  CASE frame.kind = "update" ->
         [kind |-> "object", id |-> Number(frame.n),
          bids |-> Encoded(updates[frame.n]["BID"]),
          asks |-> Encoded(updates[frame.n]["ASK"])]
    [] frame.kind = "notice" -> Notices[frame.n]
    [] OTHER -> [kind |-> frame.kind, id |-> Absent, bids |-> Absent, asks |-> Absent]

Lines == [k \in DOMAIN file |-> Document(file[k])]

(* The market moves while somebody may look: from the upgrade on, until the *)
(* capture has ended and the user has a snapshot; until the tool has its    *)
(* answer.  Before and after that it makes no difference to the programs.   *)
Watched ==
  \/ Replaying /\ ~CaptureEnded
       /\ capture.pc \notin DOMAIN Following \ {"upgrade"}
  \/ program = "live" /\ tool.pc = "read"
  \/ program # "live" /\ saved = -1 /\ (CaptureEnded \/ program = "file")

Publish(change) ==
  /\ Watched
  /\ Len(updates) < MaxUpdates
  /\ updates' = Append(updates, change)
  /\ IF peer = "open" THEN Deliver(Frame("update", Len(updates) + 1))
                      ELSE UNCHANGED captureVars
  /\ UNCHANGED <<replay, tool, bookVars, program, saved>>

(* The stream may carry other frames and empty ones; one at a time here.    *)
SendNotice ==
  /\ \A f \in ToSet(inbox \o out) : f.kind \in {"update", "torn"}
  /\ \E frame \in {Frame("notice", k) : k \in DOMAIN Notices} \cup {Blank} :
       Deliver(frame)
  /\ UNCHANGED <<replay, tool, bookVars, externalVars>>

SaveSnapshot ==
  /\ saved = -1
  /\ Replaying \/ program = "file"
  /\ saved' = Len(updates)
  /\ UNCHANGED <<captureVars, replay, tool, bookVars, program, updates>>

-----------------------------------------------------------------------------

MarketInit ==
  /\ program \in {"replay", "live", "file"}
  /\ updates = <<>>
  /\ saved = -1
  /\ CaptureInit
  /\ replay = ReplayIdle
  /\ tool = ToolIdle(program)
  /\ Init   \* of OrderBook: an empty book

Capturing ==
  /\ Replaying
  /\ CaptureStep
  /\ UNCHANGED <<replay, tool, bookVars, externalVars>>

TimePasses ==
  /\ Replaying
  /\ Deadline
  /\ UNCHANGED <<replay, tool, bookVars, externalVars>>

CaptureFaults ==
  /\ Replaying
  /\ Killed \/ HangUp
  /\ UNCHANGED <<replay, tool, bookVars, externalVars>>

ReplayStep ==
  /\ Replaying
  /\ CaptureEnded
  /\ saved # -1
  /\ \/ LoadSnapshot(SnapshotDocument(saved))
     \/ ParseLine(Lines)
     \/ ParseEnd(Lines)
     \/ SetNextLevel \/ Apply \/ PassEnd \/ NextPass
  /\ UNCHANGED <<captureVars, tool, externalVars>>

(* A well-formed depth document without levels.                             *)
EmptyDepth ==
  [kind |-> "object", id |-> Number(Len(updates)), bids |-> Array(<<>>), asks |-> Array(<<>>)]

(* The answer is the market at some moment of the request, something that   *)
(* is not a snapshot, or an error, whose body may look like a snapshot.     *)
Answers ==
  {[status |-> 200, doc |-> SnapshotDocument(Len(updates))]}
    \cup [status : {200}, doc : ToSet(Notices)]
    \cup [status : {503}, doc : ToSet(Notices) \cup {EmptyDepth}]

ToolStep ==
  /\ ~Replaying
  /\ \/ FetchProceeds
     \/ FetchFails
     \/ FetchAnswered(Answers)
     \/ Shutdown
     \/ saved # -1 /\ ReadFile(SnapshotDocument(saved))
     \/ ParseSnapshot \/ LoadLevel \/ Report
  /\ UNCHANGED <<captureVars, replay, externalVars>>

BookStep ==
  /\ Running
  /\ UNCHANGED <<captureVars, replay, tool, externalVars>>

ReplayEnded ==
  \/ call = Aborted
  \/ replay.pc = "abort"
  \/ replay.pc = "passed" /\ replay.pass = MaxPasses

Ended == (IF Replaying THEN ReplayEnded ELSE ToolEnded) /\ UNCHANGED allVars

MarketNext ==
  \/ \E change \in Changes : Publish(change)
  \/ SendNotice
  \/ SaveSnapshot
  \/ Capturing
  \/ TimePasses
  \/ CaptureFaults
  \/ ReplayStep
  \/ ToolStep
  \/ BookStep
  \/ Ended

(* The programs keep running and time passes; name lookups may take forever *)
(* and the exchange, the user and the faults owe nothing.                   *)
MarketSpec ==
  /\ MarketInit
  /\ [][MarketNext]_allVars
  /\ WF_allVars(Capturing /\ capture.pc # "resolve")
  /\ WF_allVars(TimePasses)
  /\ WF_allVars(ToolStep /\ tool.pc # "resolve")

-----------------------------------------------------------------------------
(* Properties                                                               *)

Sizes(levels) == {<<levels[i].price, levels[i].total_volume>> : i \in DOMAIN levels}

(* The book shows size[side][p] at every price p, and nothing twice.        *)
BookShows(size) ==
  \A side \in Sides :
    LET present == {p \in Prices : size[side][p] > 0}
    IN  /\ Sizes(book.levels[side]) = {<<p, size[side][p]>> : p \in present}
        /\ Len(book.levels[side]) = Cardinality(present)

(* What is replayed are consecutive updates of the market, each of them     *)
(* whole, whatever ended the capture (the deadline, the server, an error, a *)
(* full disk, a kill) and whatever else the stream carried; a capture with  *)
(* anything else in it is refused at its first such line.                   *)
FeedContiguous ==
  /\ replay.pc \in {"run", "passed"} =>
       /\ Len(replay.feed) = Cardinality({j \in DOMAIN file : file[j] # Blank})
       /\ \A k \in DOMAIN replay.feed :
            LET n == replay.feed[1].finalUpdateId + k - 1
            IN  /\ n \in DOMAIN updates
                /\ replay.feed[k] = [finalUpdateId |-> n, levels |-> updates[n]]
  /\ replay.pc = "abort" =>
       /\ replay.line_no \in DOMAIN file
       /\ file[replay.line_no].kind \in {"torn", "notice"}
       /\ \A j \in 1 .. replay.line_no - 1 : file[j].kind \in {"update", "blank"}

(* "Replaying these onto a book seeded from a REST snapshot reconstructs    *)
(* the live book" (binance_depth.hpp): if the snapshot lies within the      *)
(* capture, the book after a pass is the market after the last captured     *)
(* update, although update ids are never compared and updates older than    *)
(* the snapshot are applied to it too.                                      *)
Reconstructs ==
  replay.pc = "passed" =>
    LET s     == replay.snap.lastUpdateId
        first == IF replay.feed = <<>> THEN s + 1 ELSE replay.feed[1].finalUpdateId
        last  == first + Len(replay.feed) - 1
    IN  s \in first - 1 .. last => BookShows(Market(last))

(* Everything that is set in a pass over a new book, in order.              *)
Replayed == <<replay.snap.levels>> \o [k \in DOMAIN replay.feed |-> replay.feed[k].levels]

(* The sides and prices at which something is.                              *)
Touched ==
  {at \in Sides \X Prices : \E k \in DOMAIN Replayed : Sets(Replayed[k], at[1], at[2]) # {}}

(* "re-running the same feed keeps the book bounded" (market_replay.cpp):   *)
(* after every pass, the first or a later one, each price has the size that *)
(* was set last, and the pool never held more than an order for each price  *)
(* of the snapshot and the feed, in the middle of a pass either.            *)
SteadyState ==
  Replaying =>
    /\ replay.pc = "passed" => BookShows(SizesAfter(Replayed))
    /\ Len(book.pool.nodes) <= Cardinality(Touched)

(* What snapshot_tool reports as a success is the book of the exchange as   *)
(* it was at one moment, the one its lastUpdateId names: neither an error,  *)
(* even one whose body parses, nor a document that is not a snapshot gets   *)
(* that far.                                                                *)
ShowsLiveBook ==
  tool.pc = "success" => BookShows(Market(tool.shown))

(* The programs end, unless the name lookup never returns or, in a capture, *)
(* the server stays connected and sends nothing (its deadline is only       *)
(* tested between two reads).                                               *)
ToolsEnd ==
  \/ <>(IF Replaying THEN CaptureEnded ELSE ToolEnded)
  \/ <>[](IF Replaying THEN Resolving \/ Silence ELSE tool.pc = "resolve")

=============================================================================
