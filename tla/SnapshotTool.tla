---------------------------- MODULE SnapshotTool ----------------------------
(***************************************************************************)
(* snapshot_tool (src/tools/snapshot_main.cpp): fetch a depth snapshot     *)
(* over HTTPS, or read it from a file, parse it, load it into an OrderBook *)
(* with add_order and report.  `tool` holds where the program is:          *)
(*                                                                         *)
(*    source  "live" or "file"                                             *)
(*    pc      the co_await or the part of main it is in                    *)
(*    answer  the response: its status and the document in its body        *)
(*    todo    the levels not yet added to the book                         *)
(*    shown   the lastUpdateId reported                                    *)
(***************************************************************************)
EXTENDS OrderBook, DepthParser

VARIABLE tool

(* The co_awaits of https_get and what follows each.  All but the name      *)
(* lookup run under an expires_after of ten seconds.                        *)
FetchFollowing == [sni |-> "resolve", resolve |-> "connect", connect |-> "tls",
                   tls |-> "write", write |-> "read"]

NoAnswer == [status |-> 0, doc |-> Absent]

ToolIdle(source) ==
  [source |-> source, pc |-> IF source = "live" THEN "sni" ELSE "read_file",
   answer |-> NoAnswer, todo |-> <<>>, shown |-> 0]

FetchProceeds ==
  /\ tool.pc \in DOMAIN FetchFollowing
  /\ tool' = [tool EXCEPT !.pc = FetchFollowing[tool.pc]]
  /\ UNCHANGED <<book, call>>

(* An await fails or times out, or the file cannot be opened: main prints   *)
(* the error and exits with EXIT_FAILURE.                                   *)
FetchFails ==
  /\ tool.pc \in DOMAIN FetchFollowing \cup {"read", "read_file"}
  /\ tool' = [tool EXCEPT !.pc = "failure"]
  /\ UNCHANGED <<book, call>>

(* The whole response, one of `answers`, has been read.                     *)
FetchAnswered(answers) ==
  /\ tool.pc = "read"
  /\ \E answer \in answers :
       tool' = [tool EXCEPT !.pc = "shutdown", !.answer = answer]
  /\ UNCHANGED <<book, call>>

(* Slip: the status of the response is not looked at.                       *)
StatusIgnored ==
  /\ tool.pc = "shutdown"
  /\ tool' = [tool EXCEPT !.pc = "parse"]
  /\ UNCHANGED <<book, call>>

(* The TLS shutdown is best effort; only then is the status looked at.      *)
Shutdown ==
  /\ tool.pc = "shutdown"
  /\ tool' = [tool EXCEPT !.pc = IF tool.answer.status = 200 THEN "parse"
                                                             ELSE "failure"]
  /\ UNCHANGED <<book, call>>

ReadFile(doc) ==
  /\ tool.pc = "read_file"
  /\ tool' = [tool EXCEPT !.pc = "parse",
                          !.answer = [status |-> 200, doc |-> doc]]
  /\ UNCHANGED <<book, call>>

(* main: parse, or exit with EXIT_FAILURE.                                  *)
ParseSnapshot ==
  /\ tool.pc = "parse"
  /\ LET snapshot == parse_binance_depth(tool.answer.doc)
     IN  \/ /\ ~snapshot.ok
            /\ tool' = [tool EXCEPT !.pc = "failure"]
         \/ /\ snapshot.ok
            /\ tool' = [tool EXCEPT !.pc = "load",
                                    !.todo = InOrder(snapshot.value.levels),
                                    !.shown = snapshot.value.lastUpdateId]
  /\ UNCHANGED <<book, call>>

(* One iteration of the loops over bids and asks.                           *)
LoadLevel ==
  /\ tool.pc = "load"
  /\ tool.todo # <<>>
  /\ LET l == Head(tool.todo) IN AddOrder(l.side, l.price, l.volume)
  /\ tool' = [tool EXCEPT !.todo = Tail(@)]

(* The report, and EXIT_SUCCESS.                                            *)
Report ==
  /\ tool.pc = "load"
  /\ tool.todo = <<>>
  /\ call = Idle
  /\ tool' = [tool EXCEPT !.pc = "success"]
  /\ UNCHANGED <<book, call>>

ToolEnded == tool.pc \in {"failure", "success"} \/ call = Aborted
=============================================================================
