----------------------------- MODULE WsCapture -----------------------------
(***************************************************************************)
(* ws_capture_tool (src/tools/ws_capture_main.cpp): the coroutine capture, *)
(* which records the frames of a depth stream, one per line, until a       *)
(* deadline, and the exit code main makes of its result.  One step is what *)
(* runs between two co_awaits, or the completion of one.                   *)
(*                                                                         *)
(* The socket is reliable and ordered (TCP): `inbox` holds the frames that *)
(* have arrived and were not read, `peer` says whether more can follow.    *)
(* What is written to the ofstream reaches the disk in order, at the       *)
(* latest when the stream is flushed or destroyed; if the process is       *)
(* killed, or a write fails, only a prefix of it does, which may end in    *)
(* the middle of a line.                                                   *)
(***************************************************************************)
EXTENDS DepthParser, SequencesExt

VARIABLES
  capture,   \* [pc, late, good]: where it is, deadline passed?, stream state
  peer,      \* the server: "away", "open", "closed" or "lost"
  inbox,     \* frames received and not yet read
  out,       \* the lines written to the stream
  file       \* the lines of the output file

captureVars == <<capture, peer, inbox, out, file>>

(* The co_awaits up to the open connection and what follows each.  The name *)
(* lookup is the only one without a deadline: the socket's expires_after    *)
(* covers connect and the TLS handshake, the websocket's own timeout the    *)
(* upgrade and the close.                                                   *)
Following == [sni |-> "resolve", resolve |-> "connect", connect |-> "tls",
              tls |-> "upgrade", upgrade |-> "open"]

At(pc) == [pc |-> pc, late |-> FALSE, good |-> TRUE]

CaptureInit ==
  /\ capture = At("sni")
  /\ peer = "away"
  /\ inbox = <<>>
  /\ out = <<>>
  /\ file = <<>>

(* The process ends, and everything but the file with it.                   *)
Exit(status) ==
  /\ capture' = At(status)
  /\ peer' = "away"
  /\ inbox' = <<>>
  /\ out' = <<>>

(* An await completes; the upgrade starts the stream.                       *)
Proceed ==
  /\ capture.pc \in DOMAIN Following
  /\ capture' = At(Following[capture.pc])
  /\ peer' = IF capture.pc = "upgrade" THEN "open" ELSE peer
  /\ UNCHANGED <<inbox, out, file>>

(* It fails, or its deadline expires: co_return an error.                   *)
Refused ==
  /\ capture.pc \in DOMAIN Following
  /\ Exit("failure")
  /\ UNCHANGED file

(* The output file is truncated once there is a stream to record; frames    *)
(* that arrive in between wait in the socket.                               *)
OpenFile ==
  /\ capture.pc = "open"
  /\ \/ /\ capture' = At("loop")
        /\ file' = <<>>
        /\ UNCHANGED <<peer, inbox, out>>
     \/ /\ Exit("failure")
        /\ UNCHANGED file

(* The clock passes the deadline, which was set when the file was opened.   *)
Deadline ==
  /\ capture.pc \in {"loop", "read"}
  /\ ~capture.late
  /\ capture' = [capture EXCEPT !.late = TRUE]
  /\ UNCHANGED <<peer, inbox, out, file>>

(* Slip: the capture stops when the server stops.                           *)
ReadOn ==
  /\ capture.pc = "loop"
  /\ capture' = [capture EXCEPT !.pc = "read"]
  /\ UNCHANGED <<peer, inbox, out, file>>

(* The loop condition.                                                      *)
TestDeadline ==
  /\ capture.pc = "loop"
  /\ capture' = [capture EXCEPT !.pc = IF capture.late THEN "flush" ELSE "read"]
  /\ UNCHANGED <<peer, inbox, out, file>>

(* The prefixes of the stream that may be all that reaches the disk.        *)
CutOff(lines) ==
  Prefixes(lines) \cup {Append(p, Torn) : p \in Prefixes(lines) \ {lines}}

(* Slip: of the frames that have arrived only the latest is written.        *)
ReadLatest ==
  /\ capture.pc = "read"
  /\ inbox # <<>>
  /\ capture' = [capture EXCEPT !.pc = "loop"]
  /\ out' = Append(out, Last(inbox))
  /\ inbox' = <<>>
  /\ UNCHANGED <<peer, file>>

(* A frame is read and written as a line.  A write that fails is not        *)
(* noticed: the stream goes bad, with whatever it still held, and ignores   *)
(* the lines that follow.                                                   *)
ReadFrame ==
  /\ capture.pc = "read"
  /\ inbox # <<>>
  /\ inbox' = Tail(inbox)
  /\ LET lines == Append(out, Head(inbox))
     IN  \/ /\ capture' = [capture EXCEPT !.pc = "loop"]
            /\ out' = IF capture.good THEN lines ELSE out
         \/ /\ capture.good
            /\ capture' = [capture EXCEPT !.pc = "loop", !.good = FALSE]
            /\ out' \in CutOff(lines)
  /\ UNCHANGED <<peer, file>>

(* The read fails: after a close from the server the capture is complete,   *)
(* otherwise an error is returned, and the stream's destructor saves what   *)
(* was recorded.                                                            *)
ReadEnd ==
  /\ capture.pc = "read"
  /\ inbox = <<>>
  /\ \/ /\ peer = "closed"
        /\ capture' = [capture EXCEPT !.pc = "flush"]
        /\ UNCHANGED <<peer, inbox, out, file>>
     \/ /\ peer = "lost"
        /\ Exit("failure")
        /\ file' = out

Flush ==
  /\ capture.pc = "flush"
  /\ capture' = [capture EXCEPT !.pc = "close"]
  /\ file' = out
  /\ UNCHANGED <<peer, inbox, out>>

(* The outcome of the closing handshake is ignored.                         *)
Close ==
  /\ capture.pc = "close"
  /\ Exit("success")
  /\ UNCHANGED file

(* The process is killed while it records.                                  *)
Killed ==
  /\ capture.pc \in {"loop", "read"}
  /\ file' \in CutOff(out)
  /\ Exit("killed")

(* What the server may do: send a frame, close, or disappear.               *)
Deliver(frame) ==
  /\ peer = "open"
  /\ inbox' = Append(inbox, frame)
  /\ UNCHANGED <<capture, peer, out, file>>

HangUp ==
  /\ peer = "open"
  /\ peer' \in {"closed", "lost"}
  /\ UNCHANGED <<capture, inbox, out, file>>

CaptureStep ==
  \/ Proceed \/ Refused \/ OpenFile \/ TestDeadline
  \/ ReadFrame \/ ReadEnd \/ Flush \/ Close

CaptureEnded == capture.pc \in {"success", "failure", "killed"}

(* The two places where nothing bounds the wait: the name lookup, and a     *)
(* read from a server that is connected and sends nothing.                  *)
Resolving == capture.pc = "resolve"
Silence == capture.pc = "read" /\ inbox = <<>> /\ peer = "open"
=============================================================================
