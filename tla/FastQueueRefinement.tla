------------------------ MODULE FastQueueRefinement ------------------------
(***************************************************************************)
(* FastQueue implements BoundedFifo: its items are the messages that the   *)
(* bytes between the cursors spell, frame after frame.  Each takes at      *)
(* least a header, which bounds their number.                              *)
(***************************************************************************)
EXTENDS FastQueue

(* length bytes of a ring, from k bytes before a cursor on.                 *)
Bytes(ring, to, k, length) ==
  [j \in 1 .. length |-> ring[offset(Plus(to, Wrap - (k - j + 1)))]]

(* The n bytes up to a cursor, cut into messages.                           *)
Parsed(ring, to, n) ==
  LET parsed[k \in 0 .. n] ==
        IF k < kHeader THEN <<>>
        ELSE LET length == SizeOf(Bytes(ring, to, k, kHeader))
             IN  IF kHeader + length > k THEN <<NoMessage>>
                 ELSE <<Bytes(ring, to, k - kHeader, length)>> \o parsed[k - kHeader - length]
  IN  parsed[n]

itemsBar == Parsed(buffer_, Latest(write_), Used)
offeredBar == IF producer = Idle THEN <<>> ELSE <<producer.data>>

Fifo == INSTANCE BoundedFifo WITH
          N <- capacity_ \div kHeader, Elements <- Messages, Raw <- NoMessage,
          items <- itemsBar, offered <- offeredBar, received <- out,
          clearing <- FALSE, closed <- FALSE

(* Every message accepted by try_push is popped whole, in order and once,   *)
(* wherever its header or its payload wraps round the ring.                 *)
Delivers == Fifo!Spec
=============================================================================
