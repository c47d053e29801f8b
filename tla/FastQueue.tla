----------------------------- MODULE FastQueue -----------------------------
(***************************************************************************)
(* FastQueue (src/concurrent_queue/fast_queue.hpp): a byte ring between    *)
(* one producer and one consumer thread.  A message is stored as a frame,  *)
(* kHeader bytes of length (lowest first) and then the payload.  The       *)
(* threads keep no cursor of their own: every call loads both.  A step is  *)
(* the loads and the test on entry, one byte copied, or a publication; the *)
(* two copy_in (copy_out) calls of a frame are adjacent and run as one.    *)
(*                                                                         *)
(* An atomic is the sequence of values the other thread can still load:    *)
(* its first entry is the value that thread loaded last, its last entry    *)
(* the latest store.                                                       *)
(***************************************************************************)
EXTENDS Integers, Sequences, SequencesExt

CONSTANTS
  capacity_bytes,  \* the constructor's argument
  kHeader,         \* bytes of a length; 4 in the code
  Base,            \* values of a byte; 256 in the code
  Wrap,            \* cursors are 0 .. Wrap - 1; 2^64 in the code
  Messages,        \* the payloads pushed
  OutSize,         \* the size of the span try_pop is given
  NoMessage        \* what the consumer holds before its first message

Byte == 0 .. Base - 1

(* The smallest power of two that is at least v: p after k iterations of a  *)
(* loop that v of them are enough for.                                      *)
round_up_pow2(v) ==
  LET p[k \in 0 .. v] ==
        IF k = 0 THEN 1 ELSE IF p[k - 1] < v THEN 2 * p[k - 1] ELSE p[k - 1]
  IN  p[v]

capacity_ == round_up_pow2(capacity_bytes)

(* What one of byte i of a header counts for, from 0; the last entry is the *)
(* number of lengths a header can hold (2^32).                              *)
Weight ==
  LET weight[i \in 0 .. kHeader] == IF i = 0 THEN 1 ELSE Base * weight[i - 1]
  IN  weight

(* Payloads are shorter than 2^32 bytes, and the consumer's span is large   *)
(* enough for each ("must be at least as large as the message").            *)
ASSUME FastQueueAssumption ==
  /\ capacity_bytes \in Nat
  /\ kHeader \in Nat \ {0}
  /\ Base \in Nat \ {0, 1}
  /\ Wrap \in Nat /\ Wrap >= 2 * capacity_ /\ Wrap % capacity_ = 0
  /\ Messages \subseteq Seq(Byte)
  /\ \A m \in Messages : Len(m) < Weight[kHeader] /\ Len(m) <= OutSize
  /\ NoMessage \notin Messages

VARIABLES buffer_, read_, write_, producer, consumer, out

vars == <<buffer_, read_, write_, producer, consumer, out>>

-----------------------------------------------------------------------------

Cursor == 0 .. Wrap - 1

(* Slip: a cursor that does not wrap.                                       *)
PlusUnbounded(p, k) == p + k

Plus(p, k) == (p + k) % Wrap
Minus(p, q) == (p - q) % Wrap

(* pos & mask_                                                              *)
offset(pos) == pos % capacity_

(* The latest store, and a load by the other thread, which may be late but  *)
(* never goes back.                                                         *)
Latest(atomic) == Last(atomic)
Loaded(atomic, i) == SubSeq(atomic, i, Len(atomic))

(* static_cast<std::uint32_t>(data.size())                                  *)
size(data) == Len(data) % Weight[kHeader]

(* Slip: the room test forgets the header.                                  *)
NeedPayloadOnly(data) == size(data)

need(data) == kHeader + size(data)

(* The bytes of a message in the ring.                                      *)
Frame(data) == [i \in 1 .. kHeader |-> (size(data) \div Weight[i - 1]) % Base] \o data

(* The length in the header that the first bytes of a frame hold.           *)
SizeOf(bytes) ==
  LET value[i \in 0 .. kHeader] ==
        IF i = 0 THEN 0 ELSE value[i - 1] + bytes[i] * Weight[i - 1]
  IN  value[kHeader]

Idle == [pc |-> "idle"]

Init ==
  /\ buffer_ = [i \in 0 .. capacity_ - 1 |-> 0]
  /\ read_ = <<0>>
  /\ write_ = <<0>>
  /\ producer = Idle
  /\ consumer = Idle
  /\ out = NoMessage

(* try_push up to the room test; a full queue refuses.                      *)
Push(data) ==
  /\ producer = Idle
  /\ \E i \in DOMAIN read_ :
       /\ read_' = Loaded(read_, i)
       /\ producer' =
            IF capacity_ - Minus(Latest(write_), read_[i]) < need(data)
              THEN Idle ELSE [pc |-> "copy", data |-> data, done |-> 0]
  /\ UNCHANGED <<buffer_, write_, consumer, out>>

(* Slip: the copy stays inside what is left of the ring.                    *)
CopyInWithoutWrap ==
  /\ producer.pc = "copy"
  /\ LET frame == Frame(producer.data)
         at    == offset(Latest(write_)) + producer.done
     IN  /\ producer.done < Len(frame)
         /\ buffer_' = IF at < capacity_
                         THEN [buffer_ EXCEPT ![at] = frame[producer.done + 1]]
                         ELSE buffer_
  /\ producer' = [producer EXCEPT !.done = @ + 1]
  /\ UNCHANGED <<read_, write_, consumer, out>>

(* The next byte of the header or of the payload.                           *)
copy_in ==
  /\ producer.pc = "copy"
  /\ LET frame == Frame(producer.data)
     IN  /\ producer.done < Len(frame)
         /\ buffer_' = [buffer_ EXCEPT ![offset(Plus(Latest(write_), producer.done))] =
                          frame[producer.done + 1]]
  /\ producer' = [producer EXCEPT !.done = @ + 1]
  /\ UNCHANGED <<read_, write_, consumer, out>>

(* The release store of try_push.                                           *)
PublishWrite ==
  /\ producer.pc = "copy"
  /\ producer.done = Len(Frame(producer.data))
  /\ write_' = Append(write_, Plus(Latest(write_), need(producer.data)))
  /\ producer' = Idle
  /\ UNCHANGED <<buffer_, read_, consumer, out>>

(* try_pop up to the test for an empty queue.                               *)
Pop ==
  /\ consumer = Idle
  /\ \E i \in DOMAIN write_ :
       /\ write_' = Loaded(write_, i)
       /\ consumer' = IF Latest(read_) = write_[i] THEN Idle
                      ELSE [pc |-> "copy", write |-> write_[i], bytes |-> <<>>]
  /\ UNCHANGED <<buffer_, read_, producer, out>>

(* The whole header has been read, so the length is known.                  *)
HeaderRead == Len(consumer.bytes) >= kHeader

FrameRead == HeaderRead /\ Len(consumer.bytes) = kHeader + SizeOf(consumer.bytes)

(* Slip: the ring sits behind a lock the producer holds while it copies, so *)
(* a consumer inside a call waits for a producer inside one.                *)
CopyOutUnderLock ==
  /\ consumer.pc = "copy" /\ producer.pc # "copy"
  /\ ~FrameRead
  /\ consumer' = [consumer EXCEPT !.bytes =
       Append(@, buffer_[offset(Plus(Latest(read_), Len(@)))])]
  /\ UNCHANGED <<buffer_, read_, write_, producer, out>>

(* The next byte of the header or of the payload.                           *)
copy_out ==
  /\ consumer.pc = "copy"
  /\ ~FrameRead
  /\ consumer' = [consumer EXCEPT !.bytes =
       Append(@, buffer_[offset(Plus(Latest(read_), Len(@)))])]
  /\ UNCHANGED <<buffer_, read_, write_, producer, out>>

(* The release store of try_pop; out holds the payload.                     *)
PublishRead ==
  /\ consumer.pc = "copy"
  /\ FrameRead
  /\ out' = SubSeq(consumer.bytes, kHeader + 1, Len(consumer.bytes))
  /\ read_' = Append(read_, Plus(Latest(read_), Len(consumer.bytes)))
  /\ consumer' = Idle
  /\ UNCHANGED <<buffer_, write_, producer>>

ProducerRuns == copy_in \/ PublishWrite
ConsumerRuns == copy_out \/ PublishRead

Next == (\E data \in Messages : Push(data)) \/ ProducerRuns \/ Pop \/ ConsumerRuns

(* Either thread may stop for ever, inside a call or outside.  That a       *)
(* thread keeps running is the hypothesis of what CallsReturn says of it.   *)
Spec == Init /\ [][Next]_vars

-----------------------------------------------------------------------------
(* Properties                                                               *)

(* Bytes enqueued.                                                          *)
Used == Minus(Latest(write_), Latest(read_))

(* Type invariant: cursors, bytes and both calls' locals.                   *)
TypeOK ==
  /\ buffer_ \in [0 .. capacity_ - 1 -> Byte]
  /\ read_ \in Seq(Cursor) /\ read_ # <<>>
  /\ write_ \in Seq(Cursor) /\ write_ # <<>>
  /\ \/ producer = Idle
     \/ /\ producer \in [pc : {"copy"}, data : Messages, done : Nat]
        /\ producer.done <= Len(Frame(producer.data))
  /\ \/ consumer = Idle
     \/ consumer \in [pc : {"copy"}, write : Cursor, bytes : Seq(Byte)]
  /\ out \in Messages \cup {NoMessage}

(* The assertions "queue corrupted" and "destination span too small" of     *)
(* try_pop hold: a length read from the ring never reaches past the bytes   *)
(* the producer has published, and the bytes in use never exceed the ring.  *)
QueueIntact ==
  /\ Used <= capacity_
  /\ producer.pc = "copy" => Used + Len(Frame(producer.data)) <= capacity_
  /\ consumer.pc = "copy" /\ HeaderRead =>
       /\ kHeader + SizeOf(consumer.bytes) <= Minus(consumer.write, Latest(read_))
       /\ SizeOf(consumer.bytes) <= OutSize

(* A thread that keeps running returns from each of its calls, even if the  *)
(* other stops for ever in the middle of its own and whatever length the    *)
(* header in the ring holds.                                                *)
ProducerReturns ==
  WF_vars(ProducerRuns) => (producer.pc # "idle" ~> producer.pc = "idle")
ConsumerReturns ==
  WF_vars(ConsumerRuns) => (consumer.pc # "idle" ~> consumer.pc = "idle")
CallsReturn == ProducerReturns /\ ConsumerReturns
=============================================================================
