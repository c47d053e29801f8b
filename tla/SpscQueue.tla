----------------------------- MODULE SpscQueue -----------------------------
(***************************************************************************)
(* spsc_queue<T, N> (src/concurrent_queue/spsc_queue.hpp): a bounded ring  *)
(* shared by one producer and one consumer thread without locks.           *)
(*                                                                         *)
(* Each thread owns one cursor, publishes it with a release store, and     *)
(* keeps a cached copy of the other's that it reloads only when the cache  *)
(* says there is not enough room (or nothing to read).  A step is one      *)
(* access to shared memory together with the thread-private work around    *)
(* it: a reload, one element constructed or consumed, a publication.       *)
(*                                                                         *)
(* Cursors count modulo Wrap, which is 2^64 in the code.                   *)
(***************************************************************************)
EXTENDS Integers, Sequences

CONSTANTS
  N,                  \* capacity of the ring
  Wrap,               \* cursors are 0 .. Wrap - 1
  Elements,           \* values of type T
  Batches,            \* the ranges given to try_emplace_range
  Limits,             \* the limits of try_dequeue_range and consume_up_to
  ProducerOps,        \* subset of {"try_emplace", "try_emplace_range"}
  ConsumerOps,        \* subset of the consumer's entry points
  LateLoads,          \* TRUE: an acquire load may miss the latest store
  TriviallyCopyable,  \* std::is_trivially_copyable_v<T>
  Raw,                \* storage in which no element lives
  Garbage             \* what a read outside the source range yields

ConsumerEntryPoints ==
  {"try_dequeue", "try_dequeue_range", "consume_up_to", "consume_all", "clear"}

(* N is a power of two, so that the mask is a modulus and divides 2^64.     *)
ASSUME QueueAssumption ==
  /\ N \in Nat \ {0}
  /\ Wrap \in Nat
  /\ Wrap >= 2 * N
  /\ Wrap % N = 0
  /\ Batches \subseteq Seq(Elements)
  /\ Limits \subseteq Nat
  /\ ProducerOps \subseteq {"try_emplace", "try_emplace_range"}
  /\ ConsumerOps \subseteq ConsumerEntryPoints
  /\ LateLoads \in BOOLEAN
  /\ TriviallyCopyable \in BOOLEAN
  /\ Raw \notin Elements
  /\ Garbage \notin Elements \cup {Raw}

VARIABLES
  storage,                 \* the ring: what lives in each slot
  read_position_,          \* shared, written by the consumer
  read_position_local_,    \* the consumer's own
  write_position_cache_,   \*   and its copy of the producer's cursor
  write_position_,         \* shared, written by the producer
  write_position_local_,   \* the producer's own
  read_position_cache_,    \*   and its copy of the consumer's cursor
  producer,                \* locals of the producer's running call
  consumer,                \* locals of the consumer's running call
  out,                     \* the last element handed to the consumer
  alive                    \* FALSE once the queue has been destroyed

producerVars == <<write_position_, write_position_local_, read_position_cache_, producer>>
consumerVars == <<read_position_, read_position_local_, write_position_cache_,
                  consumer, out>>
vars == <<storage, producerVars, consumerVars, alive>>

-----------------------------------------------------------------------------
(* Cursor arithmetic, as unsigned size_t arithmetic wraps it                *)

Cursor == 0 .. Wrap - 1

(* Slip: a cursor that does not wrap.                                       *)
PlusUnbounded(p, k) == p + k

Plus(p, k) == IF p + k >= Wrap THEN p + k - Wrap ELSE p + k
Minus(p, q) == IF p >= q THEN p - q ELSE p - q + Wrap

calculate_index(pos) == pos % N

(* Slip: the cache is tested again instead of being reloaded.               *)
NeverReloads(cache, current) == {cache}

(* What a load of the other thread's cursor may return: coherence forbids   *)
(* going back before the value this thread saw last, but acquire/release    *)
(* does not promise the latest one.  Positions inside a published batch,    *)
(* which no store ever wrote, are included: more than a load can return.    *)
Visible(cache, current) ==
  IF LateLoads THEN {v \in Cursor : Minus(v, cache) <= Minus(current, cache)}
               ELSE {current}

Lesser(a, b) == IF a <= b THEN a ELSE b

-----------------------------------------------------------------------------

PIdle == [pc |-> "idle"]
CIdle == [pc |-> "idle"]

Init ==
  /\ storage = [i \in 0 .. N - 1 |-> Raw]
  /\ read_position_ = 0 /\ read_position_local_ = 0 /\ write_position_cache_ = 0
  /\ write_position_ = 0 /\ write_position_local_ = 0 /\ read_position_cache_ = 0
  /\ producer = PIdle
  /\ consumer = CIdle
  /\ out = Raw
  /\ alive = TRUE

(* Slip: one slot more than the ring has.                                   *)
OneSlotTooMany(read) == N + 1 - Minus(write_position_local_, read)

(* The free slots has_room computes from a view of the read cursor.         *)
free_slots(read) == N - Minus(write_position_local_, read)

(* Entry of try_emplace and try_emplace_range up to the first has_room test. *)
Emplace(op, batch) ==
  /\ alive
  /\ producer.pc = "idle"
  /\ producer' = [pc    |-> IF free_slots(read_position_cache_) < Len(batch)
                              THEN "reload" ELSE "store",
                  op    |-> op,
                  batch |-> batch,
                  done  |-> 0]
  /\ UNCHANGED <<storage, write_position_, write_position_local_,
                 read_position_cache_, consumerVars, alive>>

(* Slip: the cached cursor alone decides that the queue is full.            *)
RefuseOnCache ==
  /\ producer.pc = "reload"
  /\ producer' = PIdle
  /\ UNCHANGED <<storage, write_position_, write_position_local_,
                 read_position_cache_, consumerVars, alive>>

(* has_room's acquire load and second test; a full queue refuses.           *)
ReloadRead ==
  /\ producer.pc = "reload"
  /\ \E v \in Visible(read_position_cache_, read_position_) :
       /\ read_position_cache_' = v
       /\ producer' = IF free_slots(v) >= Len(producer.batch)
                        THEN [producer EXCEPT !.pc = "store"] ELSE PIdle
  /\ UNCHANGED <<storage, write_position_, write_position_local_, consumerVars, alive>>

(* Element number k (from 0) as it is written to the ring.  The copying     *)
(* path of try_emplace_range computes src = data(r) + first_chunk and uses  *)
(* it for both memcpy calls.                                                *)
Written(k) ==
  LET count       == Len(producer.batch)
      write_index == calculate_index(write_position_local_)
      first_chunk == Lesser(count, N - write_index)
      source      == IF k < first_chunk THEN first_chunk + k ELSE k
  IN  IF TriviallyCopyable /\ producer.op = "try_emplace_range"
        THEN IF source < count THEN producer.batch[source + 1] ELSE Garbage
        ELSE producer.batch[k + 1]

(* Slip: the elements sit behind a lock the consumer holds while it takes,  *)
(* so a producer inside a call waits for a consumer inside one.             *)
StoreUnderLock ==
  /\ producer.pc = "store" /\ consumer.pc # "take"
  /\ producer.done < Len(producer.batch)
  /\ storage' = [storage EXCEPT
       ![calculate_index(Plus(write_position_local_, producer.done))] =
         Written(producer.done)]
  /\ producer' = [producer EXCEPT !.done = @ + 1]
  /\ UNCHANGED <<write_position_, write_position_local_, read_position_cache_,
                 consumerVars, alive>>

(* construct_at, or the next element of a memcpy.                           *)
Store ==
  /\ producer.pc = "store"
  /\ producer.done < Len(producer.batch)
  /\ storage' = [storage EXCEPT
       ![calculate_index(Plus(write_position_local_, producer.done))] =
         Written(producer.done)]
  /\ producer' = [producer EXCEPT !.done = @ + 1]
  /\ UNCHANGED <<write_position_, write_position_local_, read_position_cache_,
                 consumerVars, alive>>

(* Slip: the cursor is published before the elements are constructed.       *)
PublishEarly ==
  /\ producer.pc = "store"
  /\ LET new_write == Plus(write_position_local_, Len(producer.batch))
     IN  write_position_local_' = new_write /\ write_position_' = new_write
  /\ producer' = PIdle
  /\ UNCHANGED <<storage, read_position_cache_, consumerVars, alive>>

(* publish_write and return true.                                           *)
PublishWrite ==
  /\ producer.pc = "store"
  /\ producer.done = Len(producer.batch)
  /\ LET new_write == Plus(write_position_local_, Len(producer.batch))
     IN  write_position_local_' = new_write /\ write_position_' = new_write
  /\ producer' = PIdle
  /\ UNCHANGED <<storage, read_position_cache_, consumerVars, alive>>

-----------------------------------------------------------------------------

(* What a call with this limit does once it knows how far it may read.      *)
Taking(op, limit, seen, write) ==
  LET available == Minus(write, read_position_local_)
      count     == IF op \in {"consume_all", "clear"} THEN available
                   ELSE Lesser(limit, available)
  IN  [pc |-> "take", op |-> op, seen |-> seen, pos |-> read_position_local_,
       end |-> Plus(read_position_local_, count)]

(* Entry of a consuming call up to readable()'s first test.  clear always   *)
(* loads.  `seen` is history: the write cursor when the call was entered.   *)
Consume(op, limit) ==
  /\ alive
  /\ consumer.pc = "idle"
  /\ consumer' =
       IF op = "clear" \/ read_position_local_ = write_position_cache_
         THEN [pc |-> "reload", op |-> op, limit |-> limit, seen |-> write_position_]
         ELSE Taking(op, limit, write_position_, write_position_cache_)
  /\ UNCHANGED <<storage, producerVars, read_position_, read_position_local_,
                 write_position_cache_, out, alive>>

(* The acquire load of the write cursor.  Calls that find nothing return;   *)
(* consume_all and clear go on to publish an unmoved cursor.                *)
ReloadWrite ==
  /\ consumer.pc = "reload"
  /\ \E v \in Visible(write_position_cache_, write_position_) :
       /\ write_position_cache_' = v
       /\ consumer' =
            IF v = read_position_local_ /\ consumer.op \notin {"consume_all", "clear"}
              THEN CIdle
              ELSE Taking(consumer.op, consumer.limit, consumer.seen, v)
  /\ UNCHANGED <<storage, producerVars, read_position_, read_position_local_, out, alive>>

(* Slip: a moved-from element is not destroyed.                             *)
TakeWithoutDestroy ==
  /\ consumer.pc = "take"
  /\ consumer.pos # consumer.end
  /\ out' = IF consumer.op = "clear" THEN out
            ELSE storage[calculate_index(consumer.pos)]
  /\ consumer' = [consumer EXCEPT !.pos = Plus(@, 1)]
  /\ UNCHANGED <<storage, producerVars, read_position_, read_position_local_,
                 write_position_cache_, alive>>

(* One element is moved out (or passed to fn) and destroyed; clear only     *)
(* destroys.                                                                *)
Take ==
  /\ consumer.pc = "take"
  /\ consumer.pos # consumer.end
  /\ LET cell == calculate_index(consumer.pos)
     IN  /\ out' = IF consumer.op = "clear" THEN out ELSE storage[cell]
         /\ storage' = [storage EXCEPT ![cell] = Raw]
  /\ consumer' = [consumer EXCEPT !.pos = Plus(@, 1)]
  /\ UNCHANGED <<producerVars, read_position_, read_position_local_,
                 write_position_cache_, alive>>

(* publish_read and return.                                                 *)
PublishRead ==
  /\ consumer.pc = "take"
  /\ consumer.pos = consumer.end
  /\ read_position_local_' = consumer.end
  /\ read_position_' = consumer.end
  /\ consumer' = CIdle
  /\ UNCHANGED <<storage, producerVars, write_position_cache_, out, alive>>

(* Slip: the destructor stops at the end of the ring.                       *)
DestroyWithoutWrap ==
  /\ alive
  /\ producer.pc = "idle" /\ consumer.pc = "idle"
  /\ storage' = [i \in 0 .. N - 1 |->
       IF /\ i >= calculate_index(read_position_)
          /\ i < calculate_index(read_position_) + Minus(write_position_, read_position_)
         THEN Raw ELSE storage[i]]
  /\ alive' = FALSE
  /\ UNCHANGED <<producerVars, consumerVars>>

(* ~spsc_queue, which requires that neither thread is in a call.            *)
Destroy ==
  /\ alive
  /\ producer.pc = "idle" /\ consumer.pc = "idle"
  /\ storage' = [i \in 0 .. N - 1 |->
       IF \E k \in 0 .. Minus(write_position_, read_position_) - 1 :
            i = calculate_index(Plus(read_position_, k))
         THEN Raw ELSE storage[i]]
  /\ alive' = FALSE
  /\ UNCHANGED <<producerVars, consumerVars>>

-----------------------------------------------------------------------------

ProducerCalls ==
  \/ "try_emplace" \in ProducerOps /\ \E e \in Elements : Emplace("try_emplace", <<e>>)
  \/ "try_emplace_range" \in ProducerOps /\ \E b \in Batches : Emplace("try_emplace_range", b)

ConsumerCalls ==
  \/ "try_dequeue" \in ConsumerOps /\ Consume("try_dequeue", 1)
  \/ \E op \in {"try_dequeue_range", "consume_up_to"} \cap ConsumerOps, limit \in Limits :
       Consume(op, limit)
  \/ \E op \in {"consume_all", "clear"} \cap ConsumerOps : Consume(op, 0)

ProducerRuns == ReloadRead \/ Store \/ PublishWrite
ConsumerRuns == ReloadWrite \/ Take \/ PublishRead

Destroyed == ~alive /\ UNCHANGED vars

Next ==
  \/ ProducerCalls \/ ProducerRuns
  \/ ConsumerCalls \/ ConsumerRuns
  \/ Destroy \/ Destroyed

(* Either thread may stop for ever, inside a call or outside.  That a       *)
(* thread keeps running is the hypothesis of what CallsReturn says of it.   *)
Spec == Init /\ [][Next]_vars

-----------------------------------------------------------------------------
(* Properties                                                               *)

(* Type invariant: positions, batches and the state of both calls.          *)
TypeOK ==
  /\ storage \in [0 .. N - 1 -> Elements \cup {Raw, Garbage}]
  /\ read_position_ \in Cursor /\ read_position_local_ = read_position_
  /\ write_position_ \in Cursor /\ write_position_local_ = write_position_
  /\ read_position_cache_ \in Cursor
  /\ write_position_cache_ \in Cursor
  /\ \/ producer = PIdle
     \/ /\ producer \in [pc : {"reload", "store"}, op : ProducerOps,
                         batch : Seq(Elements), done : Nat]
        /\ producer.done <= Len(producer.batch)
  /\ \/ consumer = CIdle
     \/ consumer \in [pc : {"reload"}, op : ConsumerOps, limit : Nat, seen : Cursor]
     \/ consumer \in [pc : {"take"}, op : ConsumerOps, seen : Cursor,
                      pos : Cursor, end : Cursor]
  /\ out \in Elements \cup {Raw, Garbage}
  /\ alive \in BOOLEAN

(* The number of elements enqueued.                                         *)
Count == Minus(write_position_, read_position_)

(* The class invariants on the cursors, made inductive: in ring order the   *)
(* producer's stale copy of the read cursor, the read cursor, what the      *)
(* consumer is taking, its stale copy of the write cursor, the write cursor *)
(* and what the producer is writing follow one another, and all of it lies  *)
(* within N positions.  So the count is in [0, N] however stale either copy *)
(* is and however often the counters have wrapped.                          *)
CursorWindow ==
  /\ Minus(read_position_, read_position_cache_) + Count <= N
  /\ Minus(write_position_cache_, read_position_) <= Count
  /\ producer.pc = "store" =>
       Minus(read_position_, read_position_cache_) + Count + Len(producer.batch) <= N
  /\ consumer.pc = "take" =>
       Minus(consumer.pos, read_position_)
         <= Minus(consumer.end, read_position_)
       /\ Minus(consumer.end, read_position_)
         <= Minus(write_position_cache_, read_position_)

(* The positions between which elements live right now: a call in progress  *)
(* has already destroyed, or constructed, part of its range.                *)
LiveFrom == IF consumer.pc = "take" THEN consumer.pos ELSE read_position_
LiveTo == IF producer.pc = "store" THEN Plus(write_position_, producer.done)
                                   ELSE write_position_

(* A slot holds a live element exactly while its position lies between the  *)
(* two: an element is only constructed in raw storage, and only a live one  *)
(* is moved from and destroyed, once.                                       *)
SlotsLive ==
  alive => \A i \in 0 .. N - 1 :
    storage[i] # Raw <=>
      \E k \in 0 .. Minus(LiveTo, LiveFrom) - 1 : i = calculate_index(Plus(LiveFrom, k))

(* The destructor leaves no element behind, wherever the cursors stopped.   *)
NothingLeaks == ~alive => \A i \in 0 .. N - 1 : storage[i] = Raw

(* size(), called by either thread, is in [0, N]; the assertions            *)
(* !is_full() in try_emplace and !is_empty() in try_dequeue hold.           *)
ObserversExact ==
  /\ \A v \in Visible(read_position_cache_, read_position_) :
       /\ Minus(write_position_, v) <= N
       /\ producer.pc = "store" /\ producer.op = "try_emplace"
            => Minus(write_position_, v) # N
  /\ \A v \in Visible(write_position_cache_, write_position_) :
       /\ Minus(v, read_position_) <= N
       /\ consumer.pc = "take" /\ consumer.op = "try_dequeue"
            => Minus(v, read_position_) # 0

(* The queue is non-blocking: a thread that keeps running returns from each *)
(* of its calls, even if the other stops for ever in the middle of one of   *)
(* its own.                                                                 *)
ProducerReturns ==
  WF_vars(ProducerRuns) => (producer.pc # "idle" ~> producer.pc = "idle")
ConsumerReturns ==
  WF_vars(ConsumerRuns) => (consumer.pc # "idle" ~> consumer.pc = "idle")
CallsReturn == ProducerReturns /\ ConsumerReturns

(* A call that reports the queue empty found it empty: the shared write     *)
(* cursor had caught up when it was loaded (readable(): "0 only when the    *)
(* queue is genuinely empty").  A clear, or a consume_all that loads the    *)
(* cursor, goes on to take everything enqueued by then: when it returns, it *)
(* has emptied the queue of that.  Needs loads that are not late.           *)
EmptyOnlyWhenEmpty ==
  [][ consumer.pc = "reload" =>
        /\ consumer'.pc = "idle" => Count = 0
        /\ consumer'.pc = "take" /\ consumer.op \in {"consume_all", "clear"}
             => consumer'.end = write_position_ ]_vars

(* A range is refused only when it does not fit at that moment.             *)
RefusedOnlyWhenFull ==
  [][ /\ producer.pc = "reload"
      /\ producer'.pc = "idle"
      => Count + Len(producer.batch) > N ]_vars

(* "Apply fn to every queued element in place, then empty the queue"        *)
(* (consume_all): what was enqueued when the call was entered is consumed.  *)
ConsumeAllEmpties ==
  consumer.pc = "take" /\ consumer.op = "consume_all" =>
    Minus(consumer.seen, read_position_) <= Minus(consumer.end, read_position_)
=============================================================================
