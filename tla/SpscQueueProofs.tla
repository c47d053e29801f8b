-------------------------- MODULE SpscQueueProofs --------------------------
(***************************************************************************)
(* The cursors of spsc_queue are safe for every capacity, every counter    *)
(* width that is a multiple of it, every element type and every mix of     *)
(* calls, with acquire loads that may be late; and the queue is a lossless *)
(* bounded FIFO, except where try_emplace_range copies with memcpy: that   *)
(* path reads its first chunk from the wrong place.                        *)
(*                                                                         *)
(* TypeOK and CursorWindow are inductive together.  The bound on the count *)
(* alone is not: it takes the position of both stale copies (the producer  *)
(* trusts a read cursor that is behind, the consumer a write cursor that   *)
(* is behind) and of the ranges both calls have reserved.                  *)
(***************************************************************************)
EXTENDS SpscQueueRefinement, InductionLemmas, SequenceTheorems

USE DEF Cursor

(* The ring is smaller than the range of the cursors.                       *)
LEMMA NBelowWrap == N \in Nat /\ Wrap \in Nat /\ N < Wrap
  BY QueueAssumption

(* Advancing a cursor yields a cursor.                                      *)
LEMMA PlusType ==
  ASSUME NEW p \in Cursor, NEW k \in Nat, k <= Wrap
  PROVE  Plus(p, k) \in Cursor
  BY QueueAssumption DEF Plus

(* The distance of two cursors is below Wrap.                               *)
LEMMA MinusType ==
  ASSUME NEW p \in Cursor, NEW q \in Cursor
  PROVE  Minus(p, q) \in 0 .. Wrap - 1
  BY QueueAssumption DEF Minus

(* Advancing a cursor lengthens its distance from any origin, as long as it *)
(* does not lap it.                                                         *)
LEMMA PlusMoves ==
  ASSUME NEW p \in Cursor, NEW q \in Cursor, NEW k \in Nat,
         Minus(p, q) + k < Wrap
  PROVE  Minus(Plus(p, k), q) = Minus(p, q) + k
  BY QueueAssumption DEF Plus, Minus

(* Distances add up along the ring.                                         *)
LEMMA MinusSplits ==
  ASSUME NEW p \in Cursor, NEW q \in Cursor, NEW r \in Cursor,
         Minus(q, p) <= Minus(r, p)
  PROVE  Minus(r, p) = Minus(q, p) + Minus(r, q)
  BY QueueAssumption DEF Minus

(* The same from the parts, when they do not lap the ring.                  *)
LEMMA MinusJoins ==
  ASSUME NEW p \in Cursor, NEW q \in Cursor, NEW r \in Cursor,
         Minus(q, p) + Minus(r, q) < Wrap
  PROVE  Minus(r, p) = Minus(q, p) + Minus(r, q)
  BY QueueAssumption DEF Minus

(* A cursor is at distance 0 from itself.                                   *)
LEMMA MinusSelf == \A p \in Cursor : Minus(p, p) = 0
  BY QueueAssumption DEF Minus

(* Loads return a position between the last one seen and the current one.   *)
LEMMA VisibleBetween ==
  ASSUME NEW cache \in Cursor, NEW current \in Cursor,
         NEW v \in Visible(cache, current)
  PROVE  v \in Cursor /\ Minus(v, cache) <= Minus(current, cache)
  BY QueueAssumption, MinusType DEF Visible

(* Every cursor selects a slot of the ring.                                 *)
LEMMA IndexType == \A p \in Cursor : calculate_index(p) \in 0 .. N - 1
  BY QueueAssumption DEF calculate_index

(* Wrapping a cursor does not change its slot: N divides Wrap.              *)
LEMMA ModShift ==
  ASSUME NEW a \in Nat, a >= Wrap
  PROVE  (a - Wrap) % N = a % N
<1> DEFINE p == a \div N
           w == Wrap \div N
<1>1. p \in Nat /\ a = N * p + (a % N) /\ a % N \in 0 .. N - 1
  BY ModSplit, QueueAssumption
<1>2. w \in Nat /\ Wrap = N * w
  BY ModSplit, QueueAssumption
<1> HIDE DEF p, w
<1>3. p >= w
  <2>1. SUFFICES ASSUME p + 1 <= w PROVE FALSE
    BY <1>1, <1>2
  <2>2. N * (p + 1) <= N * w /\ N * (p + 1) = N * p + N
    BY <1>1, <1>2, <2>1, QueueAssumption
  <2> QED BY <1>1, <1>2, <2>2, QueueAssumption
<1>4. p - w \in Nat /\ a - Wrap = N * (p - w) + (a % N)
  BY <1>1, <1>2, <1>3, QueueAssumption
<1> QED BY <1>1, <1>4, ModUnique, QueueAssumption

(* The slot k positions after a cursor.                                     *)
LEMMA IndexPlus ==
  ASSUME NEW p \in Cursor, NEW k \in Nat
  PROVE  calculate_index(Plus(p, k)) = (p + k) % N
<1>1. p + k \in Nat /\ Wrap \in Nat
  BY QueueAssumption
<1>2. CASE p + k >= Wrap
  <2>1. Plus(p, k) = p + k - Wrap
    BY <1>2 DEF Plus
  <2>2. (p + k - Wrap) % N = (p + k) % N
    BY <1>1, <1>2, ModShift
  <2> QED BY <2>1, <2>2 DEF calculate_index
<1>3. CASE ~(p + k >= Wrap)
  BY <1>3 DEF Plus, calculate_index
<1> QED BY <1>2, <1>3

(* N consecutive positions lie in N different slots.                        *)
LEMMA IndexInjective ==
  ASSUME NEW p \in Cursor, NEW j \in 0 .. N - 1, NEW k \in 0 .. N - 1,
         calculate_index(Plus(p, j)) = calculate_index(Plus(p, k))
  PROVE  j = k
<1>1. /\ p + j \in Nat /\ p + k \in Nat /\ N \in Nat \ {0}
      /\ p \in Nat /\ j \in Nat /\ k \in Nat
  BY QueueAssumption
<1>2. (p + j) % N = (p + k) % N
  BY <1>1, IndexPlus
<1>3. CASE j <= k
  <2>1. p + j <= p + k /\ (p + k) - (p + j) < N
    BY <1>1, <1>3
  <2>2. p + j = p + k
    BY <1>1, <1>2, <2>1, ModClose
  <2> QED BY <1>1, <2>2
<1>4. CASE k <= j
  <2>1. p + k <= p + j /\ (p + j) - (p + k) < N
    BY <1>1, <1>4
  <2>2. p + k = p + j
    BY <1>1, <1>2, <2>1, ModClose
  <2> QED BY <1>1, <2>2
<1> QED BY <1>1, <1>3, <1>4

(* Advancing twice is advancing by the sum.                                 *)
LEMMA PlusPlus ==
  ASSUME NEW p \in Cursor, NEW j \in Nat, NEW k \in Nat, j + k < Wrap
  PROVE  Plus(Plus(p, j), k) = Plus(p, j + k)
  BY QueueAssumption DEF Plus

(* Advancing a cursor by its distance to another reaches that one.          *)
LEMMA PlusMinus ==
  ASSUME NEW p \in Cursor, NEW q \in Cursor
  PROVE  Plus(q, Minus(p, q)) = p
  BY QueueAssumption DEF Plus, Minus

(* Advancing by nothing.                                                    *)
LEMMA PlusZero == \A p \in Cursor : Plus(p, 0) = p
  BY QueueAssumption DEF Plus

(* Two cursors are apart exactly when their distance is not 0.              *)
LEMMA MinusZero == \A p, q \in Cursor : Minus(p, q) = 0 <=> p = q
  BY QueueAssumption DEF Minus

-----------------------------------------------------------------------------

(* The inductive invariant of the cursors.                                  *)
Inv == TypeOK /\ CursorWindow

(* An empty queue satisfies the invariant.                                  *)
LEMMA InitInv == Init => Inv
<1> SUFFICES ASSUME Init PROVE Inv
  OBVIOUS
<1>1. TypeOK
  BY QueueAssumption DEF Init, TypeOK, PIdle, CIdle
<1>2. CursorWindow
  BY QueueAssumption DEF Init, CursorWindow, Count, Minus, PIdle, CIdle
<1> QED BY <1>1, <1>2 DEF Inv

(* The distances the window is made of are naturals below Wrap.             *)
LEMMA Distances ==
  ASSUME TypeOK
  PROVE  /\ Count \in 0 .. Wrap - 1
         /\ Minus(read_position_, read_position_cache_) \in 0 .. Wrap - 1
         /\ Minus(write_position_cache_, read_position_) \in 0 .. Wrap - 1
  BY MinusType DEF TypeOK, Count

(* What the producer believes is in use spans what it has not seen freed    *)
(* and what is really enqueued.                                             *)
LEMMA ProducerView ==
  ASSUME TypeOK, CursorWindow
  PROVE  Minus(write_position_, read_position_cache_)
           = Minus(read_position_, read_position_cache_) + Count
<1>1. Minus(read_position_, read_position_cache_)
        + Minus(write_position_, read_position_) < Wrap
  BY NBelowWrap, Distances DEF CursorWindow, Count
<1>2. /\ read_position_cache_ \in Cursor /\ read_position_ \in Cursor
      /\ write_position_ \in Cursor
  BY DEF TypeOK
<1> QED BY <1>1, <1>2, MinusJoins DEF Count

(* Entering try_emplace or try_emplace_range preserves it: the cached       *)
(* cursor is old, not wrong.                                                *)
LEMMA EmplaceInv ==
  ASSUME Inv, NEW op \in ProducerOps, NEW batch \in Seq(Elements), Emplace(op, batch)
  PROVE  Inv'
<1> USE DEF Inv
<1>1. TypeOK'
  BY DEF Emplace, TypeOK, PIdle, CIdle, consumerVars
<1>2. /\ Len(batch) \in Nat
      /\ write_position_local_ = write_position_
      /\ producer'.batch = batch
      /\ producer'.pc = "store" => Minus(write_position_, read_position_cache_) + Len(batch) <= N
  <2>1. Len(batch) \in Nat /\ write_position_local_ = write_position_
    BY DEF TypeOK
  <2>2. Minus(write_position_, read_position_cache_) \in Nat
    BY MinusType DEF TypeOK
  <2>3. /\ producer'.batch = batch
        /\ producer'.pc = "store" => ~(free_slots(read_position_cache_) < Len(batch))
    BY DEF Emplace
  <2> QED BY <2>1, <2>2, <2>3, NBelowWrap DEF free_slots
<1>3. Minus(write_position_, read_position_cache_)
        = Minus(read_position_, read_position_cache_) + Count
  BY ProducerView
<1>4. CursorWindow'
  BY <1>2, <1>3 DEF Emplace, CursorWindow, Count, consumerVars
<1> QED BY <1>1, <1>4

(* has_room's load of the read cursor preserves it, however late.           *)
LEMMA ReloadReadInv == Inv /\ ReloadRead => Inv'
<1> SUFFICES ASSUME Inv, ReloadRead PROVE Inv'
  OBVIOUS
<1> USE DEF Inv
<1> DEFINE rc == read_position_cache_
           r  == read_position_
           w  == write_position_
<1>0. /\ r \in Cursor /\ rc \in Cursor /\ w \in Cursor
      /\ producer \in [pc : {"reload", "store"}, op : ProducerOps,
                       batch : Seq(Elements), done : Nat]
      /\ producer.done <= Len(producer.batch)
      /\ write_position_local_ = w
  BY DEF TypeOK, ReloadRead, PIdle
<1>1. PICK v \in Visible(rc, r) :
        /\ rc' = v
        /\ producer' = IF free_slots(v) >= Len(producer.batch)
                        THEN [producer EXCEPT !.pc = "store"] ELSE PIdle
  BY DEF ReloadRead
<1>2. v \in Cursor /\ Minus(v, rc) <= Minus(r, rc)
  BY <1>0, <1>1, VisibleBetween
<1>3. /\ Minus(r, rc) = Minus(v, rc) + Minus(r, v)
      /\ Minus(v, rc) \in Nat /\ Minus(r, v) \in Nat
  BY <1>0, <1>2, MinusSplits, MinusType
<1>4. Minus(w, v) = Minus(r, v) + Count
  <2>1. Minus(r, v) + Minus(w, r) < Wrap
    BY <1>3, Distances, NBelowWrap DEF CursorWindow, Count
  <2> QED BY <1>0, <1>2, <2>1, MinusJoins DEF Count
<1>5. TypeOK'
  <2>1. \/ producer' = PIdle
        \/ /\ producer' \in [pc : {"reload", "store"}, op : ProducerOps,
                             batch : Seq(Elements), done : Nat]
           /\ producer'.done <= Len(producer'.batch)
    BY <1>0, <1>1
  <2> QED BY <1>1, <1>2, <2>1 DEF ReloadRead, TypeOK, consumerVars
<1>6. /\ UNCHANGED <<r, w, write_position_cache_, consumer>>
      /\ Count' = Count
  BY DEF ReloadRead, consumerVars, Count
<1>7. Minus(r, v) + Count <= N
  BY <1>3, Distances, QueueAssumption DEF CursorWindow
<1>8. producer'.pc = "store" => Minus(r, v) + Count + Len(producer'.batch) <= N
  <2> SUFFICES ASSUME producer'.pc = "store"
               PROVE  Minus(r, v) + Count + Len(producer'.batch) <= N
    OBVIOUS
  <2>1. producer' = [producer EXCEPT !.pc = "store"] /\ free_slots(v) >= Len(producer.batch)
    BY <1>1 DEF PIdle
  <2>2. producer'.batch = producer.batch /\ Len(producer.batch) \in Nat
    BY <1>0, <2>1
  <2>3. N - Minus(w, v) >= Len(producer.batch)
    BY <1>0, <2>1 DEF free_slots
  <2>4. Minus(w, v) \in Nat
    BY <1>0, <1>2, MinusType
  <2> QED BY <1>4, <2>2, <2>3, <2>4, NBelowWrap
<1>9. CursorWindow'
  BY <1>1, <1>6, <1>7, <1>8 DEF CursorWindow
<1> QED BY <1>5, <1>9

(* What is written to a slot is an element, or what lies past the source.   *)
LEMMA WrittenType ==
  ASSUME TypeOK, Store
  PROVE  Written(producer.done) \in Elements \cup {Garbage}
<1>0. /\ producer \in [pc : {"reload", "store"}, op : ProducerOps,
                       batch : Seq(Elements), done : Nat]
      /\ producer.done < Len(producer.batch)
      /\ Len(producer.batch) \in Nat
  BY DEF TypeOK, Store, PIdle
<1> DEFINE k == producer.done
           count == Len(producer.batch)
           first_chunk == Lesser(count, N - calculate_index(write_position_local_))
           source == IF k < first_chunk THEN first_chunk + k ELSE k
<1>1. producer.batch[k + 1] \in Elements
  BY <1>0
<1>2. calculate_index(write_position_local_) \in 0 .. N - 1
  BY IndexType DEF TypeOK
<1>3. source \in Nat
  BY <1>0, <1>2, QueueAssumption DEF Lesser
<1> HIDE DEF source
<1>4. source < count => producer.batch[source + 1] \in Elements
  BY <1>0, <1>3
<1> QED BY <1>1, <1>4 DEF Written, source

(* Writing one element preserves it.                                        *)
LEMMA StoreInv == Inv /\ Store => Inv'
<1> SUFFICES ASSUME Inv, Store PROVE Inv'
  OBVIOUS
<1> USE DEF Inv
<1>0. /\ producer \in [pc : {"reload", "store"}, op : ProducerOps,
                       batch : Seq(Elements), done : Nat]
      /\ producer.done < Len(producer.batch)
      /\ Len(producer.batch) \in Nat
  BY DEF TypeOK, Store, PIdle
<1>1. producer' = [producer EXCEPT !.done = producer.done + 1]
  BY DEF Store
<1>2. Written(producer.done) \in Elements \cup {Garbage}
  BY WrittenType
<1>3. TypeOK'
  <2>1. storage' \in [0 .. N - 1 -> Elements \cup {Raw, Garbage}]
    BY <1>2 DEF Store, TypeOK
  <2>2. /\ producer' \in [pc : {"reload", "store"}, op : ProducerOps,
                         batch : Seq(Elements), done : Nat]
        /\ producer'.done <= Len(producer'.batch)
    BY <1>0, <1>1
  <2> QED BY <2>1, <2>2 DEF Store, TypeOK, consumerVars
<1>4. CursorWindow'
  <2>1. producer'.pc = producer.pc /\ producer'.batch = producer.batch
    BY <1>0, <1>1
  <2> QED BY <2>1 DEF Store, CursorWindow, Count, consumerVars
<1> QED BY <1>3, <1>4

(* publish_write preserves it: the batch was counted in the window.         *)
LEMMA PublishWriteInv == Inv /\ PublishWrite => Inv'
<1> SUFFICES ASSUME Inv, PublishWrite PROVE Inv'
  OBVIOUS
<1> USE DEF Inv
<1> DEFINE r == read_position_
           w == write_position_
           count == Len(producer.batch)
<1>0. /\ r \in Cursor /\ w \in Cursor /\ count \in Nat
      /\ write_position_local_ = w
      /\ w' = Plus(w, count) /\ write_position_local_' = w'
      /\ producer' = PIdle
      /\ UNCHANGED <<storage, read_position_cache_, consumerVars, alive>>
  BY DEF TypeOK, PublishWrite, PIdle
<1>1. Minus(r, read_position_cache_) + Count + count <= N
  BY DEF PublishWrite, CursorWindow
<1>2. w' \in Cursor /\ Count' = Count + count
  <2>1. count <= Wrap /\ Minus(w, r) + count < Wrap
    BY <1>0, <1>1, Distances, NBelowWrap DEF Count
  <2>2. Plus(w, count) \in Cursor /\ Minus(Plus(w, count), r) = Minus(w, r) + count
    BY <1>0, <2>1, PlusType, PlusMoves
  <2> QED BY <1>0, <2>2 DEF Count, consumerVars
<1>3. TypeOK'
  BY <1>0, <1>2 DEF TypeOK, consumerVars
<1>4. CursorWindow'
  <2>1. producer'.pc # "store"
    BY <1>0 DEF PIdle
  <2> QED BY <1>0, <1>1, <1>2, <2>1, Distances, QueueAssumption DEF CursorWindow, consumerVars
<1> QED BY <1>3, <1>4

(* c is a call about to take a range that starts at the read cursor r and   *)
(* ends at or before the write cursor it was given.                         *)
Planned(c, r, write) ==
  /\ c \in [pc : {"take"}, op : ConsumerOps, seen : Cursor, pos : Cursor, end : Cursor]
  /\ Minus(c.pos, r) = 0
  /\ Minus(c.end, r) \in Nat
  /\ Minus(c.end, r) <= Minus(write, r)

(* A call takes a range that the write cursor it knows covers.              *)
LEMMA TakingPlans ==
  ASSUME TypeOK, NEW op \in ConsumerOps, NEW limit \in Nat, NEW seen \in Cursor,
         NEW write \in Cursor
  PROVE  Planned(Taking(op, limit, seen, write), read_position_, write)
<1> DEFINE r == read_position_
           available == Minus(write, r)
           count == IF op \in {"consume_all", "clear"} THEN available
                    ELSE Lesser(limit, available)
<1>1. r \in Cursor /\ read_position_local_ = r
  BY DEF TypeOK
<1>2. available \in 0 .. Wrap - 1
  BY <1>1, MinusType
<1>3. count \in Nat /\ count <= available
  BY <1>2, NBelowWrap DEF Lesser
<1>4. Minus(r, r) = 0
  BY <1>1, MinusSelf
<1>5. Taking(op, limit, seen, write)
        = [pc |-> "take", op |-> op, seen |-> seen, pos |-> r, end |-> Plus(r, count)]
  BY <1>1 DEF Taking
<1> HIDE DEF count
<1>6. Plus(r, count) \in Cursor /\ Minus(Plus(r, count), r) = count
  <2>1. count <= Wrap /\ Minus(r, r) + count < Wrap
    BY <1>2, <1>3, <1>4, NBelowWrap
  <2> QED BY <1>1, <1>3, <1>4, <2>1, PlusType, PlusMoves
<1> QED BY <1>1, <1>3, <1>4, <1>5, <1>6 DEF Planned

(* Entering a consuming call preserves the invariant.                       *)
LEMMA ConsumeInv ==
  ASSUME Inv, NEW op \in ConsumerOps, NEW limit \in Nat, Consume(op, limit)
  PROVE  Inv'
<1> USE DEF Inv
<1>0. /\ read_position_local_ \in Cursor /\ write_position_cache_ \in Cursor
      /\ write_position_ \in Cursor
  BY DEF TypeOK
<1>1. UNCHANGED <<storage, producerVars, read_position_, read_position_local_,
                  write_position_cache_, out, alive>>
  BY DEF Consume
<1>2. CASE consumer' = [pc |-> "reload", op |-> op, limit |-> limit, seen |-> write_position_]
  <2>1. TypeOK'
    BY <1>0, <1>1, <1>2 DEF TypeOK, producerVars
  <2>2. CursorWindow'
    BY <1>1, <1>2 DEF CursorWindow, Count, producerVars
  <2> QED BY <2>1, <2>2
<1>3. CASE consumer' = Taking(op, limit, write_position_, write_position_cache_)
  <2>1. Planned(consumer', read_position_, write_position_cache_)
    BY <1>0, <1>3, TakingPlans
  <2>2. TypeOK'
    BY <1>0, <1>1, <2>1 DEF TypeOK, producerVars, Planned
  <2>3. CursorWindow'
    BY <1>1, <2>1 DEF CursorWindow, Count, producerVars, Planned
  <2> QED BY <2>2, <2>3
<1> QED BY <1>2, <1>3 DEF Consume

(* The load of the write cursor preserves it, however late.                 *)
LEMMA ReloadWriteInv == Inv /\ ReloadWrite => Inv'
<1> SUFFICES ASSUME Inv, ReloadWrite PROVE Inv'
  OBVIOUS
<1> USE DEF Inv
<1> DEFINE r == read_position_
           w == write_position_
           wc == write_position_cache_
<1>0. /\ r \in Cursor /\ w \in Cursor /\ wc \in Cursor
      /\ consumer \in [pc : {"reload"}, op : ConsumerOps, limit : Nat, seen : Cursor]
  BY DEF TypeOK, ReloadWrite, CIdle
<1>1. PICK v \in Visible(wc, w) :
        /\ wc' = v
        /\ consumer' =
             IF v = read_position_local_ /\ consumer.op \notin {"consume_all", "clear"}
               THEN CIdle
               ELSE Taking(consumer.op, consumer.limit, consumer.seen, v)
  BY DEF ReloadWrite
<1>2. UNCHANGED <<storage, producerVars, read_position_, read_position_local_, out, alive>>
  BY DEF ReloadWrite
<1>3. v \in Cursor /\ Minus(v, wc) <= Minus(w, wc)
  BY <1>0, <1>1, VisibleBetween
<1>4. Minus(v, r) <= Count
  <2>1. Minus(wc, r) <= Minus(w, r)
    BY DEF CursorWindow, Count
  <2>2. /\ Minus(w, r) = Minus(wc, r) + Minus(w, wc)
        /\ Minus(w, r) \in 0 .. Wrap - 1 /\ Minus(wc, r) \in Nat
        /\ Minus(w, wc) \in Nat /\ Minus(v, wc) \in Nat
    BY <1>0, <1>3, <2>1, MinusSplits, MinusType
  <2>3. Minus(wc, r) + Minus(v, wc) < Wrap
    BY <1>3, <2>2, NBelowWrap
  <2>4. Minus(v, r) = Minus(wc, r) + Minus(v, wc)
    BY <1>0, <1>3, <2>3, MinusJoins
  <2> QED BY <1>3, <2>2, <2>4 DEF Count
<1>5. CASE consumer' = CIdle
  <2>1. TypeOK'
    BY <1>1, <1>2, <1>3, <1>5 DEF TypeOK, producerVars
  <2>2. CursorWindow'
    BY <1>1, <1>2, <1>4, <1>5 DEF CursorWindow, Count, producerVars, CIdle
  <2> QED BY <2>1, <2>2
<1>6. CASE consumer' = Taking(consumer.op, consumer.limit, consumer.seen, v)
  <2>1. Planned(consumer', read_position_, v)
    BY <1>0, <1>3, <1>6, TakingPlans
  <2>2. TypeOK'
    BY <1>1, <1>2, <1>3, <2>1 DEF TypeOK, producerVars, Planned
  <2>3. CursorWindow'
    BY <1>1, <1>2, <1>4, <2>1 DEF CursorWindow, Count, producerVars, Planned
  <2> QED BY <2>2, <2>3
<1> QED BY <1>1, <1>5, <1>6

(* Taking one element preserves it.                                         *)
LEMMA TakeInv == Inv /\ Take => Inv'
<1> SUFFICES ASSUME Inv, Take PROVE Inv'
  OBVIOUS
<1> USE DEF Inv
<1> DEFINE r == read_position_
<1>0. /\ r \in Cursor
      /\ consumer \in [pc : {"take"}, op : ConsumerOps, seen : Cursor,
                       pos : Cursor, end : Cursor]
      /\ consumer.pos # consumer.end
      /\ consumer' = [consumer EXCEPT !.pos = Plus(consumer.pos, 1)]
      /\ UNCHANGED <<producerVars, read_position_, read_position_local_,
                     write_position_cache_, alive>>
  BY DEF TypeOK, Take, CIdle
<1>1. /\ Minus(consumer.pos, r) <= Minus(consumer.end, r)
      /\ Minus(consumer.end, r) <= Minus(write_position_cache_, r)
  BY DEF CursorWindow, Take
<1>2. /\ Minus(consumer.pos, r) \in 0 .. Wrap - 1
      /\ Minus(consumer.end, r) \in 0 .. Wrap - 1
  BY <1>0, MinusType
<1>3. Minus(consumer.pos, r) # Minus(consumer.end, r)
  BY <1>0, NBelowWrap DEF Minus
<1>4. /\ Plus(consumer.pos, 1) \in Cursor
      /\ Minus(Plus(consumer.pos, 1), r) = Minus(consumer.pos, r) + 1
  <2>1. Minus(consumer.pos, r) + 1 < Wrap
    BY <1>1, <1>2, <1>3, NBelowWrap
  <2>2. consumer.pos \in Cursor /\ 1 <= Wrap
    BY <1>0, NBelowWrap
  <2> QED BY <1>0, <2>1, <2>2, PlusType, PlusMoves
<1>5. TypeOK'
  <2>1. /\ storage' \in [0 .. N - 1 -> Elements \cup {Raw, Garbage}]
        /\ out' \in Elements \cup {Raw, Garbage}
    <3>1. calculate_index(consumer.pos) \in 0 .. N - 1
      BY <1>0, IndexType
    <3> QED BY <3>1 DEF Take, TypeOK
  <2>2. consumer' \in [pc : {"take"}, op : ConsumerOps, seen : Cursor,
                      pos : Cursor, end : Cursor]
    BY <1>0, <1>4
  <2> QED BY <1>0, <2>1, <2>2 DEF TypeOK, producerVars
<1>6. CursorWindow'
  <2>1. /\ consumer'.pos = Plus(consumer.pos, 1) /\ consumer'.end = consumer.end
        /\ consumer'.pc = "take"
    BY <1>0
  <2>2. Minus(consumer'.pos, r) <= Minus(consumer'.end, r)
    BY <1>1, <1>2, <1>3, <1>4, <2>1
  <2> QED BY <1>0, <1>1, <2>1, <2>2 DEF CursorWindow, Count, producerVars
<1> QED BY <1>5, <1>6

(* publish_read preserves it: the read cursor stays at or before the write  *)
(* cursor.                                                                  *)
LEMMA PublishReadInv == Inv /\ PublishRead => Inv'
<1> SUFFICES ASSUME Inv, PublishRead PROVE Inv'
  OBVIOUS
<1> USE DEF Inv
<1> DEFINE r == read_position_
           rc == read_position_cache_
           w == write_position_
           wc == write_position_cache_
           e == consumer.end
<1>0. /\ r \in Cursor /\ rc \in Cursor /\ w \in Cursor /\ wc \in Cursor
      /\ e \in Cursor
      /\ r' = e /\ read_position_local_' = e
      /\ consumer' = CIdle
      /\ UNCHANGED <<storage, producerVars, write_position_cache_, out, alive>>
  BY DEF TypeOK, PublishRead, CIdle
<1>1. Minus(e, r) <= Minus(wc, r) /\ Minus(wc, r) <= Minus(w, r)
  BY DEF CursorWindow, PublishRead, Count
<1>2. /\ Minus(e, r) \in 0 .. Wrap - 1 /\ Minus(wc, r) \in 0 .. Wrap - 1
      /\ Minus(w, r) \in 0 .. Wrap - 1 /\ Minus(r, rc) \in 0 .. Wrap - 1
  BY <1>0, MinusType
<1>3. /\ Minus(wc, r) = Minus(e, r) + Minus(wc, e)
      /\ Minus(w, r) = Minus(e, r) + Minus(w, e)
  <2>1. Minus(e, r) <= Minus(w, r)
    BY <1>1, <1>2
  <2> QED BY <1>0, <1>1, <2>1, MinusSplits
<1>4. Minus(wc, e) \in 0 .. Wrap - 1 /\ Minus(w, e) \in 0 .. Wrap - 1
  BY <1>0, MinusType
<1>5. Minus(e, rc) = Minus(r, rc) + Minus(e, r)
  <2>1. Minus(r, rc) + Minus(w, r) <= N
    BY DEF CursorWindow, Count
  <2>2. Minus(r, rc) + Minus(e, r) < Wrap
    BY <1>1, <1>2, <2>1, NBelowWrap
  <2> QED BY <1>0, <2>2, MinusJoins
<1>6. /\ Minus(e, rc) + Minus(w, e) = Minus(r, rc) + Minus(w, r)
      /\ Minus(wc, e) <= Minus(w, e)
  BY <1>1, <1>2, <1>3, <1>4, <1>5
<1>7. TypeOK'
  BY <1>0 DEF TypeOK, producerVars
<1>8. CursorWindow'
  BY <1>0, <1>6 DEF CursorWindow, Count, producerVars, CIdle
<1> QED BY <1>7, <1>8

(* The destructor preserves it.                                             *)
LEMMA DestroyInv == Inv /\ Destroy => Inv'
<1> SUFFICES ASSUME Inv, Destroy PROVE Inv'
  OBVIOUS
<1>1. TypeOK'
  BY DEF Inv, Destroy, TypeOK, producerVars, consumerVars
<1>2. CursorWindow'
  BY DEF Inv, Destroy, CursorWindow, Count, producerVars, consumerVars
<1> QED BY <1>1, <1>2 DEF Inv

(* Steps that change nothing preserve it.                                   *)
LEMMA StutterInv == Inv /\ UNCHANGED vars => Inv'
<1> SUFFICES ASSUME Inv, UNCHANGED vars PROVE Inv'
  OBVIOUS
<1>1. TypeOK'
  BY DEF Inv, TypeOK, vars, producerVars, consumerVars
<1>2. CursorWindow'
  BY DEF Inv, CursorWindow, Count, vars, producerVars, consumerVars
<1> QED BY <1>1, <1>2 DEF Inv

(* The invariant is inductive.                                              *)
LEMMA NextInv == Inv /\ [Next]_vars => Inv'
<1> SUFFICES ASSUME Inv, [Next]_vars PROVE Inv'
  OBVIOUS
<1>1. CASE ProducerCalls
  <2>1. \A e \in Elements : <<e>> \in Seq(Elements)
    OBVIOUS
  <2> QED BY <1>1, <2>1, EmplaceInv, QueueAssumption DEF ProducerCalls
<1>2. CASE ProducerRuns
  BY <1>2, ReloadReadInv, StoreInv, PublishWriteInv DEF ProducerRuns
<1>3. CASE ConsumerCalls
  BY <1>3, ConsumeInv, QueueAssumption DEF ConsumerCalls
<1>4. CASE ConsumerRuns
  BY <1>4, ReloadWriteInv, TakeInv, PublishReadInv DEF ConsumerRuns
<1>5. CASE Destroy
  BY <1>5, DestroyInv
<1>6. CASE Destroyed \/ UNCHANGED vars
  BY <1>6, StutterInv DEF Destroyed
<1> QED BY <1>1, <1>2, <1>3, <1>4, <1>5, <1>6 DEF Next

(* So it holds in every reachable state.                                    *)
LEMMA Inductive == Spec => []Inv
  BY InitInv, NextInv, PTL DEF Spec

(* All cursors stay in range and both calls stay well formed.               *)
THEOREM TypeCorrect == Spec => []TypeOK
<1>1. Inv => TypeOK
  BY DEF Inv
<1> QED BY <1>1, Inductive, PTL

(* The class invariants of spsc_queue: for every N and every counter width  *)
(* the consumer never overtakes the producer, the producer never laps the   *)
(* consumer, and 0 <= count <= N, with late loads and across wrap-around.   *)
THEOREM WindowHolds == Spec => []CursorWindow
<1>1. Inv => CursorWindow
  BY DEF Inv
<1> QED BY <1>1, Inductive, PTL

-----------------------------------------------------------------------------
(* What lives in the ring                                                   *)

(* Once the queue is destroyed neither thread is in a call.                 *)
Quiet == ~alive => producer.pc = "idle" /\ consumer.pc = "idle"

(* Nothing is written before there is room; try_emplace writes one element; *)
(* try_dequeue takes one that it has seen.                                  *)
Shapes ==
  /\ producer.pc = "reload" => producer.done = 0
  /\ producer.pc # "idle" /\ producer.op = "try_emplace" => Len(producer.batch) = 1
  /\ consumer.pc = "take" /\ consumer.op = "try_dequeue" =>
       write_position_cache_ # read_position_

(* Emptiness tests read a cache that is not the read cursor.                *)
LEMMA ShapesNext == Inv /\ Shapes /\ [Next]_vars => Shapes'
<1> SUFFICES ASSUME Inv, Shapes, [Next]_vars PROVE Shapes'
  OBVIOUS
<1>0. TypeOK
  BY DEF Inv
<1>1. CASE ProducerCalls
  <2>1. ASSUME NEW e \in Elements, Emplace("try_emplace", <<e>>) PROVE Shapes'
    BY <2>1 DEF Emplace, Shapes, consumerVars
  <2>2. ASSUME NEW b \in Batches, Emplace("try_emplace_range", b) PROVE Shapes'
    BY <2>2 DEF Emplace, Shapes, consumerVars
  <2> QED BY <1>1, <2>1, <2>2 DEF ProducerCalls
<1>2. CASE ReloadRead
  <2>1. producer \in [pc : {"reload", "store"}, op : ProducerOps,
                      batch : Seq(Elements), done : Nat]
    BY <1>0, <1>2 DEF TypeOK, ReloadRead, PIdle
  <2>2. \/ producer' = [producer EXCEPT !.pc = "store"]
        \/ producer' = PIdle
    BY <1>2 DEF ReloadRead
  <2> QED BY <1>2, <2>1, <2>2 DEF ReloadRead, Shapes, consumerVars, PIdle
<1>3. CASE Store
  <2>1. producer \in [pc : {"reload", "store"}, op : ProducerOps,
                      batch : Seq(Elements), done : Nat]
    BY <1>0, <1>3 DEF TypeOK, Store, PIdle
  <2> QED BY <1>3, <2>1 DEF Store, Shapes, consumerVars
<1>4. CASE PublishWrite
  BY <1>4 DEF PublishWrite, Shapes, consumerVars, PIdle
<1>5. CASE ConsumerCalls
  <2>1. ASSUME NEW op, NEW limit, Consume(op, limit) PROVE Shapes'
    <3>1. CASE consumer'.pc = "reload"
      BY <2>1, <3>1 DEF Consume, Shapes, producerVars
    <3>2. CASE consumer' = Taking(op, limit, write_position_, write_position_cache_)
               /\ read_position_local_ # write_position_cache_
      BY <2>1, <3>2, <1>0 DEF Consume, Shapes, producerVars, Taking, TypeOK
    <3> QED BY <2>1, <3>1, <3>2 DEF Consume
  <2> QED BY <1>5, <2>1 DEF ConsumerCalls
<1>6. CASE ReloadWrite
  <2>1. PICK v :
        /\ write_position_cache_' = v
        /\ consumer' =
             IF v = read_position_local_ /\ consumer.op \notin {"consume_all", "clear"}
               THEN CIdle
               ELSE Taking(consumer.op, consumer.limit, consumer.seen, v)
    BY <1>6 DEF ReloadWrite
  <2>2. CASE consumer' = CIdle
    BY <1>6, <2>2 DEF ReloadWrite, Shapes, producerVars, CIdle
  <2>3. CASE /\ consumer' = Taking(consumer.op, consumer.limit, consumer.seen, v)
             /\ v # read_position_local_ \/ consumer.op \in {"consume_all", "clear"}
    BY <1>6, <2>1, <2>3, <1>0 DEF ReloadWrite, Shapes, producerVars, Taking, TypeOK
  <2> QED BY <2>1, <2>2, <2>3
<1>7. CASE Take
  <2>1. consumer \in [pc : {"take"}, op : ConsumerOps, seen : Cursor,
                      pos : Cursor, end : Cursor]
    BY <1>0, <1>7 DEF TypeOK, Take, CIdle
  <2> QED BY <1>7, <2>1 DEF Take, Shapes, producerVars
<1>8. CASE PublishRead
  BY <1>8 DEF PublishRead, Shapes, producerVars, CIdle
<1>9. CASE Destroy
  BY <1>9 DEF Destroy, Shapes, producerVars, consumerVars
<1>10. CASE Destroyed \/ UNCHANGED vars
  BY <1>10 DEF Destroyed, Shapes, vars, producerVars, consumerVars
<1> QED BY <1>1, <1>2, <1>3, <1>4, <1>5, <1>6, <1>7, <1>8, <1>9, <1>10
        DEF Next, ProducerRuns, ConsumerRuns

(* The destructor runs between calls, and no call is entered after it.      *)
LEMMA QuietNext == Inv /\ Quiet /\ [Next]_vars => Quiet'
<1> SUFFICES ASSUME Quiet, [Next]_vars PROVE Quiet'
  OBVIOUS
<1>1. CASE ProducerCalls
  BY <1>1 DEF ProducerCalls, Emplace, Quiet
<1>2. CASE ProducerRuns
  BY <1>2 DEF ProducerRuns, ReloadRead, Store, PublishWrite, Quiet, consumerVars, PIdle
<1>3. CASE ConsumerCalls
  BY <1>3 DEF ConsumerCalls, Consume, Quiet
<1>4. CASE ConsumerRuns
  BY <1>4 DEF ConsumerRuns, ReloadWrite, Take, PublishRead, Quiet, producerVars, CIdle
<1>5. CASE Destroy
  BY <1>5 DEF Destroy, Quiet, producerVars, consumerVars
<1>6. CASE Destroyed \/ UNCHANGED vars
  BY <1>6 DEF Destroyed, Quiet, vars, producerVars, consumerVars
<1> QED BY <1>1, <1>2, <1>3, <1>4, <1>5, <1>6 DEF Next

(* How many elements of a batch are already in the ring.                    *)
Constructed == IF producer.pc = "store" THEN producer.done ELSE 0

(* The live range: what is published and not yet taken, and then what the   *)
(* producer has constructed.  It fits in the ring, with the batch.          *)
LEMMA LiveRange ==
  ASSUME Inv
  PROVE  /\ LiveFrom \in Cursor /\ LiveTo \in Cursor
         /\ Constructed \in Nat
         /\ Minus(write_position_, LiveFrom) \in Nat
         /\ Minus(write_position_, LiveFrom) <= Count
         /\ Minus(LiveTo, LiveFrom) = Minus(write_position_, LiveFrom) + Constructed
         /\ Minus(LiveTo, LiveFrom) <= N
         /\ producer.pc = "store" =>
              Minus(write_position_, LiveFrom) + Len(producer.batch) <= N
         /\ LiveTo = Plus(write_position_, Constructed)
<1> USE DEF Inv
<1> DEFINE r == read_position_
           w == write_position_
<1>1. r \in Cursor /\ w \in Cursor /\ Count \in Nat
  BY Distances, NBelowWrap DEF TypeOK
<1>2. LiveFrom \in Cursor /\ Minus(LiveFrom, r) <= Minus(w, r)
  <2>1. CASE consumer.pc = "take"
    <3>1. consumer.pos \in Cursor /\ consumer.end \in Cursor /\ write_position_cache_ \in Cursor
      BY <2>1 DEF TypeOK, CIdle
    <3>2. /\ Minus(consumer.pos, r) \in Nat /\ Minus(consumer.end, r) \in Nat
          /\ Minus(write_position_cache_, r) \in Nat /\ Minus(w, r) \in Nat
      <4>1. \A p \in Cursor : Minus(p, r) \in Nat
        BY <1>1, MinusType
      <4> QED BY <1>1, <3>1, <4>1
    <3> QED BY <2>1, <3>1, <3>2 DEF LiveFrom, CursorWindow, Count
  <2>2. CASE consumer.pc # "take"
    BY <1>1, <2>2, MinusSelf DEF LiveFrom, Count
  <2> QED BY <2>1, <2>2
<1>3. /\ Minus(w, r) = Minus(LiveFrom, r) + Minus(w, LiveFrom)
      /\ Minus(w, r) \in Nat /\ Minus(LiveFrom, r) \in Nat /\ Minus(w, LiveFrom) \in Nat
  BY <1>1, <1>2, MinusSplits, MinusType
<1>4. Minus(w, LiveFrom) <= Count
  BY <1>3 DEF Count
<1>5. /\ Constructed \in Nat
      /\ Constructed <= N
      /\ Minus(w, LiveFrom) + Constructed <= N
      /\ producer.pc = "store" => Minus(w, LiveFrom) + Len(producer.batch) <= N
      /\ LiveTo = Plus(w, Constructed)
  <2>1. /\ Minus(r, read_position_cache_) \in Nat
        /\ Minus(r, read_position_cache_) + Count <= N
    BY Distances, NBelowWrap DEF CursorWindow
  <2>2. CASE producer.pc = "store"
    <3>1. /\ producer.done \in Nat /\ Len(producer.batch) \in Nat
          /\ producer.done <= Len(producer.batch)
      BY <2>2 DEF TypeOK, PIdle
    <3>2. Minus(r, read_position_cache_) + Count + Len(producer.batch) <= N
      BY <2>2 DEF CursorWindow
    <3>3. Constructed = producer.done /\ LiveTo = Plus(w, producer.done)
      BY <2>2 DEF Constructed, LiveTo
    <3>4. Minus(w, LiveFrom) + Len(producer.batch) <= N
      BY <1>1, <1>3, <1>4, <2>1, <3>1, <3>2, NBelowWrap
    <3> QED BY <1>3, <3>1, <3>3, <3>4, NBelowWrap
  <2>3. CASE producer.pc # "store"
    BY <1>1, <1>3, <1>4, <2>1, <2>3, NBelowWrap, PlusZero DEF Constructed, LiveTo
  <2> QED BY <2>2, <2>3
<1>6. LiveTo \in Cursor /\ Minus(LiveTo, LiveFrom) = Minus(w, LiveFrom) + Constructed
  <2>1. Constructed <= Wrap /\ Minus(w, LiveFrom) + Constructed < Wrap
    BY <1>3, <1>5, NBelowWrap
  <2> QED BY <1>1, <1>2, <1>5, <2>1, PlusType, PlusMoves
<1> QED BY <1>2, <1>3, <1>4, <1>5, <1>6

(* A consumer that has not reached the end of its range has an element.     *)
LEMMA TakeNonEmpty ==
  ASSUME Inv, consumer.pc = "take", consumer.pos # consumer.end
  PROVE  Minus(write_position_, LiveFrom) # 0
<1> USE DEF Inv
<1> DEFINE r == read_position_
           w == write_position_
<1>1. /\ consumer.pos \in Cursor /\ consumer.end \in Cursor
      /\ r \in Cursor /\ w \in Cursor /\ write_position_cache_ \in Cursor
  BY DEF TypeOK, CIdle
<1>2. LiveFrom = consumer.pos
  BY DEF LiveFrom
<1>3. /\ Minus(consumer.pos, r) <= Minus(consumer.end, r)
      /\ Minus(consumer.end, r) <= Minus(write_position_cache_, r)
      /\ Minus(write_position_cache_, r) <= Minus(w, r)
  BY DEF CursorWindow, Count
<1>4. \A p \in Cursor : Minus(p, r) \in Nat
  BY <1>1, MinusType
<1>5. Minus(consumer.pos, r) # Minus(consumer.end, r)
  BY <1>1, NBelowWrap DEF Minus
<1>6. Minus(consumer.pos, r) < Minus(w, r)
  BY <1>1, <1>3, <1>4, <1>5
<1>7. w # consumer.pos
  BY <1>1, <1>4, <1>6
<1> QED BY <1>1, <1>2, <1>7, MinusZero

(* A step that moves neither end of the live range nor the storage.         *)
LEMMA SlotsUntouched ==
  ASSUME SlotsLive, alive' = alive, storage' = storage,
         LiveFrom' = LiveFrom, LiveTo' = LiveTo
  PROVE  SlotsLive'
  BY DEF SlotsLive

(* Constructing an element makes one more slot live, at the end.            *)
LEMMA StoreSlots == Inv /\ SlotsLive /\ Store => SlotsLive'
<1> SUFFICES ASSUME Inv, SlotsLive, Store, alive PROVE SlotsLive'
  BY DEF SlotsLive, Store
<1> DEFINE from == LiveFrom
           n == Minus(LiveTo, LiveFrom)
           cell == calculate_index(Plus(write_position_local_, producer.done))
<1>1. /\ producer \in [pc : {"reload", "store"}, op : ProducerOps,
                       batch : Seq(Elements), done : Nat]
      /\ producer.pc = "store" /\ producer'.pc = "store"
      /\ producer'.done = producer.done + 1
      /\ write_position_local_ = write_position_ /\ write_position_ \in Cursor
      /\ UNCHANGED <<write_position_, consumer, read_position_>>
  BY DEF Store, Inv, TypeOK, PIdle, consumerVars
<1>2. Constructed = producer.done /\ Constructed' = producer.done + 1 /\ LiveFrom' = from
  BY <1>1 DEF Constructed, LiveFrom
<1>3. /\ from \in Cursor /\ n \in Nat /\ n + 1 <= N
      /\ Minus(LiveTo', from) = n + 1
      /\ n = Minus(write_position_, from) + producer.done
      /\ Minus(write_position_, from) \in Nat
  <2>1. /\ from \in Cursor /\ n = Minus(write_position_, from) + producer.done
        /\ Minus(write_position_, from) \in Nat /\ producer.done \in Nat
    BY <1>1, <1>2, LiveRange
  <2>2. Minus(write_position_, from) + Len(producer.batch) <= N /\ Len(producer.batch) \in Nat
    BY <1>1, LiveRange
  <2>3. n + 1 <= N
    BY <1>1, <2>1, <2>2, NBelowWrap DEF Store
  <2>4. LiveTo' = Plus(write_position_, producer.done + 1)
    BY <1>1 DEF LiveTo
  <2>5. Minus(Plus(write_position_, producer.done + 1), from)
          = Minus(write_position_, from) + (producer.done + 1)
    BY <1>1, <2>1, <2>3, NBelowWrap, PlusMoves
  <2> QED BY <2>1, <2>3, <2>4, <2>5
<1>4. cell = calculate_index(Plus(from, n))
  <2>1. Plus(from, Minus(write_position_, from)) = write_position_
    BY <1>1, <1>3, PlusMinus
  <2>2. Minus(write_position_, from) + producer.done < Wrap
    BY <1>3, NBelowWrap
  <2>3. Plus(Plus(from, Minus(write_position_, from)), producer.done) = Plus(from, n)
    BY <1>1, <1>3, <2>2, PlusPlus
  <2> QED BY <1>1, <2>1, <2>3
<1>5. Written(producer.done) # Raw
  BY WrittenType, QueueAssumption DEF Inv
<1>6. ASSUME NEW i \in 0 .. N - 1
      PROVE  storage'[i] # Raw <=>
               \E k \in 0 .. Minus(LiveTo', LiveFrom') - 1 : i = calculate_index(Plus(LiveFrom', k))
  <2>1. storage[i] # Raw <=> \E k \in 0 .. n - 1 : i = calculate_index(Plus(from, k))
    BY DEF SlotsLive
  <2>2. storage'[i] = IF i = cell THEN Written(producer.done) ELSE storage[i]
    BY DEF Store, Inv, TypeOK
  <2>3. \A k : k \in 0 .. (n + 1) - 1 <=> k \in 0 .. n - 1 \/ k = n
    BY <1>3
  <2> HIDE DEF n, cell, from
  <2>4. (\E k \in 0 .. (n + 1) - 1 : i = calculate_index(Plus(from, k)))
          <=> \/ \E k \in 0 .. n - 1 : i = calculate_index(Plus(from, k))
              \/ i = cell
    BY <1>4, <2>3
  <2>5. LiveFrom' = from /\ Minus(LiveTo', LiveFrom') = n + 1
    BY <1>2, <1>3
  <2> QED BY <1>5, <2>1, <2>2, <2>4, <2>5
<1> QED BY <1>6 DEF SlotsLive

(* Taking an element ends the life of the first slot, and of no other.      *)
LEMMA TakeSlots == Inv /\ SlotsLive /\ Take => SlotsLive'
<1> SUFFICES ASSUME Inv, SlotsLive, Take, alive PROVE SlotsLive'
  BY DEF SlotsLive, Take
<1> DEFINE from == LiveFrom
           n == Minus(LiveTo, LiveFrom)
           cell == calculate_index(consumer.pos)
<1>1. /\ consumer \in [pc : {"take"}, op : ConsumerOps, seen : Cursor,
                       pos : Cursor, end : Cursor]
      /\ consumer.pc = "take" /\ from = consumer.pos
      /\ consumer'.pc = "take" /\ LiveFrom' = Plus(from, 1)
      /\ LiveTo' = LiveTo
  BY DEF Take, Inv, TypeOK, CIdle, producerVars, LiveFrom, LiveTo
<1>2. /\ from \in Cursor /\ LiveTo \in Cursor /\ n \in Nat /\ n <= N /\ 1 <= n
  <2>1. /\ from \in Cursor /\ LiveTo \in Cursor /\ n <= N
        /\ n = Minus(write_position_, from) + Constructed
        /\ Minus(write_position_, from) \in Nat /\ Constructed \in Nat
    BY LiveRange
  <2>2. Minus(write_position_, from) # 0
    BY TakeNonEmpty DEF Take
  <2> QED BY <2>1, <2>2
<1>3. Minus(LiveTo', LiveFrom') = n - 1
  <2>1. Minus(Plus(from, 1), from) = 1 /\ Plus(from, 1) \in Cursor
    <3>1. Minus(from, from) = 0 /\ 1 <= Wrap /\ 0 + 1 < Wrap
      BY <1>2, MinusSelf, QueueAssumption
    <3> QED BY <1>2, <3>1, PlusMoves, PlusType
  <2>2. Minus(LiveTo, from) = 1 + Minus(LiveTo, Plus(from, 1))
    BY <1>2, <2>1, MinusSplits
  <2>3. Minus(LiveTo, Plus(from, 1)) \in Nat
    BY <1>2, <2>1, MinusType
  <2> QED BY <1>1, <2>2, <2>3
<1>4. cell = calculate_index(Plus(from, 0))
  BY <1>1, <1>2, PlusZero
<1>5. \A k \in 0 .. n - 2 : calculate_index(Plus(Plus(from, 1), k)) = calculate_index(Plus(from, k + 1))
  <2> TAKE k \in 0 .. n - 2
  <2>1. k \in Nat /\ 1 + k < Wrap /\ 1 + k = k + 1
    BY <1>2, NBelowWrap
  <2> QED BY <1>2, <2>1, PlusPlus
<1>6. ASSUME NEW i \in 0 .. N - 1
      PROVE  storage'[i] # Raw <=>
               \E k \in 0 .. Minus(LiveTo', LiveFrom') - 1 : i = calculate_index(Plus(LiveFrom', k))
  <2>1. storage[i] # Raw <=> \E k \in 0 .. n - 1 : i = calculate_index(Plus(from, k))
    BY DEF SlotsLive
  <2>2. storage'[i] = IF i = cell THEN Raw ELSE storage[i]
    BY DEF Take, Inv, TypeOK
  <2> HIDE DEF n, cell, from
  <2>3. LiveFrom' = Plus(from, 1) /\ Minus(LiveTo', LiveFrom') - 1 = n - 2
    BY <1>1, <1>2, <1>3
  <2>4. ASSUME NEW k \in 0 .. n - 2, i = calculate_index(Plus(Plus(from, 1), k))
        PROVE  i # cell /\ storage[i] # Raw
    <3>1. i = calculate_index(Plus(from, k + 1)) /\ k + 1 \in 0 .. n - 1 /\ k + 1 \in 0 .. N - 1
          /\ k + 1 # 0 /\ 0 \in 0 .. N - 1
      BY <1>2, <1>5, <2>4, NBelowWrap
    <3>2. i # cell
      BY <1>2, <1>4, <3>1, IndexInjective
    <3> QED BY <2>1, <3>1, <3>2
  <2>5. ASSUME i # cell, storage[i] # Raw
        PROVE  \E k \in 0 .. n - 2 : i = calculate_index(Plus(Plus(from, 1), k))
    <3>1. PICK k \in 0 .. n - 1 : i = calculate_index(Plus(from, k))
      BY <2>1, <2>5
    <3>2. k # 0
      BY <1>4, <2>5, <3>1
    <3>3. k - 1 \in 0 .. n - 2 /\ (k - 1) + 1 = k
      BY <1>2, <3>2
    <3>4. i = calculate_index(Plus(Plus(from, 1), k - 1))
      BY <1>5, <3>1, <3>3
    <3> QED BY <3>3, <3>4
  <2> QED BY <2>2, <2>3, <2>4, <2>5
<1> QED BY <1>6 DEF SlotsLive

(* Entering a consuming call, or its load, leaves the live range alone: a   *)
(* call that starts to take starts at the read cursor.                      *)
LEMMA ConsumeSlots ==
  ASSUME Inv, SlotsLive, consumer.pc # "take",
         UNCHANGED <<storage, producerVars, read_position_, alive>>,
         consumer'.pc = "take" => consumer'.pos = read_position_
  PROVE  SlotsLive'
  BY SlotsUntouched DEF LiveFrom, LiveTo, producerVars

(* A slot is live exactly while it lies in the live range.                  *)
LEMMA SlotsNext == Inv /\ Shapes /\ SlotsLive /\ [Next]_vars => SlotsLive'
<1> SUFFICES ASSUME Inv, Shapes, SlotsLive, [Next]_vars PROVE SlotsLive'
  OBVIOUS
<1>0. TypeOK
  BY DEF Inv
<1>1. CASE ProducerCalls
  <2>1. ASSUME NEW op, NEW b, Emplace(op, b), b \in Seq(Elements) PROVE SlotsLive'
    <3>1. LiveFrom' = LiveFrom
      BY <2>1 DEF Emplace, consumerVars, LiveFrom
    <3>2. LiveTo' = LiveTo
      BY <2>1, <1>0, PlusZero DEF Emplace, LiveTo, TypeOK
    <3> QED BY <2>1, <3>1, <3>2, SlotsUntouched DEF Emplace
  <2>2. \A e \in Elements : <<e>> \in Seq(Elements)
    OBVIOUS
  <2> QED BY <1>1, <2>1, <2>2, QueueAssumption DEF ProducerCalls
<1>2. CASE ReloadRead
  <2>1. LiveTo' = LiveTo
    <3> SUFFICES ASSUME producer'.pc = "store" PROVE Plus(write_position_, producer'.done) = write_position_
      BY <1>2 DEF ReloadRead, LiveTo
    <3>1. producer \in [pc : {"reload", "store"}, op : ProducerOps,
                        batch : Seq(Elements), done : Nat]
      BY <1>0, <1>2 DEF TypeOK, ReloadRead, PIdle
    <3>2. producer.done = 0 /\ producer' = [producer EXCEPT !.pc = "store"]
      BY <1>2 DEF ReloadRead, Shapes, PIdle
    <3>3. producer'.done = 0
      BY <3>1, <3>2
    <3> QED BY <1>0, <3>3, PlusZero DEF TypeOK
  <2> QED BY <1>2, <2>1, SlotsUntouched DEF ReloadRead, LiveFrom, consumerVars
<1>3. CASE Store
  BY <1>3, StoreSlots
<1>4. CASE PublishWrite
  <2>1. LiveTo' = LiveTo /\ LiveFrom' = LiveFrom
    BY <1>0, <1>4 DEF PublishWrite, LiveTo, LiveFrom, consumerVars, PIdle, TypeOK
  <2> QED BY <1>4, <2>1, SlotsUntouched DEF PublishWrite
<1>5. CASE ConsumerCalls
  <2>1. ASSUME NEW op, NEW limit, Consume(op, limit) PROVE SlotsLive'
    <3>1. consumer'.pc = "take" => consumer'.pos = read_position_
      BY <1>0, <2>1 DEF Consume, Taking, TypeOK
    <3> QED BY <2>1, <3>1, ConsumeSlots DEF Consume
  <2> QED BY <1>5, <2>1 DEF ConsumerCalls
<1>6. CASE ReloadWrite
  <2>1. consumer'.pc = "take" => consumer'.pos = read_position_
    BY <1>0, <1>6 DEF ReloadWrite, Taking, TypeOK, CIdle
  <2> QED BY <1>6, <2>1, ConsumeSlots DEF ReloadWrite
<1>7. CASE Take
  BY <1>7, TakeSlots
<1>8. CASE PublishRead
  <2>1. LiveTo' = LiveTo /\ LiveFrom' = LiveFrom
    BY <1>8 DEF PublishRead, LiveTo, LiveFrom, producerVars, CIdle
  <2> QED BY <1>8, <2>1, SlotsUntouched DEF PublishRead
<1>9. CASE Destroy
  BY <1>9 DEF Destroy, SlotsLive
<1>10. CASE Destroyed \/ UNCHANGED vars
  BY <1>10, SlotsUntouched DEF Destroyed, LiveFrom, LiveTo, vars, producerVars, consumerVars
<1> QED BY <1>1, <1>2, <1>3, <1>4, <1>5, <1>6, <1>7, <1>8, <1>9, <1>10
        DEF Next, ProducerRuns, ConsumerRuns

(* The destructor finds every live element between the shared cursors.      *)
LEMMA LeaksNext == Inv /\ Quiet /\ SlotsLive /\ NothingLeaks /\ [Next]_vars => NothingLeaks'
<1> SUFFICES ASSUME Inv, Quiet, SlotsLive, NothingLeaks, [Next]_vars, ~alive' PROVE NothingLeaks'
  BY DEF NothingLeaks
<1>1. CASE Destroy
  <2>1. LiveFrom = read_position_ /\ LiveTo = write_position_ /\ alive
    BY <1>1 DEF Destroy, LiveFrom, LiveTo
  <2>2. \A i \in 0 .. N - 1 : storage'[i] = Raw
    BY <1>1, <2>1 DEF Destroy, SlotsLive
  <2> QED BY <2>2 DEF NothingLeaks
<1>2. CASE ~Destroy
  <2>1. ~alive
    BY <1>2 DEF Next, vars, ProducerCalls, ConsumerCalls, ProducerRuns, ConsumerRuns, Emplace,
       Consume, ReloadRead, Store, PublishWrite, ReloadWrite, Take, PublishRead, Destroyed
  <2>2. storage' = storage
    BY <1>2, <2>1 DEF Quiet, Next, vars, ProducerCalls, ConsumerCalls, ProducerRuns, ConsumerRuns,
       Emplace, Consume, ReloadRead, Store, PublishWrite, ReloadWrite, Take, PublishRead, Destroyed
  <2> QED BY <2>1, <2>2 DEF NothingLeaks
<1> QED BY <1>1, <1>2

(* The inductive invariant on the contents of the ring.                     *)
RingInv == Inv /\ Quiet /\ Shapes /\ SlotsLive /\ NothingLeaks

(* It holds in every reachable state.                                       *)
LEMMA RingInductive == Spec => []RingInv
<1>1. Init => RingInv
  <2> SUFFICES ASSUME Init PROVE RingInv
    OBVIOUS
  <2>1. Quiet /\ Shapes /\ NothingLeaks
    BY DEF Init, Quiet, Shapes, NothingLeaks, PIdle, CIdle
  <2>2. SlotsLive
    <3>1. LiveFrom = 0 /\ LiveTo = 0 /\ Minus(0, 0) = 0
      BY DEF Init, LiveFrom, LiveTo, PIdle, CIdle, Minus
    <3>2. \A i \in 0 .. N - 1 : storage[i] = Raw
      BY DEF Init
    <3>3. 0 .. Minus(LiveTo, LiveFrom) - 1 = {}
      BY <3>1
    <3> QED BY <3>2, <3>3 DEF SlotsLive
  <2> QED BY <2>1, <2>2, InitInv DEF RingInv
<1>2. RingInv /\ [Next]_vars => RingInv'
  BY NextInv, QuietNext, ShapesNext, SlotsNext, LeaksNext DEF RingInv
<1> QED BY <1>1, <1>2, PTL DEF Spec

(* An element is only ever constructed in raw storage, and only a live one  *)
(* is moved from and destroyed, once: for every N, counter width, element   *)
(* type and interleaving of the two threads.                                *)
THEOREM SlotsStayLive == Spec => []SlotsLive
<1>1. RingInv => SlotsLive
  BY DEF RingInv
<1> QED BY <1>1, RingInductive, PTL

(* The destructor destroys every element, wherever the cursors stopped.     *)
THEOREM DestructorComplete == Spec => []NothingLeaks
<1>1. RingInv => NothingLeaks
  BY DEF RingInv
<1> QED BY <1>1, RingInductive, PTL

(* What size() may return, and the assertions of try_emplace, try_dequeue.  *)
LEMMA ObserversFollow == Inv /\ Shapes => ObserversExact
<1> SUFFICES ASSUME Inv, Shapes PROVE ObserversExact
  OBVIOUS
<1> USE DEF Inv
<1> DEFINE r == read_position_
           rc == read_position_cache_
           w == write_position_
           wc == write_position_cache_
<1>0. r \in Cursor /\ rc \in Cursor /\ w \in Cursor /\ wc \in Cursor
  BY DEF TypeOK
<1>1. ASSUME NEW v \in Visible(rc, r)
      PROVE  /\ Minus(w, v) <= N
             /\ producer.pc = "store" /\ producer.op = "try_emplace" => Minus(w, v) # N
  <2>1. v \in Cursor /\ Minus(v, rc) <= Minus(r, rc)
    BY <1>0, <1>1, VisibleBetween
  <2>2. Minus(r, rc) = Minus(v, rc) + Minus(r, v)
    BY <1>0, <2>1, MinusSplits
  <2>3. /\ Minus(v, rc) \in Nat /\ Minus(r, v) \in Nat /\ Minus(r, rc) \in Nat
        /\ Minus(w, r) \in Nat
    BY <1>0, <2>1, MinusType
  <2>4. Minus(r, rc) + Minus(w, r) <= N
    BY DEF CursorWindow, Count
  <2>5. Minus(w, v) = Minus(r, v) + Minus(w, r)
    <3>1. Minus(r, v) + Minus(w, r) < Wrap
      BY <2>2, <2>3, <2>4, NBelowWrap
    <3> QED BY <1>0, <2>1, <3>1, MinusJoins
  <2>6. producer.pc = "store" /\ producer.op = "try_emplace" => Minus(r, rc) + Minus(w, r) + 1 <= N
    BY DEF CursorWindow, Count, Shapes
  <2> QED BY <2>2, <2>3, <2>4, <2>5, <2>6, NBelowWrap
<1>2. ASSUME NEW v \in Visible(wc, w)
      PROVE  /\ Minus(v, r) <= N
             /\ consumer.pc = "take" /\ consumer.op = "try_dequeue" => Minus(v, r) # 0
  <2>1. v \in Cursor /\ Minus(v, wc) <= Minus(w, wc)
    BY <1>0, <1>2, VisibleBetween
  <2>2. Minus(w, r) = Minus(wc, r) + Minus(w, wc)
    BY <1>0, MinusSplits DEF CursorWindow, Count
  <2>3. /\ Minus(v, wc) \in Nat /\ Minus(w, wc) \in Nat /\ Minus(wc, r) \in Nat
        /\ Minus(w, r) \in Nat /\ Minus(r, rc) \in Nat
    BY <1>0, <2>1, MinusType
  <2>4. Minus(r, rc) + Minus(w, r) <= N
    BY DEF CursorWindow, Count
  <2>5. Minus(v, r) = Minus(wc, r) + Minus(v, wc)
    <3>1. Minus(wc, r) + Minus(v, wc) < Wrap
      BY <2>1, <2>2, <2>3, <2>4, NBelowWrap
    <3> QED BY <1>0, <2>1, <3>1, MinusJoins
  <2>6. consumer.pc = "take" /\ consumer.op = "try_dequeue" => Minus(wc, r) # 0
    BY <1>0, MinusZero DEF Shapes
  <2> QED BY <2>1, <2>2, <2>3, <2>4, <2>5, <2>6, NBelowWrap
<1> QED BY <1>1, <1>2 DEF ObserversExact

(* size() stays in [0, N] whichever thread calls it and however late its    *)
(* loads are, and the assertions !is_full() and !is_empty() never fire.     *)
THEOREM ObserversHold == Spec => []ObserversExact
<1>1. RingInv => ObserversExact
  BY ObserversFollow DEF RingInv
<1> QED BY <1>1, RingInductive, PTL

-----------------------------------------------------------------------------
(* Refusals, when loads are not late                                        *)

(* Without late loads a load returns the cursor as it is.                   *)
LEMMA PromptLoads ==
  ASSUME LateLoads = FALSE, NEW cache, NEW current, NEW v \in Visible(cache, current)
  PROVE  v = current
  BY DEF Visible

(* readable(): "0 only when the queue is genuinely empty"; clear and a      *)
(* consume_all that reloads take all that was enqueued at the load.         *)
THEOREM EmptyIsEmpty ==
  ASSUME LateLoads = FALSE
  PROVE  Spec => EmptyOnlyWhenEmpty
<1>1. ASSUME Inv, [Next]_vars, consumer.pc = "reload", consumer'.pc # "reload"
      PROVE  /\ consumer'.pc = "idle" => Count = 0
             /\ consumer'.pc = "take" /\ consumer.op \in {"consume_all", "clear"}
                  => consumer'.end = write_position_
  <2>1. ReloadWrite
    BY <1>1 DEF Next, vars, ProducerCalls, ConsumerCalls, ProducerRuns, ConsumerRuns, Emplace,
       Consume, ReloadRead, Store, PublishWrite, Take, PublishRead, Destroyed, Destroy, consumerVars
  <2>2. consumer' = IF /\ write_position_ = read_position_local_
                       /\ consumer.op \notin {"consume_all", "clear"}
                      THEN CIdle
                      ELSE Taking(consumer.op, consumer.limit, consumer.seen, write_position_)
    BY <2>1, PromptLoads DEF ReloadWrite
  <2>3. Taking(consumer.op, consumer.limit, consumer.seen, write_position_).pc = "take"
    BY DEF Taking
  <2>4. consumer'.pc = "idle" => Count = 0
    BY <1>1, <2>2, <2>3, MinusSelf DEF Inv, TypeOK, Count
  <2>5. ASSUME consumer'.pc = "take", consumer.op \in {"consume_all", "clear"}
        PROVE  consumer'.end = write_position_
    <3>1. consumer'.end = Plus(read_position_local_, Minus(write_position_, read_position_local_))
      BY <2>2, <2>5 DEF Taking
    <3> QED BY <1>1, <3>1, PlusMinus DEF Inv, TypeOK
  <2> QED BY <2>4, <2>5
<1>2. Inv /\ [Next]_vars =>
        [consumer.pc = "reload" =>
           /\ consumer'.pc = "idle" => Count = 0
           /\ consumer'.pc = "take" /\ consumer.op \in {"consume_all", "clear"}
                => consumer'.end = write_position_]_vars
  BY <1>1
<1> QED BY <1>2, Inductive, PTL DEF Spec, EmptyOnlyWhenEmpty

(* A range is refused only when it does not fit.                            *)
THEOREM RefusedIsFull ==
  ASSUME LateLoads = FALSE
  PROVE  Spec => RefusedOnlyWhenFull
<1>1. ASSUME Inv, [Next]_vars, producer.pc = "reload", producer'.pc = "idle"
      PROVE  Count + Len(producer.batch) > N
  <2>1. ReloadRead
    BY <1>1 DEF Next, vars, ProducerCalls, ConsumerCalls, ProducerRuns, ConsumerRuns, Emplace,
       Consume, Store, PublishWrite, ReloadWrite, Take, PublishRead, Destroyed, Destroy, producerVars
  <2>2. producer \in [pc : {"reload", "store"}, op : ProducerOps,
                      batch : Seq(Elements), done : Nat]
    BY <1>1 DEF Inv, TypeOK, PIdle
  <2>3. ~(free_slots(read_position_) >= Len(producer.batch))
    BY <1>1, <2>1, <2>2, PromptLoads DEF ReloadRead
  <2>4. Count \in Nat /\ Len(producer.batch) \in Nat /\ write_position_local_ = write_position_
    BY <1>1, <2>2, Distances DEF Inv, TypeOK
  <2> QED BY <2>3, <2>4, NBelowWrap DEF free_slots, Count
<1>2. Inv /\ [Next]_vars =>
        [producer.pc = "reload" /\ producer'.pc = "idle" => Count + Len(producer.batch) > N]_vars
  BY <1>1
<1> QED BY <1>2, Inductive, PTL DEF Spec, RefusedOnlyWhenFull

-----------------------------------------------------------------------------
(* Every step is a step of BoundedFifo, or leaves its variables alone       *)

(* No batch is copied by the path that misplaces its first chunk.           *)
CopiesInOrder == ~(TriviallyCopyable /\ "try_emplace_range" \in ProducerOps)

(* What a slot may hold.                                                    *)
Contents == Elements \cup {Raw, Garbage}

(* The n elements from a position on.                                       *)
ItemSeq(n, from, ring) == [k \in 1 .. n |-> ring[calculate_index(Plus(from, k - 1))]]

(* A function on 1 .. n is a sequence of length n.                          *)
LEMMA FunctionIsSeq ==
  ASSUME NEW S, NEW n \in Nat, NEW f \in [1 .. n -> S]
  PROVE  f \in Seq(S) /\ Len(f) = n
<1>1. f \in Seq(S)
  BY SeqDef
<1>2. Len(f) \in Nat /\ DOMAIN f = 1 .. Len(f)
  BY <1>1, LenProperties
<1> QED BY <1>1, <1>2

(* What is in the ring, as a sequence.                                      *)
LEMMA ItemSeqType ==
  ASSUME NEW n \in 0 .. N, NEW from \in Cursor, NEW ring \in [0 .. N - 1 -> Contents]
  PROVE  /\ ItemSeq(n, from, ring) \in Seq(Contents)
         /\ Len(ItemSeq(n, from, ring)) = n
         /\ \A k \in 1 .. n : ItemSeq(n, from, ring)[k] = ring[calculate_index(Plus(from, k - 1))]
<1>1. ASSUME NEW k \in 1 .. n PROVE ring[calculate_index(Plus(from, k - 1))] \in Contents
  <2>1. k - 1 \in Nat /\ k - 1 <= Wrap
    BY NBelowWrap
  <2>2. calculate_index(Plus(from, k - 1)) \in 0 .. N - 1
    BY <2>1, PlusType, IndexType
  <2> QED BY <2>2
<1>2. ItemSeq(n, from, ring) \in [1 .. n -> Contents]
  BY <1>1 DEF ItemSeq
<1>3. n \in Nat
  BY NBelowWrap
<1> QED BY <1>2, <1>3, FunctionIsSeq DEF ItemSeq

-----------------------------------------------------------------------------

(* The slots after the write cursor hold the start of the batch.            *)
Staged ==
  producer.pc = "store" =>
    \A k \in 0 .. producer.done - 1 :
      storage[calculate_index(Plus(write_position_, k))] = producer.batch[k + 1]

(* The consumer does not touch what the producer has not published.         *)
LEMMA TakeElsewhere ==
  ASSUME Inv, Take, NEW k \in 0 .. N - 1, producer.pc = "store", k < producer.done
  PROVE  calculate_index(Plus(write_position_, k)) # calculate_index(consumer.pos)
<1> DEFINE m == Minus(write_position_, LiveFrom)
<1>1. /\ LiveFrom = consumer.pos /\ write_position_ \in Cursor /\ k \in Nat
      /\ producer.done \in Nat /\ Len(producer.batch) \in Nat
      /\ producer.done <= Len(producer.batch)
  BY DEF Take, Inv, TypeOK, PIdle, LiveFrom
<1>2. LiveFrom \in Cursor /\ m \in Nat /\ m + Len(producer.batch) <= N
  BY LiveRange
<1>3. m # 0
  BY TakeNonEmpty DEF Take
<1>4. Plus(write_position_, k) = Plus(LiveFrom, m + k)
  <2>1. m + k < Wrap
    BY <1>1, <1>2, NBelowWrap
  <2> QED BY <1>1, <1>2, <2>1, PlusMinus, PlusPlus
<1>5. consumer.pos = Plus(LiveFrom, 0)
  BY <1>1, <1>2, PlusZero
<1>6. m + k \in 0 .. N - 1 /\ 0 \in 0 .. N - 1 /\ m + k # 0
  BY <1>1, <1>2, <1>3, NBelowWrap
<1> HIDE DEF m
<1> QED BY <1>2, <1>4, <1>5, <1>6, IndexInjective

(* Each element is constructed in its own slot, in order.                   *)
LEMMA StagedNext ==
  ASSUME CopiesInOrder, RingInv, Staged, [Next]_vars
  PROVE  Staged'
<1>0. TypeOK /\ Inv /\ Shapes
  BY DEF RingInv, Inv
<1>1. CASE ProducerCalls
  <2>1. ASSUME NEW op, NEW b, Emplace(op, b) PROVE Staged'
    BY <2>1 DEF Emplace, Staged
  <2> QED BY <1>1, <2>1 DEF ProducerCalls
<1>2. CASE ReloadRead
  <2>1. producer \in [pc : {"reload", "store"}, op : ProducerOps,
                      batch : Seq(Elements), done : Nat]
    BY <1>0, <1>2 DEF TypeOK, ReloadRead, PIdle
  <2>2. producer.done = 0
    BY <1>0, <1>2 DEF ReloadRead, Shapes
  <2>3. producer' = [producer EXCEPT !.pc = "store"] \/ producer' = PIdle
    BY <1>2 DEF ReloadRead
  <2>4. producer'.pc = "store" => producer'.done = 0
    BY <2>1, <2>2, <2>3 DEF PIdle
  <2> QED BY <2>4 DEF Staged
<1>3. CASE Store
  <2> DEFINE w == write_position_
             d == producer.done
  <2>1. /\ producer \in [pc : {"reload", "store"}, op : ProducerOps,
                         batch : Seq(Elements), done : Nat]
        /\ producer.pc = "store" /\ write_position_local_ = w /\ w \in Cursor
        /\ d < Len(producer.batch)
        /\ producer' = [producer EXCEPT !.done = d + 1] /\ w' = w
    BY <1>0, <1>3 DEF Store, TypeOK, PIdle
  <2>2. Len(producer.batch) \in Nat /\ Len(producer.batch) <= N
    <3>1. Minus(w, LiveFrom) \in Nat /\ Minus(w, LiveFrom) + Len(producer.batch) <= N
      BY <1>0, <2>1, LiveRange
    <3> QED BY <2>1, <3>1, NBelowWrap
  <2>3. Written(d) = producer.batch[d + 1]
    BY <2>1 DEF Written, CopiesInOrder
  <2>4. storage' = [storage EXCEPT ![calculate_index(Plus(w, d))] = producer.batch[d + 1]]
    BY <1>3, <2>1, <2>3 DEF Store
  <2>5. ASSUME NEW k \in 0 .. d
        PROVE  storage'[calculate_index(Plus(w, k))] = producer.batch[k + 1]
    <3>1. k \in 0 .. N - 1 /\ d \in 0 .. N - 1 /\ k \in Nat /\ k <= Wrap
      BY <2>1, <2>2, NBelowWrap
    <3>2. calculate_index(Plus(w, k)) \in 0 .. N - 1
      BY <2>1, <3>1, PlusType, IndexType
    <3>3. CASE k = d
      BY <1>0, <2>4, <3>2, <3>3 DEF TypeOK
    <3>4. CASE k # d
      <4>1. calculate_index(Plus(w, k)) # calculate_index(Plus(w, d))
        BY <2>1, <3>1, <3>4, IndexInjective
      <4>2. storage[calculate_index(Plus(w, k))] = producer.batch[k + 1]
        BY <2>1, <3>1, <3>4 DEF Staged
      <4> QED BY <1>0, <2>4, <3>2, <4>1, <4>2 DEF TypeOK
    <3> QED BY <3>3, <3>4
  <2>6. producer'.done - 1 = d /\ producer'.batch = producer.batch
    BY <2>1
  <2> QED BY <2>1, <2>5, <2>6 DEF Staged
<1>4. CASE PublishWrite
  BY <1>4 DEF PublishWrite, Staged, PIdle
<1>5. CASE ConsumerCalls
  BY <1>5 DEF ConsumerCalls, Consume, Staged, producerVars
<1>6. CASE ReloadWrite
  BY <1>6 DEF ReloadWrite, Staged, producerVars
<1>7. CASE Take
  <2> SUFFICES ASSUME producer.pc = "store", NEW k \in 0 .. producer.done - 1
               PROVE  storage'[calculate_index(Plus(write_position_, k))] = producer.batch[k + 1]
    BY <1>7 DEF Take, producerVars, Staged
  <2>1. /\ producer.done \in Nat /\ Len(producer.batch) \in Nat
        /\ producer.done <= Len(producer.batch) /\ write_position_ \in Cursor
    BY <1>0 DEF TypeOK, PIdle
  <2>2. Minus(write_position_, LiveFrom) \in Nat
        /\ Minus(write_position_, LiveFrom) + Len(producer.batch) <= N
    BY <1>0, LiveRange
  <2>3. k \in 0 .. N - 1 /\ k < producer.done /\ k <= Wrap /\ k \in Nat
    BY <2>1, <2>2, NBelowWrap
  <2>4. calculate_index(Plus(write_position_, k)) # calculate_index(consumer.pos)
    BY <1>0, <1>7, <2>3, TakeElsewhere
  <2>5. calculate_index(Plus(write_position_, k)) \in 0 .. N - 1
    BY <2>1, <2>3, PlusType, IndexType
  <2>6. storage'[calculate_index(Plus(write_position_, k))]
          = storage[calculate_index(Plus(write_position_, k))]
    BY <1>0, <1>7, <2>4, <2>5 DEF Take, TypeOK
  <2> QED BY <2>6 DEF Staged
<1>8. CASE PublishRead
  BY <1>8 DEF PublishRead, Staged, producerVars
<1>9. CASE Destroy
  BY <1>9 DEF Destroy, Staged, producerVars
<1>10. CASE Destroyed \/ UNCHANGED vars
  BY <1>10 DEF Destroyed, Staged, vars, producerVars
<1> QED BY <1>1, <1>2, <1>3, <1>4, <1>5, <1>6, <1>7, <1>8, <1>9, <1>10
        DEF Next, ProducerRuns, ConsumerRuns

-----------------------------------------------------------------------------

(* The number of elements the abstract queue holds.                         *)
Held == IF alive THEN Minus(write_position_, LiveFrom) ELSE 0

(* The abstract queue, as a sequence of what lies between the cursors.      *)
LEMMA ItemsAre ==
  ASSUME Inv
  PROVE  /\ itemsBar = ItemSeq(Held, LiveFrom, storage)
         /\ Held \in 0 .. N
         /\ LiveFrom \in Cursor
         /\ storage \in [0 .. N - 1 -> Contents]
<1>1. itemsBar = ItemSeq(Held, LiveFrom, storage)
  BY DEF itemsBar, ItemSeq, Held
<1>2. /\ LiveFrom \in Cursor /\ Minus(write_position_, LiveFrom) \in Nat
      /\ Minus(write_position_, LiveFrom) <= N
  <2>1. /\ Minus(LiveTo, LiveFrom) = Minus(write_position_, LiveFrom) + Constructed
        /\ Minus(LiveTo, LiveFrom) <= N /\ Constructed \in Nat
        /\ Minus(write_position_, LiveFrom) \in Nat /\ LiveFrom \in Cursor
    BY LiveRange
  <2> QED BY <2>1, NBelowWrap
<1>3. Held \in 0 .. N
  BY <1>2, NBelowWrap DEF Held
<1> QED BY <1>1, <1>2, <1>3 DEF Inv, TypeOK, Contents

(* Steps that leave the ring and its ends alone leave the items alone.      *)
LEMMA ItemsUntouched ==
  ASSUME storage' = storage, alive' = alive, write_position_' = write_position_,
         LiveFrom' = LiveFrom
  PROVE  itemsBar' = itemsBar
  BY DEF itemsBar

(* Constructing an element past the write cursor is invisible.              *)
LEMMA StoreInvisible ==
  ASSUME Inv, Store
  PROVE  itemsBar' = itemsBar
<1> DEFINE w == write_position_
           d == producer.done
           m == Minus(w, LiveFrom)
           cell == calculate_index(Plus(w, d))
<1>1. /\ producer \in [pc : {"reload", "store"}, op : ProducerOps,
                       batch : Seq(Elements), done : Nat]
      /\ producer.pc = "store" /\ write_position_local_ = w /\ w \in Cursor
      /\ d < Len(producer.batch) /\ Len(producer.batch) \in Nat
      /\ UNCHANGED <<w, alive, consumer, read_position_>>
      /\ storage' = [storage EXCEPT ![cell] = Written(d)]
  BY DEF Inv, Store, TypeOK, PIdle, consumerVars
<1>2. LiveFrom' = LiveFrom
  BY <1>1 DEF LiveFrom
<1>3. LiveFrom \in Cursor /\ m \in Nat /\ m + Len(producer.batch) <= N
  BY <1>1, LiveRange
<1>4. Plus(w, d) = Plus(LiveFrom, m + d) /\ m + d \in 0 .. N - 1
  <2>1. m + d < Wrap /\ m + d \in 0 .. N - 1 /\ d \in Nat
    BY <1>1, <1>3, NBelowWrap
  <2> QED BY <1>1, <1>3, <2>1, PlusMinus, PlusPlus
<1> HIDE DEF m
<1>5. ASSUME NEW k \in 1 .. m
      PROVE  storage'[calculate_index(Plus(LiveFrom, k - 1))]
               = storage[calculate_index(Plus(LiveFrom, k - 1))]
  <2>1. k - 1 \in 0 .. N - 1 /\ k - 1 # m + d /\ k - 1 \in Nat /\ k - 1 <= Wrap
    BY <1>1, <1>3, NBelowWrap
  <2>2. calculate_index(Plus(LiveFrom, k - 1)) # cell
    BY <1>3, <1>4, <2>1, IndexInjective
  <2>3. calculate_index(Plus(LiveFrom, k - 1)) \in 0 .. N - 1
    BY <1>3, <2>1, PlusType, IndexType
  <2> QED BY <1>1, <2>2, <2>3 DEF Inv, TypeOK
<1>6. Minus(write_position_', LiveFrom') = m /\ alive' = alive
  BY <1>1, <1>2 DEF m
<1>7. itemsBar' = [k \in 1 .. IF alive THEN m ELSE 0 |->
                     storage'[calculate_index(Plus(LiveFrom, k - 1))]]
  BY <1>2, <1>6 DEF itemsBar
<1>8. itemsBar = [k \in 1 .. IF alive THEN m ELSE 0 |->
                     storage[calculate_index(Plus(LiveFrom, k - 1))]]
  BY DEF itemsBar, m
<1>9. \A k \in 1 .. IF alive THEN m ELSE 0 : k \in 1 .. m
  BY <1>3
<1> QED BY <1>5, <1>7, <1>8, <1>9

(* Publishing the write cursor appends the batch.                           *)
LEMMA PublishAppends ==
  ASSUME RingInv, Staged, PublishWrite
  PROVE  itemsBar' = itemsBar \o producer.batch /\ Len(itemsBar) + Len(producer.batch) <= N
<1> DEFINE w == write_position_
           b == producer.batch
           m == Minus(w, LiveFrom)
<1>0. Inv /\ Quiet
  BY DEF RingInv
<1>1. /\ b \in Seq(Elements) /\ Len(b) \in Nat /\ producer.pc = "store" /\ alive
      /\ producer.done = Len(b)
      /\ w \in Cursor /\ w' = Plus(w, Len(b))
      /\ UNCHANGED <<storage, alive, consumer, read_position_>>
  BY <1>0 DEF Inv, PublishWrite, TypeOK, PIdle, consumerVars, Quiet
<1>2. LiveFrom' = LiveFrom
  BY <1>1 DEF LiveFrom
<1>3. LiveFrom \in Cursor /\ m \in Nat /\ m + Len(b) <= N
  BY <1>0, <1>1, LiveRange
<1>4. Minus(w', LiveFrom') = m + Len(b)
  <2>1. m + Len(b) < Wrap
    BY <1>1, <1>3, NBelowWrap
  <2> QED BY <1>1, <1>2, <1>3, <2>1, PlusMoves
<1> DEFINE old == ItemSeq(m, LiveFrom, storage)
           new == ItemSeq(m + Len(b), LiveFrom, storage)
<1>5. itemsBar = old /\ itemsBar' = new
  <2>1. itemsBar = old
    BY <1>1 DEF itemsBar, ItemSeq
  <2>2. itemsBar' = new
    BY <1>1, <1>2, <1>4 DEF itemsBar, ItemSeq
  <2> QED BY <2>1, <2>2
<1>6. /\ storage \in [0 .. N - 1 -> Contents]
      /\ m \in 0 .. N /\ m + Len(b) \in 0 .. N
  BY <1>0, <1>1, <1>3, NBelowWrap DEF Inv, TypeOK, Contents
<1>7. /\ old \in Seq(Contents) /\ Len(old) = m
      /\ \A k \in 1 .. m : old[k] = storage[calculate_index(Plus(LiveFrom, k - 1))]
      /\ new \in Seq(Contents) /\ Len(new) = m + Len(b)
      /\ \A k \in 1 .. m + Len(b) : new[k] = storage[calculate_index(Plus(LiveFrom, k - 1))]
  BY <1>3, <1>6, ItemSeqType
<1>8. b \in Seq(Contents)
  BY <1>1, SeqMonotonic DEF Contents
<1>9. ASSUME NEW j \in 1 .. Len(b)
      PROVE  storage[calculate_index(Plus(LiveFrom, m + j - 1))] = b[j]
  <2>1. j - 1 \in 0 .. producer.done - 1 /\ (j - 1) + 1 = j /\ m + (j - 1) = m + j - 1
        /\ j - 1 \in Nat /\ m + (j - 1) < Wrap
    BY <1>1, <1>3, NBelowWrap
  <2>2. storage[calculate_index(Plus(w, j - 1))] = b[j]
    BY <1>1, <2>1 DEF Staged
  <2>3. Plus(w, j - 1) = Plus(LiveFrom, m + (j - 1))
    BY <1>1, <1>3, <2>1, PlusMinus, PlusPlus
  <2> QED BY <2>1, <2>2, <2>3
<1> HIDE DEF m, old, new, b
<1>10. /\ old \o b \in Seq(Contents)
       /\ Len(old \o b) = m + Len(b)
       /\ \A i \in 1 .. m + Len(b) : (old \o b)[i] = IF i <= m THEN old[i] ELSE b[i - m]
  <2>1. /\ old \o b \in Seq(Contents)
        /\ Len(old \o b) = Len(old) + Len(b)
        /\ \A i \in 1 .. Len(old) + Len(b) :
             (old \o b)[i] = IF i <= Len(old) THEN old[i] ELSE b[i - Len(old)]
    BY <1>7, <1>8, ConcatProperties
  <2> QED BY <1>7, <2>1
<1>11. ASSUME NEW i \in 1 .. m + Len(b) PROVE new[i] = (old \o b)[i]
  <2>0. i \in Nat /\ m \in Nat /\ Len(b) \in Nat /\ 1 <= i /\ i <= m + Len(b)
    BY <1>1, <1>3
  <2>1. CASE i <= m
    <3>1. i \in 1 .. m
      BY <2>0, <2>1
    <3> QED BY <1>7, <1>10, <2>1, <3>1
  <2>2. CASE i > m
    <3>1. i - m \in 1 .. Len(b) /\ m + (i - m) - 1 = i - 1
      BY <2>0, <2>2
    <3>2. b[i - m] = storage[calculate_index(Plus(LiveFrom, i - 1))]
      BY <1>9, <3>1
    <3> QED BY <1>7, <1>10, <2>0, <2>2, <3>2
  <2>3. i <= m \/ i > m
    BY <2>0
  <2> QED BY <2>1, <2>2, <2>3, Zenon
<1>12. new = old \o b
  BY <1>7, <1>10, <1>11, SeqEqual
<1> QED BY <1>3, <1>5, <1>7, <1>12 DEF b

(* Taking an element removes the head.                                      *)
LEMMA TakeRemovesHead ==
  ASSUME RingInv, Take
  PROVE  /\ itemsBar # <<>>
         /\ storage[calculate_index(consumer.pos)] = Head(itemsBar)
         /\ itemsBar' = Tail(itemsBar)
<1> DEFINE w == write_position_
           m == Minus(w, LiveFrom)
           cell == calculate_index(consumer.pos)
<1>0. Inv /\ Quiet
  BY DEF RingInv
<1>1. /\ consumer.pos \in Cursor /\ LiveFrom = consumer.pos /\ alive
      /\ LiveFrom' = Plus(LiveFrom, 1) /\ w \in Cursor
      /\ UNCHANGED <<w, alive>>
      /\ storage' = [storage EXCEPT ![cell] = Raw]
  BY <1>0 DEF Take, Inv, TypeOK, CIdle, producerVars, LiveFrom, Quiet
<1>2. /\ LiveFrom \in Cursor /\ m \in Nat /\ m <= N
  <2>1. Held \in 0 .. N /\ LiveFrom \in Cursor
    BY <1>0, ItemsAre
  <2> QED BY <1>1, <2>1, NBelowWrap DEF Held
<1>3. m # 0
  BY <1>0, TakeNonEmpty DEF Take
<1>4. Plus(LiveFrom, 1) \in Cursor /\ Minus(w, Plus(LiveFrom, 1)) = m - 1
  <2>1. Minus(LiveFrom, LiveFrom) = 0 /\ 1 <= Wrap /\ 0 + 1 < Wrap
    BY <1>2, MinusSelf, QueueAssumption
  <2>2. Minus(Plus(LiveFrom, 1), LiveFrom) = 1 /\ Plus(LiveFrom, 1) \in Cursor
    BY <1>2, <2>1, PlusMoves, PlusType
  <2>3. m = 1 + Minus(w, Plus(LiveFrom, 1))
    BY <1>1, <1>2, <1>3, <2>2, MinusSplits
  <2>4. Minus(w, Plus(LiveFrom, 1)) \in Nat
    BY <1>1, <2>2, MinusType
  <2> QED BY <2>2, <2>3, <2>4
<1> DEFINE old == ItemSeq(m, LiveFrom, storage)
           new == ItemSeq(m - 1, Plus(LiveFrom, 1), storage')
<1>5. itemsBar = old /\ itemsBar' = new
  <2>1. itemsBar = old
    BY <1>1 DEF itemsBar, ItemSeq
  <2>2. itemsBar' = new
    BY <1>1, <1>4 DEF itemsBar, ItemSeq
  <2> QED BY <2>1, <2>2
<1>6. /\ storage \in [0 .. N - 1 -> Contents] /\ storage' \in [0 .. N - 1 -> Contents]
      /\ m \in 0 .. N /\ m - 1 \in 0 .. N
  <2>1. storage \in [0 .. N - 1 -> Contents] /\ Raw \in Contents
    BY <1>0 DEF Inv, TypeOK, Contents
  <2>2. storage' \in [0 .. N - 1 -> Contents]
    BY <1>1, <2>1
  <2>3. m \in 0 .. N /\ m - 1 \in 0 .. N
    BY <1>2, <1>3, NBelowWrap
  <2> QED BY <2>1, <2>2, <2>3
<1>7. /\ old \in Seq(Contents) /\ Len(old) = m
      /\ \A k \in 1 .. m : old[k] = storage[calculate_index(Plus(LiveFrom, k - 1))]
      /\ new \in Seq(Contents) /\ Len(new) = m - 1
      /\ \A k \in 1 .. m - 1 : new[k] = storage'[calculate_index(Plus(Plus(LiveFrom, 1), k - 1))]
  BY <1>2, <1>4, <1>6, ItemSeqType
<1> HIDE DEF m, old, new
<1>8. old # <<>> /\ Len(Tail(old)) = m - 1 /\ Tail(old) \in Seq(Contents)
      /\ Head(old) = old[1]
      /\ \A i \in 1 .. m - 1 : Tail(old)[i] = old[i + 1]
  <2>1. old # <<>>
    BY <1>3, <1>7
  <2> QED BY <1>7, <2>1, HeadTailProperties
<1>9. old[1] = storage[cell]
  <2>1. 1 \in 1 .. m /\ 1 - 1 = 0
    BY <1>2, <1>3
  <2> QED BY <1>1, <1>2, <1>7, <2>1, PlusZero
<1>10. ASSUME NEW i \in 1 .. m - 1 PROVE new[i] = old[i + 1]
  <2>1. /\ i - 1 \in Nat /\ 1 + (i - 1) = i /\ 1 + (i - 1) < Wrap /\ i \in Nat /\ i <= Wrap
        /\ i \in 0 .. N - 1 /\ 0 \in 0 .. N - 1 /\ i # 0 /\ i + 1 \in 1 .. m /\ (i + 1) - 1 = i
    BY <1>2, NBelowWrap
  <2>2. Plus(Plus(LiveFrom, 1), i - 1) = Plus(LiveFrom, i)
    BY <1>2, <2>1, PlusPlus
  <2>3. calculate_index(Plus(LiveFrom, i)) # cell
    BY <1>1, <1>2, <2>1, PlusZero, IndexInjective
  <2>4. calculate_index(Plus(LiveFrom, i)) \in 0 .. N - 1
    BY <1>2, <2>1, PlusType, IndexType
  <2>5. storage'[calculate_index(Plus(LiveFrom, i))] = storage[calculate_index(Plus(LiveFrom, i))]
    BY <1>1, <1>6, <2>3, <2>4
  <2> QED BY <1>7, <2>1, <2>2, <2>5
<1>11. new = Tail(old)
  BY <1>7, <1>8, <1>10, SeqEqual
<1> QED BY <1>5, <1>8, <1>9, <1>11

-----------------------------------------------------------------------------

(* An empty ring is an empty queue.                                         *)
LEMMA InitRefines == Init => Fifo!Init
<1> SUFFICES ASSUME Init PROVE Fifo!Init
  OBVIOUS
<1>1. itemsBar = <<>>
  <2>1. Minus(write_position_, LiveFrom) = 0
    BY DEF Init, LiveFrom, CIdle, Minus
  <2>2. itemsBar = ItemSeq(0, LiveFrom, storage)
    BY <2>1 DEF itemsBar, ItemSeq, Init
  <2> QED BY <2>2 DEF ItemSeq
<1> QED BY <1>1 DEF Fifo!Init, Init, offeredBar, clearingBar, PIdle, CIdle

(* Every step of a call is a step of the abstract queue, or invisible.      *)
LEMMA NextRefines ==
  ASSUME CopiesInOrder, RingInv, Staged, [Next]_vars
  PROVE  [Fifo!Next]_(Fifo!vars)
<1> DEFINE Unseen == UNCHANGED <<itemsBar, offeredBar, out, clearingBar, alive>>
<1>0. TypeOK /\ Inv /\ Shapes /\ Quiet
  BY DEF RingInv, Inv
<1>s. ASSUME Unseen PROVE UNCHANGED Fifo!vars
  BY <1>s DEF Fifo!vars
<1>1. CASE ProducerCalls
  <2>1. ASSUME NEW op, NEW b \in Seq(Elements), Emplace(op, b) PROVE Fifo!Offer
    <3>1. itemsBar' = itemsBar
      BY <2>1, ItemsUntouched DEF Emplace, consumerVars, LiveFrom
    <3>2. offeredBar = <<>> /\ offeredBar' = b
      BY <2>1 DEF Emplace, offeredBar
    <3>3. clearingBar' = clearingBar /\ out' = out /\ alive' = alive
      BY <2>1 DEF Emplace, consumerVars, clearingBar
    <3> QED BY <3>1, <3>2, <3>3 DEF Fifo!Offer
  <2>2. \A e \in Elements : <<e>> \in Seq(Elements)
    OBVIOUS
  <2> QED BY <1>1, <2>1, <2>2, QueueAssumption DEF ProducerCalls, Fifo!Next
<1>2. CASE ReloadRead
  <2>1. itemsBar' = itemsBar
    BY <1>2, ItemsUntouched DEF ReloadRead, consumerVars, LiveFrom
  <2>2. clearingBar' = clearingBar /\ out' = out /\ alive' = alive
    BY <1>2 DEF ReloadRead, consumerVars, clearingBar
  <2>3. producer \in [pc : {"reload", "store"}, op : ProducerOps,
                      batch : Seq(Elements), done : Nat]
    BY <1>0, <1>2 DEF TypeOK, ReloadRead, PIdle
  <2>4. CASE producer' = [producer EXCEPT !.pc = "store"]
    <3>1. offeredBar' = offeredBar
      BY <1>2, <2>3, <2>4 DEF offeredBar, ReloadRead
    <3> QED BY <1>s, <2>1, <2>2, <3>1
  <2>5. CASE producer' = PIdle
    <3>1. offeredBar' = <<>>
      BY <2>5 DEF offeredBar, PIdle
    <3>2. Fifo!Refuse
      BY <2>1, <2>2, <3>1 DEF Fifo!Refuse
    <3> QED BY <3>2 DEF Fifo!Next
  <2> QED BY <1>2, <2>4, <2>5 DEF ReloadRead
<1>3. CASE Store
  <2>1. itemsBar' = itemsBar
    BY <1>0, <1>3, StoreInvisible
  <2>2. clearingBar' = clearingBar /\ out' = out /\ alive' = alive
    BY <1>3 DEF Store, consumerVars, clearingBar
  <2>3. producer \in [pc : {"reload", "store"}, op : ProducerOps,
                      batch : Seq(Elements), done : Nat]
    BY <1>0, <1>3 DEF TypeOK, Store, PIdle
  <2>4. offeredBar' = offeredBar
    BY <1>3, <2>3 DEF offeredBar, Store
  <2> QED BY <1>s, <2>1, <2>2, <2>4
<1>4. CASE PublishWrite
  <2>1. itemsBar' = itemsBar \o producer.batch /\ Len(itemsBar) + Len(producer.batch) <= N
    BY <1>4, PublishAppends
  <2>2. clearingBar' = clearingBar /\ out' = out /\ alive' = alive
    BY <1>4 DEF PublishWrite, consumerVars, clearingBar
  <2>3. offeredBar = producer.batch /\ offeredBar' = <<>>
    BY <1>4 DEF PublishWrite, offeredBar, PIdle
  <2>4. Fifo!Accept
    BY <2>1, <2>2, <2>3 DEF Fifo!Accept
  <2> QED BY <2>4 DEF Fifo!Next
<1>5. CASE ConsumerCalls
  <2>1. ASSUME NEW op, NEW limit, Consume(op, limit) PROVE [Fifo!Next]_(Fifo!vars)
    <3>1. consumer'.pc = "take" => consumer'.pos = read_position_
      BY <1>0, <2>1 DEF Consume, Taking, TypeOK
    <3>2. LiveFrom' = LiveFrom
      BY <2>1, <3>1 DEF Consume, LiveFrom
    <3>3. itemsBar' = itemsBar
      BY <2>1, <3>2, ItemsUntouched DEF Consume, producerVars
    <3>4. offeredBar' = offeredBar /\ out' = out /\ alive' = alive
      BY <2>1 DEF Consume, producerVars, offeredBar
    <3>5. consumer'.pc # "idle" /\ consumer'.op = op /\ consumer.pc = "idle"
      BY <2>1 DEF Consume, Taking
    <3>6. clearingBar = FALSE /\ clearingBar' = (op = "clear")
      BY <3>5 DEF clearingBar
    <3>7. CASE op = "clear"
      <4>1. clearingBar' = ~clearingBar
        BY <3>6, <3>7
      <4>2. Fifo!Clear
        BY <3>3, <3>4, <4>1 DEF Fifo!Clear
      <4> QED BY <4>2 DEF Fifo!Next
    <3>8. CASE op # "clear"
      <4>1. clearingBar' = clearingBar
        BY <3>6, <3>8
      <4> QED BY <1>s, <3>3, <3>4, <4>1
    <3> QED BY <3>7, <3>8
  <2> QED BY <1>5, <2>1 DEF ConsumerCalls
<1>6. CASE ReloadWrite
  <2>1. consumer'.pc = "take" => consumer'.pos = read_position_
    BY <1>0, <1>6 DEF ReloadWrite, Taking, TypeOK, CIdle
  <2>2. LiveFrom' = LiveFrom
    BY <1>6, <2>1 DEF ReloadWrite, LiveFrom
  <2>3. itemsBar' = itemsBar
    BY <1>6, <2>2, ItemsUntouched DEF ReloadWrite, producerVars
  <2>4. offeredBar' = offeredBar /\ out' = out /\ alive' = alive
    BY <1>6 DEF ReloadWrite, producerVars, offeredBar
  <2>5. clearingBar' = clearingBar
    BY <1>6 DEF ReloadWrite, clearingBar, Taking, CIdle
  <2> QED BY <1>s, <2>3, <2>4, <2>5
<1>7. CASE Take
  <2>1. /\ itemsBar # <<>>
        /\ storage[calculate_index(consumer.pos)] = Head(itemsBar)
        /\ itemsBar' = Tail(itemsBar)
    BY <1>7, TakeRemovesHead
  <2>2. offeredBar' = offeredBar /\ alive' = alive
    BY <1>7 DEF Take, producerVars, offeredBar
  <2>3. consumer \in [pc : {"take"}, op : ConsumerOps, seen : Cursor,
                      pos : Cursor, end : Cursor]
    BY <1>0, <1>7 DEF TypeOK, Take, CIdle
  <2>4. /\ clearingBar = (consumer.op = "clear") /\ clearingBar' = clearingBar
    BY <1>7, <2>3 DEF Take, clearingBar
  <2>5. CASE consumer.op = "clear"
    <3>1. out' = out /\ clearingBar
      BY <1>7, <2>4, <2>5 DEF Take
    <3>2. Fifo!Discard
      BY <2>1, <2>2, <2>4, <3>1 DEF Fifo!Discard
    <3> QED BY <3>2 DEF Fifo!Next
  <2>6. CASE consumer.op # "clear"
    <3>1. out' = Head(itemsBar) /\ ~clearingBar
      BY <1>7, <2>1, <2>4, <2>6 DEF Take
    <3>2. Fifo!Deliver
      BY <2>1, <2>2, <2>4, <3>1 DEF Fifo!Deliver
    <3> QED BY <3>2 DEF Fifo!Next
  <2> QED BY <2>5, <2>6
<1>8. CASE PublishRead
  <2>1. LiveFrom' = LiveFrom
    BY <1>8 DEF PublishRead, LiveFrom, CIdle
  <2>2. itemsBar' = itemsBar
    BY <1>8, <2>1, ItemsUntouched DEF PublishRead, producerVars
  <2>3. offeredBar' = offeredBar /\ out' = out /\ alive' = alive
    BY <1>8 DEF PublishRead, producerVars, offeredBar
  <2>4. clearingBar = (consumer.op = "clear") /\ clearingBar' = FALSE
    BY <1>8 DEF PublishRead, clearingBar, CIdle
  <2>5. CASE consumer.op = "clear"
    <3>1. clearingBar' = ~clearingBar
      BY <2>4, <2>5
    <3>2. Fifo!Clear
      BY <2>2, <2>3, <3>1 DEF Fifo!Clear
    <3> QED BY <3>2 DEF Fifo!Next
  <2>6. CASE consumer.op # "clear"
    <3>1. clearingBar' = clearingBar
      BY <2>4, <2>6
    <3> QED BY <1>s, <2>2, <2>3, <3>1
  <2> QED BY <2>5, <2>6
<1>9. CASE Destroy
  <2>1. alive /\ ~alive' /\ out' = out
    BY <1>9 DEF Destroy, consumerVars
  <2>2. offeredBar = <<>> /\ offeredBar' = offeredBar /\ clearingBar = FALSE /\ clearingBar' = clearingBar
    BY <1>9 DEF Destroy, offeredBar, clearingBar, producerVars, consumerVars
  <2>3. itemsBar' = <<>>
    <3>1. itemsBar' = [k \in 1 .. 0 |-> storage'[calculate_index(Plus(LiveFrom', k - 1))]]
      BY <2>1 DEF itemsBar
    <3> QED BY <3>1
  <2>4. Fifo!Close
    BY <2>1, <2>2, <2>3 DEF Fifo!Close
  <2> QED BY <2>4 DEF Fifo!Next
<1>10. CASE Destroyed \/ UNCHANGED vars
  <2>1. UNCHANGED vars
    BY <1>10 DEF Destroyed
  <2>2. LiveFrom' = LiveFrom
    BY <2>1 DEF vars, consumerVars, LiveFrom
  <2>3. itemsBar' = itemsBar
    BY <2>1, <2>2, ItemsUntouched DEF vars, producerVars
  <2>4. offeredBar' = offeredBar /\ clearingBar' = clearingBar /\ out' = out /\ alive' = alive
    BY <2>1 DEF vars, producerVars, consumerVars, offeredBar, clearingBar
  <2> QED BY <1>s, <2>3, <2>4
<1> QED BY <1>1, <1>2, <1>3, <1>4, <1>5, <1>6, <1>7, <1>8, <1>9, <1>10
        DEF Next, ProducerRuns, ConsumerRuns

(* spsc_queue implements a bounded FIFO that loses, duplicates and reorders *)
(* nothing, for every N, counter width, batch and interleaving, with late   *)
(* loads, wherever elements are constructed one by one: "No enqueued        *)
(* element is ever overwritten or dropped" (class comment).                 *)
THEOREM QueueIsFifo ==
  ASSUME CopiesInOrder
  PROVE  Spec => Lossless
<1>1. Init => Staged
  BY DEF Init, Staged, PIdle
<1>2. RingInv /\ Staged /\ [Next]_vars => Staged'
  BY StagedNext
<1>3. RingInv /\ Staged /\ [Next]_vars => [Fifo!Next]_(Fifo!vars)
  BY NextRefines
<1> QED BY <1>1, <1>2, <1>3, InitRefines, RingInductive, PTL DEF Spec, Lossless, Fifo!Spec
=============================================================================
