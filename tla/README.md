# Exchange engine: TLA+ models and proofs

Models of the exchange engine (order book, object pool, level search, the two
single-producer/single-consumer queues, and the programs that capture, parse and
replay market data), the TLC runs that check them on small instances, and TLAPS
proofs of the properties that matter most for every instance.  Paths are
relative to the repository root; `PROJECT.json` maps every definition to the
lines it models.

## 1. The system

A single-threaded matching engine, the lock-free queues meant to feed it, and
the tools that capture and parse exchange data to replay through it.

| Component | State | Operations that change it | Interacts with |
|---|---|---|---|
| `OrderBook` (`src/engine/order_book.*`) | `pool_`, two sorted vectors of levels, `index_` from id to location | `place_order`, `cancel_order`, `add_order`, `delete_order`, `set_level` | calls the pool and the search; called by one thread |
| `ObjectPool` (`src/memory/object_pool.hpp`) | `nodes_`, `free_list_` | `allocate`, `deallocate`, assignment through `get` | owned by the book, which links its nodes into FIFOs by index |
| `branchless_lower_bound` (`src/engine/branchless_binary_search.hpp`) | loop locals | one loop | positions a price in a side |
| `spsc_queue` (`src/concurrent_queue/spsc_queue.hpp`) | ring storage, two shared cursors, each owner's copy and its cached copy of the other | `try_emplace`, `try_emplace_range`; `try_dequeue` (two forms), `try_dequeue_range`, `consume_up_to`, `consume_all`, `clear`; destructor | one producer and one consumer thread |
| `FastQueue` (`src/concurrent_queue/fast_queue.hpp`) | byte ring, two cursors | `try_push`, `try_pop` | one producer and one consumer thread |
| `start_lifetime_as_array` fallback (`src/utils`) | none | rewrites a ring in place | called by `spsc_queue`'s bulk copies |
| Binance depth parser (`src/io`) | loop locals | `parse_scaled`, the two document parsers, the line loop | turns texts into snapshots and updates |
| `ws_capture_tool` (`src/tools/ws_capture_main.cpp`) | a connection, an output stream, a deadline | connect, read and write frames, close | writes the file the replay reads |
| `snapshot_tool` (`src/tools/snapshot_main.cpp`) | a connection, a book | fetch or read a file, parse, load, report | calls the parser and `add_order` |
| Market replay (`benchmark/market_replay.cpp`) | a book, a feed | `load`, `seed_book`, `apply`, two benchmark loops | calls the parser and `set_level` |

What is hard here, and what correctness means:

* **Order book.** Four structures describe the same orders: the level vector,
  the doubly linked FIFOs inside the pool, the cached totals and the id index.
  Every operation updates some of each, and an inconsistency bites many
  operations later, when a slot is recycled.  Correct means: sides sorted, lists
  well formed, slots partitioned, totals exact, index exact, price-time priority,
  no crossed book, fill-or-kill all or nothing, loops that end.
* **Queue.** Each thread works from stale copies of the other's cursor, counters
  wrap, ranges wrap round the ring, elements have lifetimes.  Correct means: a
  lossless bounded FIFO, no slot touched by both threads, no leak, no call that
  waits for the other thread.
* **Search.** Odd lengths, equal keys, both comparators, no probe past the end.
* **Parser.** Three loops share one index; signs, points, precision and overflow
  meet.  Correct means: exactly the numerals are accepted, and converted exactly
  while they fit.
* **Market data.** Four programs and an exchange are connected by a stream, two
  files and an absolute-size protocol in which nobody compares sequence numbers.
  The connection may be lost, the server may close or fall silent, writes may
  fail, the capture may be killed in the middle of a line.  Correct means: what
  is replayed has no gap, the books show the market of some moment, replaying
  again changes nothing, the programs end.

`PROJECT.json` lists the hazards one by one, each at its line, with the
properties that would catch it.

## 2. Modules

| Module | Models |
|---|---|
| `BranchlessLowerBound` | the search loop, one iteration per step |
| `ObjectPool` | the pool, as operators on a record |
| `OrderBook` | the book: the five entry points and the iterations of their loops |
| `OrderQueues`, `PriceTimeBook` | abstract: a queue of orders per side and price, one step per observable effect |
| `OrderBookRefinement` | the mapping from `OrderBook` to `PriceTimeBook` |
| `SpscQueue` | the two threads, one access to shared memory per step |
| `BoundedFifo` | abstract: a lossless bounded FIFO |
| `SpscQueueRefinement` | the mapping from `SpscQueue` to `BoundedFifo` |
| `FastQueue` | the byte ring and its two threads, one byte copied per step |
| `FastQueueRefinement` | the mapping from `FastQueue` to `BoundedFifo` |
| `ParseScaled` | `parse_scaled`, one iteration of one of its loops per step |
| `DepthParser` | the document parsers, as operators on JSON values |
| `WsCapture` | the capture coroutine, one `co_await` per step, with its socket and file |
| `SnapshotTool` | `snapshot_tool`: its awaits, parsing, and loading the book (extends `OrderBook`, `DepthParser`) |
| `MarketReplay` | loading the two files, seeding, applying, passes (extends `OrderBook`, `DepthParser`) |
| `MarketData` | composes `WsCapture`, `MarketReplay` and `SnapshotTool` with the exchange and the user |
| `MC*` | sets of inputs for TLC |
| `BranchlessLowerBoundProofs`, `ParseScaledProofs`, `SpscQueueProofs`, `FastQueueProofs` | theorems about the module of that name and its refinement |
| `OrderBookProofs` | the order book: ranges, sorting, matching; lemmas on its linked lists and its member functions |
| `OrderBookSafetyProofs` | the order book: its safety theorems and its refinement of `PriceTimeBook` |
| `MarketDataProofs` | theorems about `MarketData`, on top of `OrderBookProofs` |
| `InductionLemmas` | induction, functions defined by recursion, pigeonhole, division |

Definitions whose comment begins with "Slip" are deliberately wrong variants of
the definition that follows them.  Nothing uses them: each one stands for a
plausible bug, and substituting it for the real definition makes the property it
is paired with in `PROJECT.json` (`mutants`) fail.

### OrderBook

`book` is the record of the class's members; `call` holds the locals of the
function that is running.  The class is not thread-safe, so no operation starts
before the running one has returned.

| Action | Code (`order_book.cpp`) |
|---|---|
| `PlaceOrder` | `place_order` up to `match`, with the fill-or-kill test |
| `MatchStep` | one iteration of `match`'s inner loop, and the erasure of an emptied level |
| `MatchReturn` | the end of `place_order`: rest the remainder or drop it |
| `CancelOrder` | `cancel_order` |
| `AddOrder` | `add_order` |
| `DeleteOrder`, `DeleteStep`, `DeleteReturn` | `delete_order`: entry, one iteration, erasure |
| `SetLevel` | `set_level` up to its loops, and the creation of a level |
| `ClearStep`, `ClearReturn` | its removal of a level |
| `CollapseStep`, `CollapseReturn` | its collapse of a level onto the head node |
| `Halted` | the program after a failed assertion |

`rest`, `pop_front`, `unlink`, `find_level`, `crosses` and `can_fully_fill` are
operators with the names of the functions.  `find_level` is the set of positions
that split a side as a lower bound does (a sorted side has exactly one);
`BranchlessLowerBound` shows that the search returns such a position.

Abstractions.  Index `i` of the pool is `i + 1`, so that `null_index` is 0 and
following a null link is an error TLC reports.  Ids are only compared.  Prices
and volumes are unbounded integers.  The build is one with assertions: an
exhausted pool ends the program.  (With `NDEBUG` the vector grows instead, and
since no reference into it is held across an `allocate`, the book goes on.)  An
abort leaves `book` as it was: nothing reads it afterwards.

Assumptions, all from the code's contracts: `set_level` is not mixed with
`place_order`/`cancel_order` (`order_book.hpp:76`); the id of a resting order is
not reused (`UniqueIds`; the code neither states nor checks this, see section 5).

### SpscQueue

Steps are accesses to shared memory with the private work around them: `Emplace`
(entry, test of the cached cursor), `ReloadRead` (the acquire load in
`has_room`), `Store` (one element), `PublishWrite`; `Consume`, `ReloadWrite`,
`Take`, `PublishRead`; `Destroy`.  The six consuming entry points differ in how
many elements they take and in whether they reload, and share these steps: the
two `try_dequeue` overloads are one operation with limit 1.

Memory model.  Stores are sequentially consistent per location.  A load of the
other thread's cursor may return any value between the one the thread saw last
and the current one (`LateLoads`): coherence without a promise of freshness,
which is what acquire/release gives for two cursors with one writer each.
Element accesses need no weaker model, because a cursor is only acted on after
the release store that follows the elements.  `LateLoads = FALSE` is the
prompt case, used only for the two properties that need it.

Cursors count modulo `Wrap` (2^64 in the code) and the ring index is the cursor
modulo `N`; both are constants, with `N` dividing `Wrap` and `Wrap >= 2N`.
`Raw` is storage without an element; `Garbage` is what a read outside a source
range yields.

Late loads are over-approximated: a load may also return a position inside a
batch, which the cursor skipped when the batch was published.

### FastQueue

`Push` and `Pop` are the entries of `try_push` and `try_pop` (loads and test),
`copy_in` and `copy_out` copy one byte, `PublishWrite` and `PublishRead` store a
cursor.  A frame is the header (`kHeader` digits to the base `Base`: 4 and 256 in
the code) followed by the payload.  The header is really encoded and decoded, and
the 32-bit truncation of the size is modelled; payloads are assumed shorter than
2^32.  Each cursor is the sequence of values the other thread can still load, so
late loads are exact here: a consumer that saw a cursor in the middle of a frame
would read a wrong length.  The refinement parses the bytes between the cursors
back into messages, so that what the ring really holds is compared with what was
pushed.  `Weight` is what each byte of a header counts for, and `round_up_pow2` is
its loop as a recursive function.

### ParseScaled

A character is an integer: digits are their values, the sign characters, the
point and "anything else" are negative codes.  `i`, `negative`, `value`,
`any_digit` and `consumed` are the function's locals; `Base` and `MaxInt` are 10
and 2^63 - 1 in the code and constants here, so that overflow happens in small
instances.  Signed overflow is undefined, and any `int64_t` may come out of it.
The reference definition (`WellFormed`, `Magnitude`, `Scaled`) goes by positions
and places, not by scanning: the magnitude is the sum, over the digits within the
precision, of each digit times the power of the base at its place.  A numeral with no digit within the precision (".5"
with no decimals) is not well formed in this sense: the code rejects it.

### The programs around a book

`DepthParser` works on JSON values as simdjson delivers them; a decimal string is
represented by what `ParseScaled` makes of it.  A text whose end is missing never
gets past simdjson (a frame holds no brace but its last), which is assumed of the
library.

`WsCapture`: `Following` is the chain of awaits up to the open stream; each one
either completes (`Proceed`) or fails or times out (`Refused`).  `OpenFile`,
`TestDeadline`, `ReadFrame`, `ReadEnd`, `Flush` and `Close` are the rest of the
coroutine; `Deadline` is the clock.  Output is buffered: what reaches the disk
when the process is killed, or a write fails, is a prefix that may end inside a
line (`CutOff`).  A failed write is not noticed by the code, nor by the model.  A
kill before the file is opened or after it is flushed leaves what a failure or a
success leaves and has no action of its own.

`SnapshotTool` and `MarketReplay` have a variable with the program's locals
each, and drive the real `OrderBook`: `LoadLevel` is a call of `AddOrder`,
`SetNextLevel` one of `SetLevel`, and the iterations of `set_level`'s loops are
steps in between (`BookStep`).  `ParseLine` is the line loop of
`parse_binance_depth_updates`.  `NextPass` is the benchmark loop: the steady one
keeps its book, the cold one makes a new one.

`MarketData` adds what is outside the repository: the exchange, which publishes
updates with absolute sizes, sends other frames and blank ones, answers requests
with the market of the moment, with something that is no snapshot, or with an
error status, whose body may parse as a snapshot (`Answers`); and the user, who
saves a snapshot at some time.  One behaviour runs one program: a capture and then a replay of it, or
`snapshot_tool` on a live or a file source.  An update carries one update id
(`U` = `u`), and the limit of a snapshot request is not reached.  `Market(n)` gives
every side and price its size after `n` updates, the one that was set last
(`SizesAfter`); `Ladder` lists the prices with a size, best first, as the exchange
sends them.  Prices fit their type, sizes are not negative and no other frame
could be taken for an update (`MarketAssumption`, `SpanAssumption`).

## 3. Runs

| Run | Instance | States | Shows |
|---|---|---|---|
| `search` | every descending range of up to 6 keys from 4 values, 6 values searched | 4.8k | window in range, termination, lower bound |
| `book_flow` | 3 ids, 2 prices, both sides, all order types, pool of 3 | 483k | all safety invariants of identified flow; matching and cancelling implement `PriceTimeBook` |
| `book_mixed` | place, cancel, add, delete at one price, pool of 3 | 101k | anonymous and identified orders in one FIFO; calls return |
| `book_depth` | add, delete, set at one price, volumes 0 to 2, pool of 3 | 53k | depth-feed operations keep pool and totals, return, and implement `PriceTimeBook` |
| `queue` | N = 2, Wrap = 6, all entry points, late loads | 183k | window, lifetimes, leaks, observers, `BoundedFifo`, no call waits for a stopped thread |
| `queue_prompt` | N = 2, Wrap = 6, loads return the latest store | 173k | refused only when full, empty only when empty, reloading `clear` and `consume_all` leave nothing |
| `fast_queue` | ring of 8 bytes, 2-byte binary headers, one payload of each length 0 to 3, cursors modulo 16 | 102k | lengths read are right, `BoundedFifo`, no call waits for a stopped thread |
| `scaled` | every string of up to 5 characters over 3 digits, two signs, point and a letter, precisions -1 to 4, integers up to 15 | 1.5M | exactly the numerals are accepted; those that fit are exact |
| `market_data` | 3 updates of 2 kinds that undo each other, 4 malformed documents, blank frames, all faults, 2 passes, pool of 4 | 979k | no gap in the feed, both kinds of book show the market, passes are idempotent, the programs end |
| `book_duplicate_ids` | ids may be reused | violation | section 5 |
| `queue_consume_all` | N = 2 | violation | section 5 |
| `queue_trivial_range` | trivially copyable elements | violation | section 5 |

Bounds.  Three nodes are enough for a list with a head, a middle and a tail, and
for two levels of which one holds two orders; two prices per side are enough for
crossing, not crossing and walking through a level; orders of 2 rest and
orders of 3 take, so a match spans several orders, leaves remainders of 1, and an
order of 2 that meets such a remainder rests what is left of it.  The pool fills up, and slots are
recycled from one list to another.  The ring of two with cursors modulo six wraps
at the ring three times before the cursors do; batches of 0 to 3 elements
include one that can never fit.  In the byte ring, frames of 2 to 5 bytes start
at every offset, so headers and payloads both wrap at every place.  For longer ranges the search, and for longer texts
the acceptance of numerals, are covered by the proofs.  Five characters hold a
sign, a point and three digits, or two points; three digits to the base 3 exceed
15, so overflow happens before and after the point and while padding.  Three
updates allow a gap in the middle of a feed, and a snapshot before, within and
after a capture; each of the two changes adds, resizes and removes levels that
the other one touches.  The pool of four is one more than the levels of the
market, so that an order too many is seen before the pool is exhausted.  Both comparators are covered by the proofs, and descending, the one
of bids, by the run.

Ids of orders that may rest are symmetric where no liveness is checked.
`search` ends when its loop ends, so it does not check deadlock; a halted program
and a destroyed queue stutter, so every other run does.

Fairness.  `WF(Running)` in `OrderBook`: a function that has been entered is
executed.  No caller is ever obliged to call.  The queues' specifications have no
fairness at all: either thread may stop for ever, between two calls or in the
middle of one.  Fairness is the hypothesis of what is claimed of a thread, and
only that thread's (`WF_vars(ProducerRuns)` in `ProducerReturns`,
`WF_vars(ConsumerRuns)` in `ConsumerReturns`): a thread that goes on running
returns from its calls whatever the other does.  With fairness of both, a call
that waits for the other thread to finish its own would pass.  `Visible` is never
empty, so a load always returns.

In `MarketData`, `WF` of the capture's and of `snapshot_tool`'s own steps and of
the clock.  An await under a timer ends one way or the other, so its step is
fair; the name lookup has no timer, in both tools, and is excluded.  The server
owes nothing: a read from a connected, silent server is not a step that can be
taken.  `ToolsEnd` therefore says that the programs end unless the lookup never
returns or the server stays connected and silent.  (Beast's suggested client
settings have a handshake timeout and no idle timeout.)  The clock has to be
fair: against a server that sends for ever, only the deadline ends a capture.

The loop of `place_order` has no `CallsReturn` in `book_flow`, where ids are
symmetric; `book_mixed` checks it.

The refinements are checked for safety: the abstract specifications have no
fairness of their own, and progress is `CallsReturn`.

## 4. Proofs

| Theorem | States |
|---|---|
| `BranchlessLowerBoundProofs!MemorySafe`, `WindowBrackets`, `Correct` | `TypeOK` (no probe outside the range), `Bracketed`, `ReturnsLowerBound` |
| `OrderBookProofs!TypeCorrect` | `TypeOK`: every link, head, tail, freed and indexed node and every held iterator is in range |
| `OrderBookProofs!StaysSorted` | `SidesSorted` |
| `OrderBookProofs!StaysUncrossed` | `NeverCrossed`, for a caller that uses `place_order`, `cancel_order` and `delete_order` only |
| `OrderBookSafetyProofs!ListsStayLinked`, `SlotsStayPartitioned` | `ListsLinked`, `SlotsPartitioned` |
| `OrderBookSafetyProofs!TotalsStayExact` | `TotalsExact` |
| `OrderBookSafetyProofs!IndexStaysLive` | `IndexLive`, also when ids are reused |
| `OrderBookSafetyProofs!StaysCancellable` | `Cancellable`, for a caller that does not reuse the id of a resting order |
| `OrderBookSafetyProofs!AbortsWhenFull` | `AbortsOnlyWhenFull` |
| `OrderBookSafetyProofs!TradesStayBestFirst`, `FillOrKillIsFilled` | `TradesBestFirst`, `FillOrKillFills` |
| `OrderBookSafetyProofs!KeepsPriceTimePriority` | `Refines`: `OrderBook` implements `PriceTimeBook`, for every mix of entry points the contract allows |
| `ParseScaledProofs!ReadsWithinText` | `TypeOK`: no character past the end is read, the accumulator is an `int64_t` |
| `ParseScaledProofs!AcceptsNumerals` | `RejectsMalformed` |
| `ParseScaledProofs!ConvertsExactly` | `ParsesExactly` |
| `SpscQueueProofs!TypeCorrect`, `WindowHolds` | `TypeOK`, `CursorWindow` |
| `SpscQueueProofs!SlotsStayLive`, `DestructorComplete`, `ObserversHold` | `SlotsLive`, `NothingLeaks`, `ObserversExact` |
| `SpscQueueProofs!EmptyIsEmpty`, `RefusedIsFull` | `EmptyOnlyWhenEmpty`, `RefusedOnlyWhenFull`, when loads return the latest store |
| `SpscQueueProofs!QueueIsFifo` | `Lossless`: `SpscQueue` implements `BoundedFifo`, wherever elements are constructed one by one (`CopiesInOrder`) |
| `FastQueueProofs!TypeCorrect`, `StaysIntact` | `TypeOK`, `QueueIntact` |
| `FastQueueProofs!FastQueueIsFifo` | `Delivers`: `FastQueue` implements `BoundedFifo` |
| `MarketDataProofs!ReplaysConsecutiveUpdates` | `FeedContiguous` |
| `MarketDataProofs!KeepsBookSteady` | `SteadyState` |
| `MarketDataProofs!ReplayReconstructs` | `Reconstructs` |
| `MarketDataProofs!ReportsLiveBook` | `ShowsLiveBook` |

Every safety property that a passing run checks is one of these theorems.

They hold for every value of the constants that satisfies the modules' named
assumptions (`SearchAssumption`, `CapacityAssumption`, `BookAssumption`,
`QueueAssumption`, `FastQueueAssumption`, `ScaledAssumption`, `SpanAssumption`,
`MarketAssumption`).  The four
hypotheses beyond these are each the point where the code stops keeping the
promise: `add_order` and `set_level` do not match (`NeverCrossed`), reused ids
and the `memcpy` path are findings 1 and 3 of section 5, and a late load may
refuse a call that would have succeeded.

*Search.* `TypeOK` is inductive; `Bracketed` is inductive with it and uses that
the range is sorted: if the probed key is ordered before the value so is
everything left of it, otherwise nothing right of it is.  With length 0 the
bracket is the definition of a lower bound.

*Order book, ranges and order* (`OrderBookProofs`).  The inductive invariant is
`TypeOK /\ SidesSorted /\ NoLevelEmpty`.
`NoLevelEmpty` (no level has a null head, except the one a running
`delete_order` or `set_level` is emptying) is needed for type correctness
already: `set_level` reads `head->next` of an existing level, and `match` the
order at `head`, without a test that could fail safely.  `SidesSorted` rests on
two facts about sequences (inserting at a lower bound and removing an element
keep a side sorted).  `NeverCrossed` adds the argument about matching: an order
rests only when the loop condition has failed with volume left, so the opposite
side is empty or its best price does not cross; by sorting, neither does any
other.

*Order book, lists* (`OrderBookProofs`).  `ListsLinked`, `SlotsPartitioned`
and `TotalsExact` follow `next` links from a head, and no operation does: each
changes a few links.  The proofs describe a book by two functions that the book
itself does not hold: `place[n]`, the level in whose list slot `n` stands, its
rank there and the sum of the volumes up to it; and `ends[key]`, head and tail of
each level's list.  `Layout` says that links and places agree slot by slot.  For
each of the ways in which the code changes links (appending, splicing out,
changing the volume of the oldest order) a lemma gives the new places, and each
member function is shown to be one of these ways.  Only at the end an induction
along a list shows that a book with a layout has linked lists, in rank order.

*Order book, safety* (`OrderBookSafetyProofs`).  `SafeInv`: the book has a layout
with which totals and index agree.  During `set_level`'s collapse it has none,
since the loop frees the orders behind the head and the head's link is reset only
after it; the invariant then speaks of the book as it would be with the next
order to free linked to the head (`Repaired`).
That no slot is lost makes an abort mean a full pool (a sequence without
repetition over `n` values is at most `n` long: `Pigeonhole`).  `MatchInv` adds
what matching needs: no resting order has a better price than an execution so far, and for an accepted fill-or-kill the crossing levels hold at least the
volume that is left, which `can_fully_fill` found out from the cached totals.

*Order book, refinement* (`OrderBookSafetyProofs`).  The queue at a price is the
sequence of orders at the places that the layout gives to its list (`Reads`); no
order at a price, no level.  The lemmas on appending, splicing out and changing a
volume then say what each member function does to the queues: append, remove at
a position, give the oldest order another volume.  The
mapping makes `delete_order` and `set_level` take effect when they are entered:
`Drained` of what is left is the same before and after an iteration, and so is
the outcome of a level that is emptied or collapsed.  The layout alone does not
show the last of these, since the orders behind a collapsing head are freed one
by one; `BarInv` (`Collapsing`) adds that the freed ones belong to no other queue
and that the head, whose volume will be overwritten, still is the oldest.  Free
slots and places correspond, so an abort is a full book in the abstract sense;
crossing levels are the tradable prices, so the order taken is the abstract one;
and `can_fully_fill` sums the totals of exactly those prices (`Fillable`).

*Parser, acceptance.* `RejectsMalformed` speaks of the end of the scan only.  The inductive
invariant `IInv` says what the scan knows of the text on its way: before the
point, all characters after the sign so far are digits (`Integral`); past a point
at `p`, all others are, and `consumed` is the smaller of `decimals` and the
distance from `p` (`Fractional`); while padding, `any_digit` is equivalent to
`WellFormed`.  Two lemmas about texts (`DigitsOnly`, `DigitsAndPoint`) carry the
scan's knowledge over to the definition by positions.  Overflow does not matter:
no test of the scan looks at `value`.

*Parser, conversion.* `ExactInv` speaks of numerals whose magnitude fits: `value`
times the power of the base for the places still to come is the sum of the digits
scanned so far, each at its place (`Total`).  So `value` is never larger than the
final magnitude and nothing overflows on the way to one that fits; nothing is
claimed of the others.  The sum and the powers are recursive functions, so that a
step of the scan is a step of the recursion.

*spsc_queue.* `TypeOK /\ CursorWindow` is inductive.  `CursorWindow` is
stated inductively from the start: the class's invariant that the count is in
[0, N] is not inductive, because a thread acts on a stale copy.  What is
inductive is the ring order of all six positions (the producer's copy of the
read cursor, the read cursor, the consumer's position and end, its copy of the
write cursor, the write cursor and the batch being written) within one window of
`N`.  Lemmas on `Plus` and `Minus` carry the wrapping arithmetic.  `RingInv` adds
`SlotsLive`: the live slots are those between the consumer's position and the
producer's, which are different slots because the window is no wider than the
ring.  The refinement needs one more fact, `Staged`: the slots after the write
cursor hold the first elements of the batch being written, so that publishing it
appends the batch.

*FastQueue.* The cursors and locals say nothing of what the ring holds, and a
consumer with an old write cursor reads a header published long ago.  The
invariant says that there is a set of boundaries, distances from the read cursor,
such that from each boundary to the next the ring holds the frame of one message,
and every write cursor that can still be loaded is at a boundary (`Layout`).
From every read cursor the producer can still load the ring is not over full
(`Freed`), so the frame being written is outside (`Writing`).  A header decodes to
the length it was made from by induction over its digits (`HeaderDecodes`).  The
refinement mapping parses the ring backwards from the write cursor; induction
over the boundaries shows that it finds exactly the messages between them
(`ParseMessages`), that writing a byte leaves them alone, and that publishing
appends or removes one.  TLC checked this invariant on the instance of
`fast_queue` before it was proved.

*Market data* (`MarketDataProofs`).  There is one argument per hand-over.

What the exchange writes is what the parser reads (`DocumentParses`): the levels
come back in order, at the same prices and sizes, and no torn line or other
frame is taken for an update.

`CaptureInv`: the updates among the frames written, followed by those that wait in
the socket, are consecutive, and as long as the connection is open they end with
the latest one.  Once a write has failed that is true of what was written only; a
prefix of it, torn or not, is what a kill leaves.  `ReplayInv`: the lines parsed so
far are the updates replayed so far (`Fed`), and nobody writes to the file or the
snapshot any more, since the replay starts when the capture has ended.

A running `set_level` shows neither the old size nor the new one.  `Heading` is
therefore what the book will show once the call that is running returns, and
`SteadyInv` says that what is still to be set in the pass leads from there
(`CourseOf`) to the sizes after the whole feed.  Where a pass starts does not
matter, because every price it touches is set in it and the book shows no other
price (`Within`): so a second pass ends where the first one did.
The pool does not grow then, because a slot that is not free is the head of a
level (`Heads`) and a price that has a level takes no slot.

`Reconstructs` needs a fact about updates, not about books: sizes that are set
twice are the sizes that were set last, so a snapshot followed by all captured
updates, the older ones included, and the market's own history followed by them
are the same (`CatchesUp`).  `ToolInv`: `add_order` adds to a level and does not set
it, so that each level still to be loaded stands at a price that has no order
yet (`Loading`); a response lists no price twice, which is what `Ladder` gives,
and the moment it shows is past (`Market` of it does not change any more).  The
body of an error is anything; once the status is found to be 200, the answer is
such a response or does not parse (`Accepted`, `Answered`).

*Induction.* The prover cannot use an induction theorem that takes a predicate.
`InductionLemmas` states induction for sets instead: a set that holds 0 and the
successor of each of its members is `Nat`.  A recursive function is a `CHOOSE`;
that it satisfies its own equation is derived from the existence of a function
that does, which is proved first, and no other step expands the choice.

Only model-checked: liveness (`Terminates`, `CallsReturn`, `ToolsEnd`), which is
beyond the prover, and the three counterexamples of section 5.

## 5. Where code and documentation disagree

1. **Reused ids** (`book_duplicate_ids`).  `order_book.cpp:196` overwrites the
   index entry of an order already resting under the id.  The older order stays
   in the book and cannot be cancelled, although `order_book.hpp:45` promises to
   "Cancel a previously placed (identified) order".  All other runs assume
   unique ids.
2. **`consume_all`** (`queue_consume_all`).  `spsc_queue.hpp:346`: "Apply fn to
   every queued element in place, then empty the queue".  It counts with the
   cached write cursor and leaves elements enqueued before the call, if the cache
   already showed some.  `consume_up_to` and `try_dequeue_range` do the same.
3. **Bulk enqueue of trivially copyable elements** (`queue_trivial_range`).
   `spsc_queue.hpp:155` adds `first_chunk` to the source of both copies; the
   first copy therefore starts past the elements it should copy.  The test
   `EnqueuesWholeRangeInOrder` expects the documented behaviour.

The other queue runs model a `T` that is not trivially copyable, where ranges are
constructed element by element.

Smaller disagreements, met while modelling and not given a run of their own:

* `binance_depth.hpp:99` promises "the first line's error"; `binance_depth.cpp:247`
  formats it with one placeholder for two arguments, so only the line number
  comes out.
* `binance_depth.hpp:39`: "Extra fractional digits are truncated".  With no
  decimals, ".5" has only extra digits and is rejected for having none.
* `binance_depth.hpp:44`: "an error message on malformed input".  A number that
  does not fit an `int64_t` is no error (`ParsesExactly` is stated for those that
  fit).
* `ws_capture_main.cpp:55`: "Nothing on success, or a human-readable error
  string".  A capture whose writes failed reports success and counts the lost
  frames as captured.
* `ws_capture_main.cpp:54`: "How long to record before closing".  The deadline is
  tested between two reads only; with a silent server the tool records for ever.
* `market_replay.cpp:147`: "Aborts if an OB_REPLAY file is set but fails to
  parse".  A file that cannot be opened parses as an empty capture.
* `binance_depth.hpp:64`: "Replaying these onto a book seeded from a REST
  snapshot reconstructs the live book".  `Reconstructs` holds because sizes are
  absolute, but only for a snapshot that lies within the capture: ids are not
  compared, so an older or a newer one is not noticed.

## 6. Not modelled

* 64-bit overflow of volumes and totals (signed, undefined behaviour in the
  code) and of prices.
* `set_level` mixed with identified flow: outside the documented contract.
* The `memmove` fallback for `start_lifetime_as_array`, which rewrites slots the
  other thread owns.
* `FastQueue` payloads of 2^32 bytes and more, whose size the code truncates
  before the room test, and output spans smaller than the message (a documented
  precondition).
* The synthesized snapshot and feed of the replay benchmark, which a
  pseudo-random generator makes when no files are named.
* The JSON parser (simdjson), TLS and HTTP (Boost.Beast): what the code relies on
  is stated above.  Command lines, the texts of messages, `main.cpp` (empty), the
  other benchmarks and the third-party queues they measure.
* Exceptions from allocation inside the vectors and the hash map.

## 7. State of the development

Done: all components named in section 1 except the `memmove` fallback and the
synthesized replay feed; the refinements of the order book and of both queues;
and proofs of every safety property a passing run checks.

What could follow: 64-bit volumes and totals in `OrderBook`, whose sums
`can_fully_fill` trusts; a liveness argument for the loops by a variant, stated as
an action property (each iteration of `match`, `delete_order` and `set_level`
shortens a list or ends the call), which the prover could check; and the
`NDEBUG` build, in which an exhausted pool grows.
