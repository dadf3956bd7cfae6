# Verification of the mini HFT system

TLA+ models of the exchange simulator in `src/`, the TLC instances that check
them, and TLAPS proofs about them.

## 1. The system

One asyncio process.  HTTP and WebSocket handlers, the strategy runtime and the
background loops run on one event loop; the matching engine is a synchronous
library that they call, so a call of it is never interleaved with another.
What is concurrent is everything behind the event bus: bounded queues that drop
when they are full, and consumers that run later.  The ring buffer is the one
structure meant to be shared by two threads, or by a host and a device.

| Component | State | Operations | Interacts with | What makes it correct |
|---|---|---|---|---|
| Order book (`engine/core/order_book.py`) | two sorted maps price -> level (FIFO queue, running total), cancel map, sequence | submit, cancel, snapshot | called by the engine | price-time priority, never crossed, maps agree, totals exact, quantity conserved |
| Matching engine (`engine/core/matching_engine.py`) | books by symbol, order map, counters | register_symbol, submit_order, cancel_order | drives books, one event per operation to a callback | ids and requests validated before the book sees them, counters reconcile, the event shows the book afterwards |
| C++ book and engine (`engine/cpp`) | same, 32-bit quantities, levels as intrusive lists, nodes in the cancel map | same | called through the bindings | lists sound; the same market as the Python book |
| Backends (`engine/hal`) | Python's copies of native orders and counters | submit, cancel, get, with objects or bytes | the service above, the bindings below | what Python reports is what the native engine did |
| SPSC ring (`engine/core/ring_buffer.py`) | slots, head and tail counters | put, get, peek | one producer, one consumer, no lock | whole frames, in order, once each; bounded |
| Binary protocol (`engine/core/binary_protocol.py`, `wire_codec.hpp`) | none | encode/decode per frame, once in each language | bindings, ring | both languages make and read the same frames |
| Order service, event bus (`api/services/order_service.py`, `shared/events.py`) | bounded queue per subscriber, drop counters | engine callback -> domain events, publish_nowait | all consumers below | per-subscriber order; never blocks the engine |
| Book stream (`book_stream_service.py`, `ws_broadcast_loop`, `useMarketData.ts`) | last snapshot per symbol; the client's book | project to deltas, apply if contiguous | bus, WebSocket | a client that accepts every delta shows the book |
| WebSocket manager (`api/websocket/manager.py`) | connections, symbol and global subscriptions | connect, disconnect, subscribe, broadcast | three broadcast loops, one handler per client | the maps agree; dead sockets leave all of them |
| Persistence writer (`infra/db`) | queue, batch, retry count, metrics | batch, write with retry, drain on stop | bus, PostgreSQL | every consumed event is written or counted as failed; shutdown drains |
| Strategy runtime (`strategy/`) | strategies, owned and open orders, positions | on book update, on trade, start, stop, kill | bus, order service | positions follow fills; kill leaves nothing resting; limits |
| Metrics, trade tape, market-data feed, REST DTOs, dashboard views | projections for display | - | bus | not safety relevant |

Hard behaviours: long sequences of legal book operations (cancel from the middle
of a level, partial fills, sweeps) that must keep four structures in step;
retries of ids already used; two implementations of one market and of one frame
format; lock-free interleavings in the ring; events that
are dropped, late or hold references to orders that have moved on; batches that
fail half way; sockets that stall or die while three loops send to copies of the
subscriber sets; shutdown with work in flight.  `PROJECT.json` lists each hazard
at its line with the properties that cover it.

## 2. Modules

| Module | Models | Extends / instantiates |
|---|---|---|
| `PriceTimePriority` | what a limit-order market promises: a set of resting orders served in price-time priority | - |
| `OrderBook` | `OrderBook` and `PriceLevel` of `order_book.py` | instance of `PriceTimePriority` |
| `MatchingEngine` | `MatchingEngine` of `matching_engine.py` around the book | extends `OrderBook` |
| `BoundedFifo` | what a bounded queue promises | - |
| `RingBuffer` | what the rings of `ring_buffer.py` share: slots, counters, the tests for full and empty | - |
| `SPSCRingBuffer` | `SPSCRingBuffer` of `ring_buffer.py` | extends `RingBuffer`, instance of `BoundedFifo` |
| `DomainEvents` | `OrderService._on_engine_event` and `EventBus.publish_nowait`: one engine operation as events in a bounded queue | used by the three below |
| `DatabaseWriter` | `AsyncDatabaseWriter`, `PostgresCoreSink`, `serialize_event` | extends `DomainEvents` |
| `BookStream` | `ws_broadcast_loop`, `BookDeltaProjector`, `MarketDataPublisher`, the WebSocket endpoint, the client hook | extends `DomainEvents` |
| `StrategyRuntime` | `StrategyRuntime`, `StrategyRiskGuard`, `BaseStrategy`, the quotes of `SimpleMarketMaker`, the routes of `strategies.py` | extends `DomainEvents` |
| `WireCodec` | the codecs of `binary_protocol.py` and of `wire_codec.hpp` | - |
| `CppOrderBook` | `OrderBook` and `PriceLevel` of `engine/cpp` | extends `WireCodec`, instance of `OrderBook` |
| `CppMatchingHAL` | `MatchingEngineFacade`, the bindings, `CppMatchingHAL` of `cpp_hal.py` | extends `CppOrderBook` |
| `BinaryEventRing` | `BinaryEventRing` over the byte storage of `SPSCRingBuffer` | extends `RingBuffer` |
| `ConnectionManager` | `ConnectionManager`, `websocket_endpoint`, the three broadcast loops | - |
| `MC*` | finite instances for TLC | extend the above |
| `MatchingEngineProofs` (book and engine), `CppMatchingHALProofs` (C++ book and backend), `RingBufferProofs` (both rings), `DatabaseWriterProofs`, `BookStreamProofs`, `StrategyRuntimeProofs`, `ConnectionManagerProofs` | inductive invariants and theorems | extend the modules they are about |
| `SharedFacts` | lemmas the proofs share: finite sums; the bounded queues of the bus | extended by the proof modules |

### OrderBook

State: `levels`, `queue` and `total` are the keys of `_bids`/`_asks`, each
level's deque and its `total_quantity`; `cancel_map`, `sequence` as in the class;
`req`, `filled`, `status` are the fields of the `Order` objects; `trades` is
everything submit has reported; `taker` is the order inside `submit`; `stamp` is
a history variable, the sequence number each order was submitted at.

`submit` is split at its loop: `SubmitNew` (entry), `Fill` (one pass of the inner
loop, with the deletion of a level that runs dry), and `FinishFilled`,
`FinishMarket`, `FinishKill`, `FinishRest` (status update, time-in-force policy,
`_rest_order`).  Nothing else can happen between these steps, as in the code;
splitting them lets the invariants speak about the middle of a match and lets
`NoMissedMatch` speak about how the loop ends.  `Cancel`
follows `cancel` including the branch for a stale map entry, which
`CancelMapExact` shows is dead.

The book trusts the engine to submit each id once, with a positive quantity and
a price on every LIMIT order.  `SubmitNew` states that; `ProtectsBook` in
`MatchingEngine` checks that the engine delivers it.

Left out: time stamps, average fill price, the derived price and volume
properties.  Prices are integers (the code uses floats, but only compares them).

### MatchingEngine

One symbol's book behind validation (`Validate`, the reason of the first check
that fails), counters, order map and callback.  `feed` is the snapshot of the
last event that carried one, limited to `Depth` levels.  A rejected order is a
separate object in the code, so the model only counts it.  Latency samples are
left out; the callback cannot fail the engine, because `_emit` swallows
exceptions.

### SPSCRingBuffer

Every access to shared memory is a step: the test of the counters, each of the
two words of a frame, the counter's move.  `Slot` is the mask, `RoundUp` the
constructor's rounding (the instance uses `RoundUp(3)` = 4 slots).  Memory is
sequentially consistent: the class comment claims only that ("the GIL provides
sequential consistency").

### DomainEvents and the consumers of the bus

`Translate` is the engine callback, `Admitted` and `Shed` are `put_nowait` into a
queue of limited depth.  The callback runs inside the engine call, so the events
of one operation are admitted in one step; whatever happens later happens in the
consumer.  Each consumer has its own queue and is modelled on its own, with as
much of the engine as it can see.

`DatabaseWriter`: every await is a step boundary (`NextBatch`, each attempt to
write, `Backoff`).  Events refer to live `Order` objects, so `live` counts the
changes of an order and a row carries the count at the moment `serialize_event`
runs.  A write may fail before the commit or after it (`WriteOutage`), or be
refused because a batch has two rows of one order (`Refused`, the behaviour of
PostgreSQL, which is outside the repository).  `SubmitOrder` stands for any match
the book can make: all makers but the last leave the book.

`BookStream`: follows one client.  The broadcast loop's queue carries every type of
event: book updates compete for its places with trades, order events, rejections and
the tickers of `MarketDataPublisher`.  What is not about the book is followed until it
has been sent.  `todo` is what the endpoint has still to do for
it (the second subscription and one snapshot per symbol, with awaits between
them), `sending` the broadcast under way.  A book image is a function from prices
to contents; `Changes` is the difference of two.

`StrategyRuntime`: `process_event` does not yield; `work` is the rest of it, and
nothing else happens while it is not empty.  Strategies that replace their quotes
return what `SimpleMarketMaker` does: on a book update nothing (no mid price, or the
mid has hardly moved) or a bid and an ask of the quote size, each left out at its
position limit; on a trade nothing.  Other callbacks return any of `Proposals` or
raise.  `CreateMarketMaker` and `KillStrategy` are the REST routes.  The exchange matches an order with any
resting orders of strategies and with others.  `net` is the history of what was
really traded, to compare with the `position` the runtime believes in.  Prices,
profit and `request_stop` (which nothing calls) are left out.

### The C++ backend

`WireCodec` has no state.  A frame is a function from extents (offset, width) to
values.  The Python side gets its offsets by adding up the widths of a struct
format, the C++ side writes them down, and each language has its own tables for
the enumerations; so a field that moved would be read where nothing was written.
`Span[w]` is the number of values of an unsigned integer of `w` bytes, `Low` a cast to
one, `Fits` what `struct.pack` insists on.
Byte order within a field, time stamps, execution ids and the sequence number of
a trade (0 from Python, a counter from C++) are left out.

`CppOrderBook`: `book` maps sides and prices to levels with `head`, `tail`,
`count` and a `total` that wraps; `link` is the `prev` and `next` of each node.
`Fill` is one pass of the inner loop of `match_against`, `Finish` the rest of
`submit`.  A MARKET order crosses whatever its price field says.  The mapping of
`Python == INSTANCE OrderBook` walks each list for the queue of a level and adds
up the remaining quantities for its total.

`CppMatchingHAL`: validation, counters, and the two ways to call.  `cache` is
what `_orders` says of each order, `hal_stats` Python's counters, `feed` the last
snapshot sent out, `answer` what the last submit gave its caller.  A call with
bytes changes native state only; the history variable `stale` holds what such
calls have changed since Python last read it, which is what `CacheIsNative` and
`WireExact` make exceptions for.  `SubmitRaises` is `struct.error`.

### BinaryEventRing

`put_frame` and `get_frame` on a real sequence of bytes, one after the other.  The
slice assignment of `put` is modelled by what Python does with it: a shorter item
shortens the storage.  `short` remembers that such a frame was put.

### ConnectionManager

A step is what runs between two awaits.  `endpoint`, `todo` and `dead` are the
positions of the coroutines: what the endpoint of a client is waiting for, whom a
broadcast has still to serve, and who failed in it.  `peer` is the state of the
socket as uvicorn and starlette show it (external): a client may stall, and a send
to one that has gone may raise or be lost without a word.  `wants` is the history
of what each client asked for.  The symbol sets and the contents of messages are
separate concerns: contents are in `BookStream`.

## 3. Runs

| Run | Bounds | Checks |
|---|---|---|
| `order_book` | 4 ids (symmetric), prices 1..2, quantities 1..2; LIMIT with every time in force, MARKET with and without a price | structure, priority, conservation and finality of the book |
| `matching_engine` | 3 ids, 4 submissions, two symbols of which one is listed, malformed requests, depth 1 | validation, order map, counters, published snapshots, that the engine's behaviours are behaviours of the book's `Spec`, and that those implement the abstract market, liveness included (`ImplementsMarket`) |
| `ring_buffer` | 4 slots, 6 puts of 2 items | FIFO, no torn frames, bounds, refinement of `BoundedFifo` |
| `database_writer` | 3 orders, queue of 3, batches of 2, 1 retry, 2 outages | loss is counted, rows never go back, shutdown drains |
| `book_stream` | 1 symbol, 1 price with contents 0..1, queue of 4, 3 engine operations or ticks, 2 connections | the client converges to the engine's book, deltas never take it back |
| `strategy_runtime` | 2 strategies (one quoting), 3 orders (symmetric), sizes 1..3 with limits 2, queue of 3, 1 outside update | nothing rests for a stopped strategy, quotes are replaced, positions are exact |
| `cpp_hal` | 4 ids, 4 submissions, prices 1..2, a `uint32_t` of 0..15 (`Narrow`), objects and bytes, malformed orders | lists are sound, the C++ book implements the Python book, frames agree, Python's copies follow |
| `event_ring` | 2 slots, frames of 1 to 3 bytes where 2 are expected | frames pass unchanged unless one was too short |
| `connections` | 2 clients, 1 symbol, 2 loops (one per kind of broadcast) | indexes agree, nobody present is dropped, nobody gone is kept, broadcasts end |
| `batch_refused` | 3 orders, no outage | violated: a batch with two rows of one order is lost |
| `gap_never_heals` | queue of 2, 3 operations, 1 connection | violated (under fairness): no snapshot follows a gap |
| `wrong_symbol_shown` | 2 symbols | violated: another symbol's book is shown |

More places where the code does other than its documentation says, met while
modelling and not given a run of their own:

- `cancel` keeps the sequence number although `order_book.py:62-63` has clients
  look for gaps.
- `_order_map` keeps done orders although `matching_engine.py:204-205` says it
  does not.
- A FOK order is matched before its liquidity is known and keeps its fills when
  the residual is cancelled; `types.py:29` says it is filled entirely or rejected.
- A MARKET order may carry a price (`orders.py:29-37`).  The Python book then
  stops at it although `order_book.py:166` says that MARKET orders always cross;
  the C++ book always crosses.  `MatchesPythonBook` is therefore checked for
  MARKET orders without a price.
- A filled maker gets no order event, so its database row keeps an older state
  than `order_book.py:179-180` suggests.
- The inventory limit (`risk.py:34`) counts processed fills only, so several
  accepted orders may together exceed it.
- The level total of the C++ book equals the sum of the remaining quantities only
  modulo 2^32 (`price_level.hpp:43`); matching never reads it, snapshots do.
- A quantity that is no uint32_t, which the Python backend rejects when it is
  negative and accepts when it is large, raises
  `struct.error` out of `submit_order` of the C++ backend.
- A frame of fewer than 64 bytes shortens the storage of `BinaryEventRing`; the
  codecs never make one.

Why the bounds suffice: with four orders on two levels a level holds up to three
orders in front of a taker, so cancels hit the front, the middle and the back;
quantities 1 and 2 give exact, partial and multi-order fills, and sweeps from one
level into the next.  Six puts over four slots wrap the ring, and two words per frame are what tearing
needs.  A batch of two holds two events of one order, three orders give a submit
two makers, and one retry with two outages covers success after failure and
giving up.  Three book operations put a queued delta before, a snapshot between
and a delta behind; one submit that trades fills three of four places in the queue, so
that a second one overflows it; two connections include a reconnection with a stale
book.  One price is enough because levels are compared and replaced price by price.
Three strategy orders are a two-sided quote and its replacement, or a self-cross;
three events hold an undelivered fill while the runtime acts on an older update.
With a `uint32_t` of 0..15 two buyers of 12 wrap the total of their level, and a
third order behind them gives the lists a middle.  Two clients are one that fails
and one that must not suffer from it; one symbol is enough because each symbol has
a set of its own; two loops are one of each kind of broadcast, so that one may
disconnect a client the other is still sending to.  A ring of two slots is reused
several times.  Deadlock is checked everywhere but in `connections`, where all
clients may have left for good.

Fairness: `submit` is a plain call, so a started one runs to its end
(`WF(Fill \/ Finish)`); nothing is assumed about clients.  The ring's consumer
polls: a call it has begun ends, and it returns to `get` again and again (strong
fairness, because its own peeks disable the start of a get in between).  The
producer may stop anywhere, and `BoundedFifo` then still holds.  The writer, the
broadcast loop and the endpoint are tasks of the event loop and get to run again
(weak fairness); the client reads what arrives and its reconnection timer fires.
For sockets (`ConnectionManager`): a stalled one drains or is closed by uvicorn's
ping timeout, and an accept ends (weak fairness); a send that waits is woken
whenever its socket can take it again, however often the client stalls in between,
and a client that has gone has left finitely many messages, after which its
receive raises (strong fairness).  A native submit is a plain call, as the Python
one.  Nothing is assumed about the engine's users or the network, and `StrategyRuntime`
states no fairness because only safety is checked.

## 4. Proofs

Every theorem holds for all values of the constants that satisfy the module's
`ASSUME`s: prices are integers, quantities and capacities positive, requests and
proposals well formed, names that must differ differ.  Bounds that only keep TLC
finite (`MaxOps`, `MaxPuts`, `MaxUpdates`, ...) are arbitrary naturals there; only
`MaxReceived` is taken to be below 2^32, because the frame of a snapshot has four bytes
for the sequence number, and `Depth` below 2^16, because it has two for a count of levels.

**Python book** (`MatchingEngineProofs`): type correctness, `BookNotCrossed`,
`CancelMapExact`, `FifoByArrival`, `LevelsInhabited`, `RestingIsLive`,
`PriorityRespected`, `NoMissedMatch`, `TerminalIsFinal`, `QuantitiesReconcile`, and
that every step of the book is a step of the abstract market
(`BookImplementsMarket`, the safety part of `ImplementsMarket`).

None of these is inductive alone.  The invariant `IInv` joins them with two
facts: `TakerSound` (while a taker is in flight it is in no queue, has the newest
stamp and is not overfilled) and `StampsBounded` (no stamp exceeds `sequence`).
The argument turns on the loop: a level that is best and does not cross implies
no level crosses, which gives `NoMissedMatch`, which in turn is why resting the
residual cannot cross the book.  `FifoByArrival` follows because the taker's
stamp is newer than every queued one.  Priority of the front order of the best
level follows from `LevelsInhabited`, `FifoByArrival` and `CancelMapExact`
together.  `TerminalIsFinal` needs `StatusSound`, which ties the status of every
order to where it is.  `QuantitiesReconcile` is carried by `SumInv`: the total of a
level is turned from a sum over the positions of its queue into a sum over the orders
the cancel map has at that place (`TotalsAgree`), and each operation changes one term
of it.

**Matching engine** (`MatchingEngineProofs`, second half): behind the engine's validation every
step is a step of the book (`EngineProtectsBook`), so that the book's invariants and
its refinement of the market hold of the engine (`EngineImplementsMarket`);
`ActiveIsResting`, `FeedIsCurrent`, `StatsReconcile`.  `EngineInv` adds to the book's
invariants that `_order_map` holds exactly the orders that have been through the book
(`OrderMapExact`) and that the published snapshot is current between calls.  The
counters are updated only after the match, so `StatsInv` says what each of them lags
behind by: the order in flight and its trades.  All steps of the engine fall into five
kinds (quiet, accept, match, acknowledge, cancel) as far as the counters go, and each
kind has a lemma.

**Rings** (`RingBufferProofs`): for every capacity, frames are delivered
whole, in order and once (`AlwaysInOrder`), the ring is never overfull, a peek shows
the next frame, the types hold, and the ring implements `BoundedFifo`
(`RingImplementsFifo`, the safety part of `ImplementsFifo`): the two counters' moves
are the enqueue and the dequeue, copying words is invisible.  The invariant `RingInv`
adds that the counters equal the lengths of the two histories, that every slot
between tail and head holds its whole frame, and that each side inside a call
owns the slot it touches (`SlotsDiffer`: counters less than a lap apart use
different slots).

For the byte ring, `FramesStayIntact` proves `FramesIntact` for every capacity and frame
size.  As long as no short frame was put, the storage is a sequence of `Capacity *
Stride` bytes, the frames pending are as many as the counters say, and each is a tag and
`FrameSize` bytes; then the slice assignment of `put_frame` replaces exactly the bytes of
its slot, and the slots of all pending frames are other ones.

**C++ backend** (`CppMatchingHALProofs`): `ListsStaySound`, `CacheStaysNative`,
`WireStaysExact` and `BooksAgree`, for any number of orders and prices and for integers
of any width.
- `ListsSound` is carried by `BookInv`: the types, `OrdersSound` (a node that the cancel map
  leads to has a request, still wants something and is not the taker; LIMIT orders have
  a price; nothing is overfilled; the taker has the newest stamp and no stamp
  exceeds `sequence`) and `ListInv`, which is `ListsSound` with,
  for each level, the chain from head to tail written as a fact about neighbours
  (`Chain`): every node but the head has a predecessor that leads back to it, every node
  but the tail a successor with a newer stamp.  Stamps make cycles impossible, so no walk
  along the links, hence no recursion, is needed.  Appending, unlinking the head and
  unlinking any node each have a lemma that says what becomes of the chain, the count and
  the sum; the total is followed modulo the width of its type, for which the only
  fact needed is that a remainder forgets multiples.
- `CacheIsNative` adds `CacheInv`: every cached order not marked stale has the status and
  the fills of its node, except the makers of a submit in flight (`JustTraded`), which may
  be behind by what has just been traded; and the counters Python holds are the native
  ones between calls unless "stats" is stale, and no count that only grows is ever ahead
  (`CountersCopied`).  `ProjectSubmission` reads the makers from the
  trades, so the proof has to show that these are all the orders a match changed.  That
  an order comes out of `NativeState` as it went in is a fact about the two codecs: the
  offsets Python adds up from the widths are the ones C++ writes down (`OrderLayout`).
- `WireExact` adds `WireInv`: the sequence number is at most the number of submits
  (`Numbered`), so it fits its four bytes; the trades of the taker are the last ones on the
  tape and their quantities add up to what it was filled (`TakerTrades`), so `total_filled`,
  a sum C++ makes modulo 2^32, is the fill; and what the caller was told stays true until
  the next call reaches the engine (`AnswerInv`).  The layouts of all five kinds of
  frame are derived from the format strings and shown to be the offsets C++ uses
  (`TradeLayout`, `HeaderLayout`, `SnapshotLayout`, `LevelLayout`); each enumeration has
  the same bytes in both languages (`BytesAgree`); and decoding gives back what was
  encoded (`ResultFrames`, `SnapshotFrames`, `DetailTells`).  The count of trades has two
  bytes, so for a result of 2^16 trades or more nothing is claimed: C++ truncates the count.
- `BooksAgree` is the safety part of `MatchesPythonBook`: every step of the backend is,
  through the mapping, a step of the Python book or leaves it alone.  Its one hypothesis,
  `UnpricedMarkets`, says that MARKET orders carry no price, because the two books treat
  a priced one differently (section 3).  The mapping walks the lists, and what the
  recursive function `Following` returns is an induction over data.  The proof goes round
  it: the orders of a level that are not older than a given one have exactly one list in
  order of arrival (`ListExists`, which adds one arrival after the other; `ListUnique`);
  the function that gives each order that list satisfies the equation of `Following`
  (`WalkExists`), so `Following` does too; and whatever satisfies the equation gives
  that list (`WalkIsList`: a least counterexample, counting stamps back from
  `sequence`).  Hence `PythonView`: each queue is
  the list of the orders the cancel map has at that place, and each total their sum; the
  state of the Python book is determined by the cancel map, the stamps and the remaining
  quantities.  So it suffices to say what an order that leaves, comes to rest or wants
  less does to these (`MapRemove`, `MapRest`, `MapLess`), without another look at a
  link, and each action has a lemma (`StepSubmits`, `StepFills`, `StepFinishes`,
  `StepCancels`).  `ParityInv` adds to `BookInv` that stamps differ, that only LIMIT orders
  rest and that no MARKET order has a price.

**Persistence writer** (`DatabaseWriterProofs`): `TypeOK`, `LossIsCounted`,
`RowsKeepUp`.  `RowsKeepUp` is not inductive, because a batch that is retried holds
rows as they were when it was read; the strengthening `Fresh` says where the newest
reported state of an order is: in the queue, in a batch all of whose rows of that order
are as recent, or in the database.

**Connections** (`ConnectionManagerProofs`): `SubscriptionsAgree` and
`LiveKeepsSubscriptions` for any number of clients, symbols and loops.  The
strengthening is that only sockets whose client has gone are ever in a loop's `dead`
set (`DeadHasGone`), whatever happened between the send that failed and the
disconnection, and that a socket not yet accepted is unknown to the manager.

**Strategy runtime** (`StrategyRuntimeProofs`): `TypeOK`, `StoppedHasNoQuotes`,
`QuotesReplaced`, `PositionExact`.
- `RuntimeInv`: what is on the bus and in `work` names only orders that exist, and
  `open` holds every active order of its owner, and nothing for a strategy that does
  not run (`OpenSound`).  That gives `StoppedHasNoQuotes`: dropped fills leave `open`
  too large, never too small.
- `QuoteInv`: submits come before the next callback (`SubmitsFirst`), a market maker has
  at most one quote per side (`OneQuotePerSide`) and none on a side it is about to
  quote (`SidesFree`), because a new set is proposed only after the old one was
  cancelled.
- `PositionExact` is inductive relative to `RuntimeInv`: the position, the fills on the
  bus and the fills in `work` are an account that each step leaves balanced.  A trade
  adds to the bus what it adds to `net`, for makers and taker, the same strategy
  on both sides included (`TradeEventsSum`); processing moves fills from the bus to
  `work`, and `OnFill` from there to the position.  Orders that are known keep their
  owner and side (`FillsKept`), so fills already on their way keep their meaning.

**Book stream** (`BookStreamProofs`): `DeltasNeverGoBack` is proved for any number of symbols
and connections and whatever the bus drops.  The invariant `ForwardInv` says that along
the stream the images of each symbol are in order: what was last projected is not newer
than any update still queued, the queued ones are in order of their sequence, and none is
newer than the book (`ImagesInOrder`); hence each delta, when it is projected and
afterwards in the loop and in the channel, leads forward (`DeltasForward`).  A drop only
takes images out of the middle.

`ClientConverges` is proved for a market of one symbol (`Symbol = {Mine}`); with several
it is false, because a snapshot of another symbol replaces the client's book
(run `wrong_symbol_shown`).  While nothing has been dropped, `StreamInv` places the whole
stream on one chain of images that ends in the engine's book: each queued update is the
next image after the one before it, each delta on its way leads from one image to the
next, and a snapshot, taken past the queue, is an image at or beyond its place.  The
hard case is a client whose snapshot is ahead of the deltas behind it.  Deltas with an
older sequence number are ignored, but cancels keep the number, so some are applied a
second time and take levels back; `ClientAt` says that then the levels no image in
between touches are right, and the deltas still to come put the others right.  The
session part (`Session`) is that a connection is subscribed before anything is sent on it.

**Shared lemmas.**  `SharedFacts` proves what the sums over finite sets of the module
`Functions` compute: empty, one element more or changed, disjoint unions, images,
pointwise sums, sums along a sequence, its tail and concatenations.  Induction over
finite sets is done without an operator parameter: the sets for which a fact holds are
collected in a set `Good` of subsets, and the existence of a least counterexample is
taken from the well-foundedness of the naturals (`SubsetInduction`).
It also says what a bounded queue of the bus keeps, drops and appends.

Only model-checked is liveness: `StopDrains`, `ClientCatchesUp`, `GoneIsForgotten`,
`BroadcastsEnd`, and the liveness parts of `ImplementsMarket`, `ProtectsBook`,
`ImplementsFifo` and `MatchesPythonBook`; temporal reasoning about fairness is beyond
the prover.

## 5. State of the project

Modelled and checked: both books and both engines, the wire formats between them, the
rings down to their bytes, the bus and its stateful consumers, the WebSocket connections.
Every invariant of the runs is also a theorem, and so is the safety part of each of
the four refinements.

## 6. Not modelled

- REST DTOs and the routes that only read or only call the engine, the trade tape,
  metrics and dashboard views: formatting and display.
- The pre-trade limits of `engine/risk/limits.py`: a stateless chain of comparisons
  that nothing in the application calls.
- The prices of the simulated feed: a random walk.  Its tickers are in `BookStream`.
- The FPGA backend (a scaffold that raises `NotImplementedError`), the abstract
  interfaces, settings and database setup.
