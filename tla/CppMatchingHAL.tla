--------------------------- MODULE CppMatchingHAL ---------------------------
(***************************************************************************)
(* The C++ backend behind its Python interface: MatchingEngineFacade       *)
(* (matching_engine.cpp) drives the native book, the bindings              *)
(* (bindings.cpp) carry frames across the language boundary, and           *)
(* CppMatchingHAL (cpp_hal.py) projects native state into the Order        *)
(* objects, counters and events the rest of the service reads.             *)
(*                                                                         *)
(* Calls come on two paths: with Order objects, or with bytes, in which    *)
(* case Python keeps and reports nothing.  As in MatchingEngine, one       *)
(* symbol is listed and clients build a new Order for every attempt.       *)
(* Identifiers are UUIDs and frames have their full length.                *)
(***************************************************************************)
EXTENDS CppOrderBook

CONSTANTS
    Symbols,      \* the symbols orders may name
    Listed,       \* the symbol of the book, 1 to 6 ASCII bytes
    Submissions,  \* path -> the orders clients submit on it, well formed or not
    Depth,        \* the levels per side a snapshot shows
    MaxReceived   \* bound: the calls of submit that reach the native engine

\* No other symbol is cut down to the listed one.
ASSUME ListedAssumption ==
    /\ Listed \in Symbols
    /\ \A s \in Symbols : SixBytes[s] = SixBytes[Listed] => s = Listed

\* The orders clients may try; a uint32_t holds the quantity of some.
Submission ==
    [order_id: OrderId, symbol: Symbols, side: Side, order_type: {"LIMIT", "MARKET"},
     price: Price \union {0, None}, quantity: Int,
     time_in_force: {"GTC", "IOC", "FOK", "GTD"}]

Path == {"object", "bytes"}

ASSUME SubmissionsAssumption == \A path \in Path : Submissions[path] \subseteq Submission

\* RejectCode, but for NONE
Reason == {"SYMBOL_NOT_FOUND", "DUPLICATE_ORDER_ID", "INVALID_QUANTITY", "INVALID_PRICE"}

ASSUME ReasonAssumption == None \notin Reason

\* The levels of a snapshot are counted in two bytes, the submits in four.
ASSUME DepthAssumption == Depth \in 0 .. Span[2] - 1
ASSUME MaxReceivedAssumption == MaxReceived \in 0 .. Span[4] - 1

\* What stale holds besides the identifiers of orders.
ASSUME OrderIdAssumption == OrderId \intersect {"feed", "stats"} = {}

VARIABLES
    books,      \* the keys of books_
    stats,      \* NativeStats
    cache,      \* order id -> status and filled of the Order in _orders, or None
    hal_stats,  \* CppMatchingHAL._stats
    feed,       \* the snapshot of the last event that carried one, or None
    via,        \* the path of the submit in progress, or None
    answer,     \* what the last submit gave its caller; None once more calls
                \* have gone to the native engine
    stale       \* history: what calls on the bytes path have changed since
                \* Python last read it: order ids, "feed" and "stats"

halVars == <<vars, books, stats, cache, hal_stats, feed, via, answer, stale>>

Counters == {"orders_received", "orders_matched", "orders_resting",
             "orders_cancelled", "orders_rejected", "trades_executed",
             "total_volume"}

-----------------------------------------------------------------------------
(* Projections of native state.                                            *)

\* The native Order of id o, and what Python reads of its frame.
Node(o) ==
    [order_id |-> o, symbol |-> SixBytes[Listed], filled_quantity |-> filled[o],
     status |-> status[o], side |-> req[o].side, order_type |-> req[o].order_type,
     price |-> req[o].price, quantity |-> req[o].quantity,
     time_in_force |-> req[o].time_in_force]

\* _copy_native_state(Order.from_bytes(...))
NativeState(o) ==
    LET order == DecodeOrder(CppEncodeOrder(Node(o)))
    IN  [status |-> order.status, filled |-> order.filled_quantity]

\* get_snapshot: the frame of the native snapshot, decoded.
GetSnapshot == DecodeSnapshot(CppEncodeSnapshot(Snapshot(SixBytes[Listed], Depth)))

\* _emit, with the snapshot of the book the operation leaves behind.
Emit == feed' = GetSnapshot'

\* _copy_native_counters
CopyNativeCounters == hal_stats' = stats'

\* _orders of the ids in read is brought up to date; a cached order only.
Refresh(read) ==
    cache' = [o \in OrderId |->
                 IF o \in read /\ cache[o] # None THEN NativeState(o)' ELSE cache[o]]

-----------------------------------------------------------------------------
\* register_symbol keeps the book of a symbol it already knows.
RegisterSymbol ==
    /\ taker = None
    /\ books' = books \union {SixBytes[Listed]}
    /\ UNCHANGED <<vars, stats, cache, hal_stats, feed, via, answer, stale>>

\* A new Order object, and the native order that its frame makes.
NewOrder(order) ==
    [f \in DOMAIN order \union {"filled_quantity", "status"} |->
        CASE f = "filled_quantity" -> 0
          [] f = "status" -> "PENDING"
          [] OTHER -> order[f]]

NativeOrder(order) == CppDecodeOrder(EncodeOrder(NewOrder(order)))

\* The fields of a native order that the book never changes.
Fixed(n) ==
    [f \in {"side", "order_type", "price", "quantity", "time_in_force"} |-> n[f]]

\* The checks of MatchingEngineFacade::submit, in their order.
Rejection(n) ==
    IF n.symbol \notin books THEN "SYMBOL_NOT_FOUND"
    ELSE IF req[n.order_id] # None THEN "DUPLICATE_ORDER_ID"
    ELSE IF n.quantity = 0 THEN "INVALID_QUANTITY"
    ELSE IF n.order_type = "LIMIT" /\ n.price <= 0 THEN "INVALID_PRICE" ELSE None

\* A quantity that is no uint32_t: struct.error, before the native call.
SubmitRaises(order) ==
    /\ taker = None
    /\ ~Encodable(NewOrder(order))
    /\ UNCHANGED halVars

Reaches(order) ==
    /\ taker = None
    /\ Encodable(NewOrder(order))
    /\ stats.orders_received < MaxReceived

\* A rejected order is not remembered, and its event has no snapshot.  (What
\* the caller is told, REJECTED, is not followed.)
RejectOrder(order, path) ==
    /\ Reaches(order)
    /\ Rejection(NativeOrder(order)) # None
    /\ stats' = [stats EXCEPT !.orders_received = @ + 1, !.orders_rejected = @ + 1]
    /\ IF path = "object"
       THEN CopyNativeCounters /\ stale' = stale \ {"stats"}
       ELSE stale' = stale \union {"stats"} /\ UNCHANGED hal_stats
    /\ answer' = None
    /\ UNCHANGED <<vars, books, cache, feed, via>>

AcceptOrder(order, path) ==
    LET n == NativeOrder(order)
    IN  /\ Reaches(order)
        /\ Rejection(n) = None
        /\ Submit(n.order_id, Fixed(n))
        /\ stats' = [stats EXCEPT !.orders_received = @ + 1]
        /\ via' = path
        /\ answer' = None
        /\ UNCHANGED <<books, cache, hal_stats, feed, stale>>

MatchStep ==
    Fill /\ UNCHANGED <<books, stats, cache, hal_stats, feed, via, answer, stale>>

\* MatchResult.trades of order o, the last one submitted: the last trades, with
\* the side that submit gives them.
TradesOf(o) ==
    LET n == Cardinality({i \in DOMAIN trades : trades[i].taker = o})
        mine == SubSeq(trades, Len(trades) - n + 1, Len(trades))
    IN  [i \in 1..n |->
            [maker |-> mine[i].maker, taker |-> mine[i].taker, price |-> mine[i].price,
             quantity |-> mine[i].quantity, aggressor_side |-> req[o].side]]

\* A uint32_t that the quantities are added to.
TotalFilled(ts) == Low(4, SumFunction([i \in DOMAIN ts |-> ts[i].quantity]))

\* The native MatchResult of the submit of o that is returning.
Result(o) ==
    [trades |-> TradesOf(o), total_filled |-> TotalFilled(TradesOf(o)),
     status |-> status'[o], resting |-> cancel_map'[o] # None]

Makers(o) == {t.maker : t \in {u \in ToSet(trades) : u.taker = o}}

\* The tuple submit_order_detail makes of a trade; the aggressor is a number there.
TradeTuple(t) ==
    <<t.price, t.quantity, IF t.aggressor_side = "BUY" THEN 0 ELSE 1, t.maker, t.taker>>

\* _trade_from_tuple
TradeFromTuple(values) ==
    [price |-> values[1], quantity |-> values[2],
     aggressor_side |-> IF values[3] = 0 THEN "BUY" ELSE "SELL",
     maker |-> values[4], taker |-> values[5]]

\* What submit_order gives its caller of a native result.
Detail(result) ==
    [result EXCEPT !.trades = [i \in DOMAIN @ |-> TradeFromTuple(TradeTuple(@[i]))]]

\* Mutant: only the submitted order is brought up to date.
ProjectTakerOnly ==
    /\ cache' = [o \in OrderId |-> IF o = taker THEN NativeState(o)' ELSE cache[o]]
    /\ CopyNativeCounters
    /\ Emit
    /\ answer' = [order |-> taker, result |-> Detail(Result(taker))]
    /\ stale' = stale \ ({taker, "feed", "stats"} \union Makers(taker))

\* The rest of CppMatchingHAL.submit_order: the counters, the new order and the
\* makers it met are projected, then the event goes out.
ProjectSubmission ==
    /\ cache' = [o \in OrderId |->
          IF o = taker \/ (o \in Makers(taker) /\ cache[o] # None)
          THEN NativeState(o)' ELSE cache[o]]
    /\ CopyNativeCounters
    /\ Emit
    /\ answer' = [order |-> taker, result |-> Detail(Result(taker))]
    /\ stale' = stale \ ({taker, "feed", "stats"} \union Makers(taker))

\* submit_order_bytes: the caller gets an encoded result, Python sees nothing.
ReplyBytes ==
    /\ answer' = [order |-> taker,
                  result |-> DecodeResult(CppEncodeResult(Result(taker)))]
    /\ stale' = stale \union {"feed", "stats"} \union Makers(taker)
    /\ UNCHANGED <<cache, hal_stats, feed>>

\* OrderBook::submit has returned to MatchingEngineFacade::submit.
SubmitReturns ==
    /\ Finish
    /\ LET r == Result(taker)
       IN stats' = [stats EXCEPT
            !.orders_resting  = @ + (IF r.resting THEN 1 ELSE 0),
            !.orders_matched  = @ + (IF r.trades # <<>> THEN 1 ELSE 0),
            !.trades_executed = @ + Len(r.trades),
            !.total_volume    = @ + r.total_filled]
    /\ IF via = "object" THEN ProjectSubmission ELSE ReplyBytes
    /\ via' = None
    /\ UNCHANGED books

\* cancel_order and cancel_order_bytes of an order the book does not hold.
CancelMisses(o) == CancelUnknown(o) /\ UNCHANGED halVars

\* MatchingEngineFacade::cancel of an order the book holds.
NativeCancel(o) ==
    /\ CancelResting(o)
    /\ stats' = [stats EXCEPT
         !.orders_cancelled = @ + 1,
         !.orders_resting   = IF @ > 0 THEN @ - 1 ELSE @]
    /\ answer' = None
    /\ UNCHANGED <<books, via>>

CancelOrder(o) ==
    /\ NativeCancel(o)
    /\ Refresh({o})
    /\ CopyNativeCounters
    /\ Emit
    /\ stale' = stale \ {o, "feed", "stats"}

CancelOrderBytes(o) ==
    /\ NativeCancel(o)
    /\ stale' = stale \union {o, "feed", "stats"}
    /\ UNCHANGED <<cache, hal_stats, feed>>

\* get_order reads the native order again.
GetOrder(o) ==
    /\ taker = None
    /\ UNCHANGED <<vars, books, stats, hal_stats, feed, via, answer>>
    /\ Refresh({o})
    /\ stale' = stale \ {o}

-----------------------------------------------------------------------------
HALInit ==
    /\ BookInit
    /\ books = {}
    /\ stats = [k \in Counters |-> 0]
    /\ cache = [o \in OrderId |-> None]
    /\ hal_stats = stats
    /\ feed = None
    /\ via = None
    /\ answer = None
    /\ stale = {}

HALNext ==
    \/ RegisterSymbol
    \/ \E path \in Path : \E order \in Submissions[path] :
          \/ SubmitRaises(order)
          \/ RejectOrder(order, path)
          \/ AcceptOrder(order, path)
    \/ MatchStep
    \/ SubmitReturns
    \/ \E o \in OrderId :
          CancelMisses(o) \/ CancelOrder(o) \/ CancelOrderBytes(o) \/ GetOrder(o)

\* A native submit is synchronous: it runs to its end.
HALFairness == WF_halVars(MatchStep \/ SubmitReturns)

HALSpec == HALInit /\ [][HALNext]_halVars /\ HALFairness

-----------------------------------------------------------------------------
(* Properties.                                                             *)

\* Between calls, what Python reports of native state is that state: each cached
\* order has the status and the fills of its node, makers included, and the
\* counters are the native ones.  What calls on the bytes path have changed since
\* is only ever behind: no fill, and no count, that the engine has not made.
CacheIsNative ==
    taker = None =>
        /\ \A o \in OrderId : cache[o] # None =>
             IF o \notin stale
             THEN cache[o] = [status |-> status[o], filled |-> filled[o]]
             ELSE cache[o].filled <= filled[o]
        /\ "stats" \notin stale => hal_stats = stats
        /\ \A k \in Counters \ {"orders_resting"} : hal_stats[k] <= stats[k]

\* What the engine knows of the submit of o that has returned.
Native(o) ==
    [trades |-> TradesOf(o), total_filled |-> filled[o], status |-> status[o],
     resting |-> cancel_map[o] # None]

OrdersOnWire ==
    \A o \in OrderId : req[o] # None =>
        CppEncodeOrder(Node(o)) =
            EncodeOrder([Node(o) EXCEPT !.symbol = Listed,
                                        !.price = IF @ = 0 THEN None ELSE @])

SnapshotOnWire ==
    CppEncodeSnapshot(Snapshot(SixBytes[Listed], Depth)) =
        EncodeSnapshot(Snapshot(Listed, Depth))

\* What the caller was told of a result, field by field; a frame leaves out takers.
Tells(told, result) ==
    /\ \A f \in {"total_filled", "status", "resting"} : told[f] = result[f]
    /\ Len(told.trades) = Len(result.trades)
    /\ \A i \in DOMAIN told.trades :
         \A f \in {"price", "quantity", "aggressor_side", "maker"} :
            told.trades[i][f] = result.trades[i][f]

AnswerExact ==
    (answer # None /\ Len(TradesOf(answer.order)) < Span[2]) =>
        /\ CppEncodeResult(Native(answer.order)) = EncodeResult(Native(answer.order))
        /\ Tells(answer.result, Native(answer.order))

FeedExact ==
    (taker = None /\ feed # None /\ "feed" \notin stale) =>
        feed = Snapshot(SixBytes[Listed], Depth)

\* The two languages agree on the wire.  Each native order, snapshot and result is
\* encoded by C++ to the frame the Python codec would make of it; the caller of
\* submit learns the trades, the fill and the fate of its order as they are, unless
\* they are more trades than two bytes can count; and the last event shows the book
\* as it is, but for calls on the bytes path since.
WireExact == OrdersOnWire /\ SnapshotOnWire /\ AnswerExact /\ FeedExact

-----------------------------------------------------------------------------
(* The native book implements the Python one.                              *)

\* What the Python book would be asked for: the fixed fields of every order that
\* can reach the native engine with a quantity.
PythonRequests ==
    LET reaching == {order \in Submissions["object"] \union Submissions["bytes"] :
                        Encodable(NewOrder(order)) /\ order.quantity # 0}
    IN  {PythonRequest(Fixed(NativeOrder(order))) : order \in reaching}

Python == INSTANCE OrderBook WITH
    Quantity <- 1 .. Span[4] - 1, Requests <- PythonRequests,
    req <- PythonReq, levels <- PythonLevels, queue <- PythonQueue, total <- PythonTotal

\* "Semantic parity" (README.md): whatever is submitted and cancelled, the C++
\* book does what the Python book does, fill by fill: the same trades, statuses,
\* queues and cancel map, and every submit comes to its end.  That holds even
\* when a level total has wrapped around, because matching never looks at it;
\* and for MARKET orders as long as they carry no price.
MatchesPythonBook == Python!Spec
=============================================================================
