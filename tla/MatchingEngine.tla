--------------------------- MODULE MatchingEngine ---------------------------
(***************************************************************************)
(* MatchingEngine (engine/core/matching_engine.py): the front of one       *)
(* symbol's book.  submit_order validates and counts, drives OrderBook,    *)
(* remembers the order and emits one event; cancel_order looks the order   *)
(* up, cancels it in its book and emits one event.  Both are synchronous,  *)
(* so the only steps inside a call are those of the matching loop.         *)
(*                                                                         *)
(* The engine keeps one independent book per symbol.  This module follows  *)
(* the one registered under Listed; orders for any other symbol are        *)
(* rejected.  Latency samples are left out.                                *)
(***************************************************************************)
EXTENDS OrderBook, FiniteSets

CONSTANTS
    Symbols,      \* the symbols orders may name
    Listed,       \* the symbol of the book
    Submissions,  \* what clients submit, well formed or not
    Depth,        \* the levels per side a snapshot shows
    MaxReceived   \* bound: the calls of submit_order

ASSUME ListedAssumption == Listed \in Symbols
ASSUME DepthAssumption  == Depth \in Nat \ {0}
ASSUME MaxReceivedAssumption == MaxReceived \in Nat

\* A submission that is well formed is one of the requests the book may see.
ASSUME SubmissionsAssumption ==
    /\ Submissions \subseteq
         [side: Side, order_type: OrderType, price: Int \union {None},
          quantity: Int, time_in_force: TimeInForce]
    /\ \A r \in Submissions :
         (r.quantity > 0 /\ (r.order_type = "LIMIT" =>
                                IF r.price = None THEN FALSE ELSE r.price > 0))
            => r \in Requests

\* Why _validate refuses an order.
RejectReason ==
    {"SYMBOL_NOT_FOUND", "DUPLICATE_ORDER_ID", "INVALID_QUANTITY", "INVALID_PRICE"}

ASSUME ReasonAssumption == None \notin RejectReason

VARIABLES
    books,      \* the keys of _books: {} before register_symbol, then {Listed}
    order_map,  \* the keys of _order_map
    stats,      \* EngineStats
    feed        \* the snapshot of the last event that carried one, or None

engineVars == <<vars, books, order_map, stats, feed>>

-----------------------------------------------------------------------------
(* OrderBook.snapshot: the best Depth levels of each side.                 *)

TopLevels(s) ==
    {p \in levels[s] :
        Cardinality({q \in levels[s] : Better(s, q, p)}) < Depth}

Snapshot ==
    [sequence |-> sequence,
     depth |-> [s \in Side |->
        [p \in TopLevels(s) |-> <<total[s][p], Len(queue[s][p])>>]]]

-----------------------------------------------------------------------------
\* Mutant: registering again puts a new, empty book in the place of the old.
RegisterSymbolAnew ==
    /\ taker = None
    /\ books' = books \union {Listed}
    /\ levels' = [s \in Side |-> {}]
    /\ queue' = [s \in Side |-> [p \in Price |-> <<>>]]
    /\ cancel_map' = [o \in OrderId |-> None]
    /\ UNCHANGED <<req, filled, status, total, sequence, taker, trades, stamp,
                   order_map, stats, feed>>

\* register_symbol creates the book once; registering again keeps it.
RegisterSymbol ==
    /\ taker = None
    /\ books' = books \union {Listed}
    /\ UNCHANGED <<vars, order_map, stats, feed>>

\* The price check of _validate.
BadPrice(r) ==
    r.order_type = "LIMIT" /\ (IF r.price = None THEN TRUE ELSE r.price <= 0)

\* Mutant: an id that is already known is let through.
ValidateAnyId(o, symbol, r) ==
    IF symbol \notin books THEN "SYMBOL_NOT_FOUND"
    ELSE IF r.quantity <= 0 THEN "INVALID_QUANTITY"
    ELSE IF BadPrice(r) THEN "INVALID_PRICE" ELSE None

\* MatchingEngine._validate: the reason of the first check that fails, or None.
Validate(o, symbol, r) ==
    IF symbol \notin books THEN "SYMBOL_NOT_FOUND"
    ELSE IF o \in order_map THEN "DUPLICATE_ORDER_ID"
    ELSE IF r.quantity <= 0 THEN "INVALID_QUANTITY"
    ELSE IF BadPrice(r) THEN "INVALID_PRICE" ELSE None

Received == stats.orders_received < MaxReceived

\* submit_order of an order that fails validation.  The rejected Order object is
\* not remembered: its id may be used again.  The event carries no snapshot.
RejectOrder(o, symbol, r) ==
    /\ taker = None
    /\ Received
    /\ Validate(o, symbol, r) # None
    /\ stats' = [stats EXCEPT !.orders_received = @ + 1,
                              !.orders_rejected = @ + 1]
    /\ UNCHANGED <<vars, books, order_map, feed>>

\* submit_order of an order that passes it: entry of OrderBook.submit.
AcceptOrder(o, symbol, r) ==
    /\ Received
    /\ Validate(o, symbol, r) = None
    /\ Submit(o, r)
    /\ stats' = [stats EXCEPT !.orders_received = @ + 1]
    /\ UNCHANGED <<books, order_map, feed>>

MatchOrder == Fill /\ UNCHANGED <<books, order_map, stats, feed>>

\* Mutant: the trades in which the order was the maker.
TradesAsMaker(o) == {i \in 1..Len(trades) : trades[i].maker = o}

\* MatchResult.trades
TradesOf(o) == {i \in 1..Len(trades) : trades[i].taker = o}

\* MatchResult.is_new_resting
NewResting(o) == cancel_map'[o] # None

\* Mutant: the snapshot is taken before the book changes.
PublishBefore == feed' = Snapshot

\* The event of an operation carries the snapshot of the book it leaves behind.
Publish == feed' = Snapshot'

\* OrderBook.submit has returned: the order enters _order_map, the counters
\* move and the event is emitted with a snapshot of the book as it now is.
AckOrder ==
    /\ Finish
    /\ order_map' = order_map \union {taker}
    /\ stats' = [stats EXCEPT
         !.orders_resting  = @ + (IF NewResting(taker) THEN 1 ELSE 0),
         !.orders_matched  = @ + (IF TradesOf(taker) # {} THEN 1 ELSE 0),
         !.trades_executed = @ + Cardinality(TradesOf(taker)),
         !.total_volume    = @ + SumFunctionOnSet(TradeSizes, TradesOf(taker))]
    /\ Publish
    /\ UNCHANGED books

\* orders_resting after a cancel
Uncounted(n) == IF n > 0 THEN n - 1 ELSE 0

\* cancel_order
CancelOrder(o) ==
    \/ /\ taker = None
       /\ o \notin order_map
       /\ UNCHANGED engineVars
    \/ /\ o \in order_map
       /\ CancelUnknown(o)
       /\ UNCHANGED <<books, order_map, stats, feed>>
    \/ /\ o \in order_map
       /\ CancelResting(o)
       /\ stats' = [stats EXCEPT !.orders_cancelled = @ + 1,
                                 !.orders_resting = Uncounted(@)]
       /\ Publish
       /\ UNCHANGED <<books, order_map>>

-----------------------------------------------------------------------------
\* A new EngineStats.
EngineStats ==
    [orders_received |-> 0, orders_matched |-> 0, orders_resting |-> 0,
     orders_cancelled |-> 0, orders_rejected |-> 0, trades_executed |-> 0,
     total_volume |-> 0]

EngineInit ==
    /\ Init
    /\ books = {}
    /\ order_map = {}
    /\ stats = EngineStats
    /\ feed = None

EngineNext ==
    \/ RegisterSymbol
    \/ \E o \in OrderId, symbol \in Symbols, r \in Submissions :
          RejectOrder(o, symbol, r) \/ AcceptOrder(o, symbol, r)
    \/ MatchOrder
    \/ AckOrder
    \/ \E o \in OrderId : CancelOrder(o)

\* A call of submit_order runs to its end.
EngineFairness == WF_engineVars(MatchOrder \/ AckOrder)

EngineSpec == EngineInit /\ [][EngineNext]_engineVars /\ EngineFairness

-----------------------------------------------------------------------------
(* Properties.                                                             *)

\* Validation protects the book: whatever clients submit, retry or cancel, the
\* book only ever sees new ids and well-formed requests, and every call of it
\* comes to an end.
ProtectsBook == Spec

\* Between calls, an order the engine reports as active (OPEN or
\* PARTIALLY_FILLED) and that is a limit order is in the book, and the book
\* holds nothing the engine does not know: no cancel of a live order can miss.
ActiveIsResting ==
    taker = None =>
        Resting = {o \in order_map :
                      /\ status[o] \in {"OPEN", "PARTIALLY_FILLED"}
                      /\ req[o].order_type = "LIMIT"}

\* Between calls, the last snapshot handed to the event callback shows the book
\* as it is: every operation that changes the visible book emits it afterwards.
FeedIsCurrent == (taker = None /\ feed # None) => feed = Snapshot

\* Between calls the counters add up: every order received was rejected or is
\* remembered, the trade counters agree with the trades, and orders_resting never
\* undercounts the book, so that the max(0, ...) in cancel_order hides nothing.  (It
\* overcounts: a resting order that is filled by a later one is not subtracted.)
StatsReconcile ==
    taker = None =>
        /\ stats.orders_received = stats.orders_rejected + Cardinality(order_map)
        /\ stats.trades_executed = Len(trades)
        /\ stats.total_volume = SumFunctionOnSet(TradeSizes, 1..Len(trades))
        /\ stats.orders_matched = Cardinality({trades[i].taker : i \in 1..Len(trades)})
        /\ stats.orders_resting >= Cardinality(Resting)
=============================================================================
