----------------------------- MODULE OrderBook -----------------------------
(***************************************************************************)
(* One symbol's limit order book (engine/core/order_book.py).              *)
(*                                                                         *)
(* OrderBook.submit is a loop, and the loop is where the book can go       *)
(* wrong, so a submission is modelled iteration by iteration: Submit       *)
(* admits the incoming order (the "taker"), each Fill is one pass of the   *)
(* inner matching loop against the order at the front of the best          *)
(* opposite level, and one of the Finish actions applies the status        *)
(* update and the time-in-force policy.  The engine is single threaded and *)
(* submit never yields, so while a taker is in flight no other operation   *)
(* of the book is enabled.                                                 *)
(*                                                                         *)
(* Prices are integer ticks, quantities are integers.  Time stamps and the *)
(* average fill price of a taker are left out.                             *)
(***************************************************************************)
EXTENDS Integers, Sequences, SequencesExt

CONSTANTS
    OrderId,    \* the identifiers clients put on their orders
    Price,      \* the prices an order may carry
    Quantity,   \* the quantities an order may ask for
    Requests,   \* what clients may ask for, a set of order requests
    None        \* Python's None

ASSUME PriceAssumption    == Price \subseteq Int
ASSUME QuantityAssumption == Quantity \subseteq Nat \ {0}

Side        == {"BUY", "SELL"}
OrderType   == {"LIMIT", "MARKET"}
TimeInForce == {"GTC", "IOC", "FOK", "GTD"}
OrderStatus == {"PENDING", "OPEN", "PARTIALLY_FILLED", "FILLED", "CANCELLED"}

\* What the client fixes when it creates an order.  A MARKET order usually has
\* price None, but nothing between the API and the book strips a price from it.
Request ==
    [side: Side, order_type: OrderType, price: Price \union {None},
     quantity: Quantity, time_in_force: TimeInForce]

ASSUME RequestsAssumption == Requests \subseteq Request
ASSUME NoneAssumption ==
    None \notin OrderId \union Price \union Request \union (Side \X Price)

\* The requests MatchingEngine._validate lets through to the book.
ValidRequest == {r \in Requests : r.order_type = "LIMIT" => r.price # None}

VARIABLES
    req,         \* order id -> the request it was submitted with, or None
    filled,      \* order id -> Order.filled_quantity
    status,      \* order id -> Order.status
    levels,      \* side -> the prices that are keys of _bids / _asks
    queue,       \* side -> price -> PriceLevel.orders, oldest first
    total,       \* side -> price -> PriceLevel.total_quantity
    cancel_map,  \* order id -> <<side, price>> in _cancel_map, or None
    sequence,    \* OrderBook.sequence
    taker,       \* the order being matched by submit, or None between calls
    trades,      \* every Trade the book has reported, in order
    stamp        \* history: order id -> the sequence number of its submit

vars == <<req, filled, status, levels, queue, total, cancel_map, sequence,
          taker, trades, stamp>>

-----------------------------------------------------------------------------
(* Helpers.                                                                *)

Opposite(s) == IF s = "BUY" THEN "SELL" ELSE "BUY"

\* Order.remaining_quantity
Remaining(o) == req[o].quantity - filled[o]

\* Price p has strict priority over price q on side s: the sort order of the
\* two SortedDicts, highest bid first and lowest ask first.
Better(s, p, q) == IF s = "BUY" THEN p > q ELSE p < q

\* Mutant: the loop takes some level, not the best one.
IsBestAny(s, p) == p \in levels[s]

\* p is the key peekitem(0) returns for side s.
IsBest(s, p) == p \in levels[s] /\ \A q \in levels[s] : q = p \/ Better(s, p, q)

\* Mutant: equal prices do not trade.
CrossesStrict(side, price, level) ==
    IF price = None THEN TRUE
    ELSE IF side = "BUY" THEN price > level ELSE price < level

\* OrderBook._crosses: decided by the price alone, never by the order type.
Crosses(side, price, level) ==
    IF price = None THEN TRUE
    ELSE IF side = "BUY" THEN price >= level ELSE price <= level

\* fill_qty, from what the taker and the maker still want.
Least(a, b) == IF a <= b THEN a ELSE b

\* Mutant: trades print at the taker's price.
TradePriceOfTaker(resting) == req[taker].price

\* trade_price: the maker's price determines it.
TradePrice(resting) == req[resting].price

\* What level s, p holds; a level that is not in the book is created empty.
LevelOrders(s, p) == IF p \in levels[s] THEN queue[s][p] ELSE <<>>
LevelTotal(s, p)  == IF p \in levels[s] THEN total[s][p] ELSE 0

\* Mutant: a new order goes to the front of its level.
EnqueueFront(s, p, o) == <<o>> \o LevelOrders(s, p)

\* PriceLevel.add: behind the orders already at the price.
Enqueue(s, p, o) == Append(LevelOrders(s, p), o)

\* Mutant: the original quantity is taken off the level total.
TotalLessQuantity(s, p, o) == total[s][p] - req[o].quantity

\* PriceLevel.remove: what the order still wanted leaves the level total.
TotalWithout(s, p, o) == total[s][p] - Remaining(o)

\* Mutant: the level stays in the book when its last order has left.
LevelsKept(s, p) == levels

\* The keys after an order has left level s, p: the level goes with its last one.
LevelsAfterRemoval(s, p) ==
    IF Len(queue[s][p]) = 1 THEN [levels EXCEPT ![s] = @ \ {p}] ELSE levels

\* Mutant: the cancel map keeps the order.
ForgetNothing(o) == cancel_map

\* _cancel_map.pop(order_id)
Forget(o) == [cancel_map EXCEPT ![o] = None]

-----------------------------------------------------------------------------
(* OrderBook.submit                                                        *)

\* Entry of submit: the book's sequence number advances before any matching.
Submit(o, r) ==
    /\ taker = None
    /\ req' = [req EXCEPT ![o] = r]
    /\ filled' = [filled EXCEPT ![o] = 0]
    /\ status' = [status EXCEPT ![o] = "PENDING"]
    /\ sequence' = sequence + 1
    /\ stamp' = [stamp EXCEPT ![o] = sequence + 1]
    /\ taker' = o
    /\ UNCHANGED <<levels, queue, total, cancel_map, trades>>

\* One iteration of the inner loop against resting, the order at the front of
\* the opposite level best: both fill counters and the level total move, the
\* trade prints at the maker's price, a completed maker leaves the queue and
\* the cancel map, and a level that runs dry leaves the book.
FillAt(best, resting) ==
    LET opp  == Opposite(req[taker].side)
        qty  == Least(Remaining(taker), Remaining(resting))
        done == Remaining(resting) = qty
    IN  /\ filled' = [filled EXCEPT ![taker] = @ + qty, ![resting] = @ + qty]
        /\ total' = [total EXCEPT ![opp][best] = @ - qty]
        /\ trades' = Append(trades,
               [maker |-> resting, taker |-> taker,
                price |-> TradePrice(resting), quantity |-> qty])
        /\ status' = [status EXCEPT ![resting] =
                          IF done THEN "FILLED" ELSE "PARTIALLY_FILLED"]
        /\ queue' = IF done THEN [queue EXCEPT ![opp][best] = Tail(@)] ELSE queue
        /\ cancel_map' = IF done THEN Forget(resting) ELSE cancel_map
        /\ levels' = IF done THEN LevelsAfterRemoval(opp, best) ELSE levels
        /\ UNCHANGED <<req, sequence, taker, stamp>>

Fill ==
    /\ taker # None
    /\ Remaining(taker) > 0
    /\ \E best \in Price :
          /\ IsBest(Opposite(req[taker].side), best)
          /\ Crosses(req[taker].side, req[taker].price, best)
          /\ queue[Opposite(req[taker].side)][best] # <<>>
          /\ FillAt(best, Head(queue[Opposite(req[taker].side)][best]))

\* Mutant: the loop gives up after the first fill.
LoopDoneEarly ==
    /\ taker # None
    /\ \/ filled[taker] > 0
       \/ \A best \in levels[Opposite(req[taker].side)] :
             ~Crosses(req[taker].side, req[taker].price, best)

\* The matching loop has nothing left to do for the taker.
LoopDone ==
    /\ taker # None
    /\ \/ Remaining(taker) = 0
       \/ levels[Opposite(req[taker].side)] = {}
       \/ \E best \in Price :
             /\ IsBest(Opposite(req[taker].side), best)
             /\ ~Crosses(req[taker].side, req[taker].price, best)

\* submit returns: the taker gets its final status and nothing rests.
Return(st) ==
    /\ status' = [status EXCEPT ![taker] = st]
    /\ taker' = None
    /\ UNCHANGED <<req, filled, levels, queue, total, cancel_map, sequence,
                   trades, stamp>>

FinishFilled == LoopDone /\ Remaining(taker) = 0 /\ Return("FILLED")

\* A MARKET residual has no time-in-force policy: the order keeps the status
\* the fills gave it, PENDING when there were none.
FinishMarket ==
    /\ LoopDone
    /\ Remaining(taker) > 0
    /\ req[taker].order_type = "MARKET"
    /\ Return(IF filled[taker] > 0 THEN "PARTIALLY_FILLED" ELSE status[taker])

\* IOC and FOK: the residual is cancelled, fills already made are kept.
FinishKill ==
    /\ LoopDone
    /\ Remaining(taker) > 0
    /\ req[taker].order_type = "LIMIT"
    /\ req[taker].time_in_force \in {"IOC", "FOK"}
    /\ Return("CANCELLED")

\* Mutant: a residual that has traded rests as OPEN.
RestingStatusOpen(o) == "OPEN"

\* The status _rest_order leaves the residual with.
RestingStatus(o) == IF filled[o] = 0 THEN "OPEN" ELSE "PARTIALLY_FILLED"

\* OrderBook._rest_order and PriceLevel.add
RestOrder(o, s, p) ==
    /\ levels' = [levels EXCEPT ![s] = @ \union {p}]
    /\ queue' = [queue EXCEPT ![s][p] = Enqueue(s, p, o)]
    /\ total' = [total EXCEPT ![s][p] = LevelTotal(s, p) + Remaining(o)]
    /\ cancel_map' = [cancel_map EXCEPT ![o] = <<s, p>>]
    /\ status' = [status EXCEPT ![o] = RestingStatus(o)]

\* GTC and GTD: the residual rests.  The book has no notion of expiry.
FinishRest ==
    /\ LoopDone
    /\ Remaining(taker) > 0
    /\ req[taker].order_type = "LIMIT"
    /\ req[taker].time_in_force \in {"GTC", "GTD"}
    /\ RestOrder(taker, req[taker].side, req[taker].price)
    /\ taker' = None
    /\ UNCHANGED <<req, filled, sequence, trades, stamp>>

Finish == FinishFilled \/ FinishMarket \/ FinishKill \/ FinishRest

-----------------------------------------------------------------------------
(* OrderBook.cancel.  The sequence number does not move.                   *)

\* PriceLevel.remove at index i, then the level is dropped when it is empty.
RemoveResting(o, s, p, i) ==
    /\ queue' = [queue EXCEPT ![s][p] = RemoveAt(@, i)]
    /\ total' = [total EXCEPT ![s][p] = TotalWithout(s, p, o)]
    /\ levels' = LevelsAfterRemoval(s, p)
    /\ status' = [status EXCEPT ![o] = "CANCELLED"]

\* The entry leaves the cancel map first; cancel then tolerates a map entry
\* that points at no order (CancelMapExact says that never happens).
CancelResting(o) ==
    /\ taker = None
    /\ cancel_map[o] # None
    /\ cancel_map' = Forget(o)
    /\ LET s == cancel_map[o][1]
           p == cancel_map[o][2]
       IN  IF p \in levels[s] /\ Contains(queue[s][p], o)
           THEN \E i \in 1..Len(queue[s][p]) :
                   queue[s][p][i] = o /\ RemoveResting(o, s, p, i)
           ELSE UNCHANGED <<queue, total, levels, status>>
    /\ UNCHANGED <<req, filled, sequence, taker, trades, stamp>>

\* cancel returns None for an id that is not resting, and changes nothing.
CancelUnknown(o) == taker = None /\ cancel_map[o] = None /\ UNCHANGED vars

Cancel(o) == CancelResting(o) \/ CancelUnknown(o)

-----------------------------------------------------------------------------
Init ==
    /\ req        = [o \in OrderId |-> None]
    /\ filled     = [o \in OrderId |-> 0]
    /\ status     = [o \in OrderId |-> "PENDING"]
    /\ levels     = [s \in Side |-> {}]
    /\ queue      = [s \in Side |-> [p \in Price |-> <<>>]]
    /\ total      = [s \in Side |-> [p \in Price |-> 0]]
    /\ cancel_map = [o \in OrderId |-> None]
    /\ sequence   = 0
    /\ taker      = None
    /\ trades     = <<>>
    /\ stamp      = [o \in OrderId |-> 0]

\* Mutant: an id may be submitted again.
SubmitAny(o) == \E r \in ValidRequest : Submit(o, r)

\* What the engine guarantees its book: an id is submitted once, with a request
\* that passed validation.
SubmitNew(o) == req[o] = None /\ \E r \in ValidRequest : Submit(o, r)

Next ==
    \/ \E o \in OrderId : SubmitNew(o) \/ Cancel(o)
    \/ Fill
    \/ Finish

\* submit is a plain synchronous call: once entered it runs to its end.
Fairness == WF_vars(Fill \/ Finish)

\* What submit and cancel may do, without the promise that submit ends.
Safety == Init /\ [][Next]_vars

Spec == Safety /\ Fairness

-----------------------------------------------------------------------------
(* Properties.                                                             *)

Resting == {o \in OrderId : cancel_map[o] # None}

Trade == [maker: OrderId, taker: OrderId, price: Price, quantity: Nat \ {0}]

\* The type invariant.
TypeOK ==
    /\ req        \in [OrderId -> Request \union {None}]
    /\ filled     \in [OrderId -> Nat]
    /\ status     \in [OrderId -> OrderStatus]
    /\ levels     \in [Side -> SUBSET Price]
    /\ queue      \in [Side -> [Price -> Seq(OrderId)]]
    /\ total      \in [Side -> [Price -> Int]]
    /\ cancel_map \in [OrderId -> (Side \X Price) \union {None}]
    /\ sequence   \in Nat
    /\ taker      \in OrderId \union {None}
    /\ trades     \in Seq(Trade)
    /\ stamp      \in [OrderId -> Nat]

\* The book is never crossed or locked: after any number of submits and
\* cancels, and at every iteration of the matching loop, each bid level is
\* strictly below each ask level.
BookNotCrossed == \A b \in levels["BUY"], a \in levels["SELL"] : b < a

\* _bids and _asks never keep a price level without orders (submit would then
\* look at an empty best level) and never lose one that has orders.
LevelsInhabited ==
    \A s \in Side, p \in Price : p \in levels[s] <=> queue[s][p] # <<>>

\* _cancel_map and the level queues always agree: an id is in the map exactly
\* when it waits in a queue, and the map names that queue.  A filled maker, an
\* interrupted match or a cancel never leaves one without the other.
CancelMapExact ==
    \A o \in OrderId, s \in Side, p \in Price :
        cancel_map[o] = <<s, p>> <=> \E i \in 1..Len(queue[s][p]) : queue[s][p][i] = o

\* Every queue is in order of arrival, with no order in it twice, whatever was
\* cancelled or filled out of its middle or its front.
FifoByArrival ==
    \A s \in Side, p \in Price : \A i, j \in 1..Len(queue[s][p]) :
        i < j => stamp[queue[s][p][i]] < stamp[queue[s][p][j]]

\* Only a live residual rests: an order in the book is a GTC or GTD limit order
\* at its own side and price, not completely filled, and its status tells
\* whether it has traded (the comment in _rest_order).
RestingIsLive ==
    \A o \in Resting :
        /\ req[o] # None
        /\ req[o].order_type = "LIMIT"
        /\ req[o].time_in_force \in {"GTC", "GTD"}
        /\ cancel_map[o] = <<req[o].side, req[o].price>>
        /\ filled[o] < req[o].quantity
        /\ status[o] = IF filled[o] = 0 THEN "OPEN" ELSE "PARTIALLY_FILLED"

\* PriceLevel.total_quantity, which is adjusted by add, remove and the matching
\* loop separately, is the sum of what its orders still want.
LevelTotalsExact ==
    \A s \in Side : \A p \in levels[s] :
        total[s][p] = SumFunction([o \in ToSet(queue[s][p]) |-> Remaining(o)])

\* The quantities traded, trade by trade.
TradeSizes == [i \in 1..Len(trades) |-> trades[i].quantity]

\* Quantity is conserved: what an order was filled is the sum of the trades that
\* name it, as maker or as taker, and never more than it asked for.
FillsReconcile ==
    \A o \in OrderId : req[o] # None =>
        /\ filled[o] <= req[o].quantity
        /\ filled[o] = SumFunctionOnSet(TradeSizes,
              {i \in 1..Len(trades) : o \in {trades[i].maker, trades[i].taker}})

\* The running sums of the book agree with the orders and the trades.
QuantitiesReconcile == LevelTotalsExact /\ FillsReconcile

\* m comes before n in price-time priority.
Precedes(m, n) ==
    \/ Better(req[m].side, req[m].price, req[n].price)
    \/ req[m].price = req[n].price /\ stamp[m] < stamp[n]

\* Every trade is made with the resting order that has priority over all others
\* of its side, at that maker's price, and within the taker's limit.
PriorityRespected ==
    [][trades' # trades =>
        LET t == Last(trades')
        IN  /\ t.maker \in Resting
            /\ req[t.maker].side = Opposite(req[t.taker].side)
            /\ t.price = req[t.maker].price
            /\ Crosses(req[t.taker].side, req[t.taker].price, t.price)
            /\ \A n \in Resting \ {t.maker} :
                  req[n].side = req[t.maker].side => Precedes(t.maker, n)]_vars

\* A submit gives up on a residual only when no resting order of the other side,
\* at any level, would still trade with it.
NoMissedMatch ==
    [][(taker # None /\ taker' = None /\ Remaining(taker) > 0) =>
        \A n \in Resting : req[n].side = Opposite(req[taker].side) =>
            ~Crosses(req[taker].side, req[taker].price, req[n].price)]_vars

\* FILLED and CANCELLED are final, and an order never comes back to the book
\* once it has left it.
TerminalIsFinal ==
    [][\A o \in OrderId :
        /\ status[o] \in {"FILLED", "CANCELLED"} => status'[o] = status[o]
        /\ (o \in Resting' /\ o \notin Resting) => o = taker]_vars

-----------------------------------------------------------------------------
(* The book implements the abstract market: its levels, queues and cancel  *)
(* map amount to a set of resting orders served in price-time priority.    *)

Market == INSTANCE PriceTimePriority WITH
    arrived <- stamp, clock <- sequence, resting <- Resting,
    active <- taker, tape <- trades

\* Every behaviour of the book, fills, rests, cancels and the end of every
\* submit included, is one the abstract market allows.
ImplementsMarket == Market!Spec
=============================================================================
