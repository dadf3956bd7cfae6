-------------------------- MODULE StrategyRuntime --------------------------
(***************************************************************************)
(* StrategyRuntime (strategy/runtime.py) with its strategies, their risk   *)
(* guard (strategy/risk.py) and the exchange they reach through the order  *)
(* gateway.  The runtime learns of its fills only from trade events on a   *)
(* bounded bus queue, while orders are matched, cancelled and filled by    *)
(* others in the meantime.                                                 *)
(*                                                                         *)
(* process_event never yields.  It is split at the calls it makes: work is *)
(* what the handler still has to do, and while it is not empty nothing     *)
(* else can happen.  Market makers propose what SimpleMarketMaker          *)
(* (strategy/examples/market_maker.py) does; what other strategies propose, *)
(* and whether a callback raises, is up to the strategy.  All strategies   *)
(* trade one symbol and use limit orders; prices and profit are left out.  *)
(***************************************************************************)
EXTENDS DomainEvents, Integers, FiniteSets, SequencesExt

CONSTANTS
    Strategy,      \* the strategy ids
    Replacing,     \* those with replace_open_orders: the market makers
    OrderId,       \* fresh order ids
    Outside,       \* the counterparty that is no strategy
    Proposals,     \* what a callback of another strategy may return
    MaxOrderSize,  \* StrategyRiskLimits.max_order_size, and a maker's quote_size
    MaxPosition,   \* the max_position of strategy and limits
    QueueDepth,    \* the depth of the bus queue
    MaxUpdates,    \* bound: book changes that come from elsewhere
    None

Side == {"BUY", "SELL"}

\* An order a strategy proposes.  own says that it names the strategy and its
\* symbol, cheap that its notional is within max_notional_per_order.
Intent == [side: Side, quantity: Nat \ {0}, own: BOOLEAN, cheap: BOOLEAN]

\* An Order, once the gateway has returned.
OrderObject ==
    [side: Side, quantity: Nat, filled: Nat,
     status: {"OPEN", "PARTIALLY_FILLED", "FILLED", "CANCELLED", "REJECTED"}]

ASSUME StrategyAssumption  == Replacing \subseteq Strategy
ASSUME ProposalsAssumption == Proposals \subseteq Seq(Intent)
ASSUME LimitsAssumption    == MaxOrderSize \in Nat \ {0} /\ {MaxPosition, MaxUpdates} \subseteq Nat
ASSUME DepthAssumption     == QueueDepth \in Nat \ {0}
ASSUME NamesAssumption     == Outside \notin OrderId /\ None \notin Strategy \union OrderObject

VARIABLES
    registered,  \* the keys of _strategies, in order of registration
    running,     \* strategy -> is_running
    position,    \* strategy -> StrategyState.position
    owner,       \* order id -> the strategy in _owned_orders, or None
    open,        \* strategy -> _open_orders
    orders,      \* order id -> the Order object, or None
    queue,       \* the bus queue of the runtime
    lossy,       \* whether the bus has dropped an event
    work,        \* what process_event still has to do
    updates,     \* book changes from elsewhere so far
    net          \* history: strategy -> the signed quantity it has traded

strategyVars == <<registered, running>>
exchangeVars == <<orders, queue, lossy>>
vars == <<strategyVars, position, owner, open, exchangeVars, work, updates, net>>

-----------------------------------------------------------------------------
(* The exchange, seen through the gateway.                                 *)

\* Order.is_active.  Here every active order is in the book: these are limit
\* orders, whose residual rests or is cancelled.
Active(o) == orders[o] # None /\ orders[o].status \in {"OPEN", "PARTIALLY_FILLED"}

Signed(side, quantity) == IF side = "BUY" THEN quantity ELSE -quantity

BookUpdate == <<[type |-> "BOOK_UPDATE", of |-> None]>>

Emit(events) ==
    /\ queue' = Admitted(queue, events, QueueDepth)
    /\ lossy' = (lossy \/ Shed(queue, events, QueueDepth) > 0)

\* An order after a fill; residual is what becomes of the rest of it.
Filled(order, quantity, residual) ==
    [order EXCEPT !.filled = @ + quantity,
       !.status = IF order.filled + quantity = order.quantity THEN "FILLED"
                  ELSE IF residual # "OPEN" THEN residual
                  ELSE IF order.filled + quantity = 0 THEN "OPEN" ELSE "PARTIALLY_FILLED"]

Opposite(side) == IF side = "BUY" THEN "SELL" ELSE "BUY"

Unfilled(o) == orders[o].quantity - orders[o].filled

\* How much a taker on side may take of each resting order of a strategy: all
\* makers but the last are taken whole.
Takings(side) ==
    LET makers == {o \in OrderId : Active(o) /\ orders[o].side = Opposite(side)}
    IN  {taken \in [makers -> 0..MaxOrderSize] :
            /\ \A m \in makers : taken[m] <= Unfilled(m)
            /\ Cardinality({m \in makers : taken[m] \notin {0, Unfilled(m)}}) <= 1}

\* The events of one submit: a trade for each maker, then the book.
TradeEvents(taken, taker) ==
    LET makers == SetToSeq({m \in DOMAIN taken : taken[m] > 0})
    IN  [i \in 1..Len(makers) |->
            [type |-> "TRADE", of |-> [maker |-> makers[i], taker |-> taker,
                                       quantity |-> taken[makers[i]]]]]
          \o BookUpdate

\* What the makers lose, strategy by strategy.
NetOfMakers(taken, side) ==
    [s \in Strategy |-> SumFunction([m \in DOMAIN taken |->
        IF m # Outside /\ owner[m] = s THEN Signed(side, taken[m]) ELSE 0])]

\* gateway.submit of the order o of strategy s.  It trades with other clients
\* (outside) and with strategies, s included, or with none; the residual rests
\* or, for an IOC or FOK order, is cancelled.
GatewayMatch(o, s, intent) ==
    \E residual \in {"OPEN", "CANCELLED"},
       resting \in Takings(intent.side), outside \in 0..intent.quantity :
        LET taken  == [m \in DOMAIN resting \union {Outside} |->
                          IF m = Outside THEN outside ELSE resting[m]]
            filled == SumFunction(taken)
            new    == [side |-> intent.side, quantity |-> intent.quantity,
                       filled |-> 0, status |-> "PENDING"]
        IN  /\ filled <= intent.quantity
            /\ filled < intent.quantity =>
                  \A m \in DOMAIN resting : resting[m] \in {0, Unfilled(m)}
            /\ orders' = [m \in OrderId |->
                             IF m = o THEN Filled(new, filled, residual)
                             ELSE IF m \in DOMAIN resting /\ resting[m] > 0
                             THEN Filled(orders[m], resting[m], "OPEN") ELSE orders[m]]
            /\ Emit(TradeEvents(taken, o))
            /\ net' = [t \in Strategy |-> net[t] - NetOfMakers(taken, intent.side)[t]
                          + (IF t = s THEN Signed(intent.side, filled) ELSE 0)]

\* gateway.submit of an order the engine's validation rejects.
GatewayReject(o, intent) ==
    /\ orders' = [orders EXCEPT ![o] = [side |-> intent.side, quantity |-> intent.quantity,
                                        filled |-> 0, status |-> "REJECTED"]]
    /\ UNCHANGED <<queue, lossy, net>>

\* Another client's order takes quantity from resting orders of strategies.
OutsideTrade(side) ==
    /\ work = <<>>
    /\ \E taken \in Takings(side) :
          /\ \E m \in DOMAIN taken : taken[m] > 0
          /\ orders' = [m \in OrderId |->
                           IF m \in DOMAIN taken /\ taken[m] > 0
                           THEN Filled(orders[m], taken[m], "OPEN") ELSE orders[m]]
          /\ Emit(TradeEvents(taken, Outside))
          /\ net' = [s \in Strategy |-> net[s] - NetOfMakers(taken, side)[s]]
    /\ UNCHANGED <<strategyVars, position, owner, open, work, updates>>

\* The REST API cancels an order of a strategy by its id.
OutsideCancel(o) ==
    /\ work = <<>>
    /\ Active(o)
    /\ orders' = [orders EXCEPT ![o].status = "CANCELLED"]
    /\ Emit(BookUpdate)
    /\ UNCHANGED <<strategyVars, position, owner, open, work, updates, net>>

\* The book changes without any strategy being involved.
OutsideUpdate ==
    /\ work = <<>>
    /\ updates < MaxUpdates
    /\ updates' = updates + 1
    /\ Emit(BookUpdate)
    /\ UNCHANGED <<strategyVars, position, owner, open, orders, work, net>>

-----------------------------------------------------------------------------
(* Control of strategies.                                                  *)

\* BaseStrategy.start
Start(s) == running' = [running EXCEPT ![s] = TRUE]

\* BaseStrategy.stop, for a set of strategies.
Halt(strategies) == running' = [s \in Strategy |-> running[s] /\ s \notin strategies]

\* add_strategy registers a strategy that does not run yet; a known id is refused.
AddStrategy(s) ==
    /\ s \notin ToSet(registered)
    /\ registered' = Append(registered, s)

Register(s) ==
    /\ work = <<>>
    /\ AddStrategy(s)
    /\ UNCHANGED <<running, position, owner, open, exchangeVars, work, updates, net>>

\* POST /market-makers: the strategy is added and started.  A known id is answered
\* with a conflict, whether its strategy runs or was stopped.
CreateMarketMaker(s) ==
    /\ work = <<>>
    /\ s \in Replacing
    /\ \/ AddStrategy(s) /\ Start(s)
       \/ s \in ToSet(registered) /\ UNCHANGED strategyVars
    /\ UNCHANGED <<position, owner, open, exchangeVars, work, updates, net>>

\* start_strategy: a stopped strategy runs again.
StartStrategy(s) ==
    /\ work = <<>>
    /\ s \in ToSet(registered)
    /\ Start(s)
    /\ UNCHANGED <<registered, position, owner, open, exchangeVars, work, updates, net>>

\* _cancel_open_orders for a set of strategies: each of their open orders is
\* cancelled, which changes it only while it is in the book.
CancelOpenOrders(strategies) ==
    LET gone == {o \in UNION {open[s] : s \in strategies} : Active(o)}
    IN  /\ orders' = [o \in OrderId |-> IF o \in gone
                         THEN [orders[o] EXCEPT !.status = "CANCELLED"] ELSE orders[o]]
        /\ open' = [s \in Strategy |-> IF s \in strategies THEN {} ELSE open[s]]
        /\ Emit([i \in 1..Cardinality(gone) |-> BookUpdate[1]])

\* stop_strategy, for each of a set of strategies.
Stop(strategies) == Halt(strategies) /\ CancelOpenOrders(strategies)

\* engage_kill_switch, for one strategy or for all of them.
EngageKillSwitch(targets) ==
    /\ work = <<>>
    /\ Stop(targets)
    /\ UNCHANGED <<registered, position, owner, work, updates, net>>

\* POST /{strategy_id}/kill: an id that is not registered is not found.
KillStrategy(s) == s \in ToSet(registered) /\ EngageKillSwitch({s})

-----------------------------------------------------------------------------
(* process_event.                                                          *)

Calls(callback) ==
    [i \in 1..Len(registered) |-> [do |-> callback, strategy |-> registered[i]]]

\* Mutant: only the maker is told.
PartiesMaker(trade) == <<trade.maker>>

\* Maker and taker may both belong to strategies, even to the same one.
Parties(trade) == <<trade.maker, trade.taker>>

\* One round of run.
ProcessEvent ==
    /\ work = <<>>
    /\ queue # <<>>
    /\ queue' = Tail(queue)
    /\ LET e == Head(queue)
       IN  work' = IF e.type = "BOOK_UPDATE" THEN Calls("on_book_update")
                   ELSE [i \in 1..Len(Parties(e.of)) |->
                            [do |-> "on_fill", order |-> Parties(e.of)[i],
                             quantity |-> e.of.quantity]]
                        \o Calls("on_trade")
    /\ UNCHANGED <<strategyVars, position, owner, open, orders, lossy, updates, net>>

\* Mutant: an order leaves the open orders with its first fill.
OpenUntilFirstFill(o) == FALSE

\* An order stays among the open ones while it is active.
StaysOpen(o) == Active(o)

\* _on_trade, for one of the two orders of the trade.
OnFill ==
    /\ work # <<>>
    /\ Head(work).do = "on_fill"
    /\ work' = Tail(work)
    /\ LET o == Head(work).order
       IN  IF o # Outside /\ owner[o] # None
           THEN /\ position' = [position EXCEPT ![owner[o]] =
                                   @ + Signed(orders[o].side, Head(work).quantity)]
                /\ open' = [open EXCEPT ![owner[o]] = IF StaysOpen(o) THEN @ ELSE @ \ {o}]
           ELSE UNCHANGED <<position, open>>
    /\ UNCHANGED <<strategyVars, owner, exchangeVars, updates, net>>

Submits(s, proposals) ==
    [i \in 1..Len(proposals) |->
        [do |-> "submit", strategy |-> s, intent |-> proposals[i]]]

\* Mutant: the open orders are kept when a strategy quotes anew.
ReplacesNever(s, proposals) == FALSE

\* Quoting strategies have their open orders cancelled before a new set.
Replaces(s, proposals) == proposals # <<>> /\ s \in Replacing

\* The callback is not made for a strategy that does not run.
SkipCallback ==
    /\ work # <<>>
    /\ Head(work).do \in {"on_book_update", "on_trade"}
    /\ ~running[Head(work).strategy]
    /\ work' = Tail(work)
    /\ UNCHANGED <<strategyVars, position, owner, open, exchangeVars, updates, net>>

\* Which of two quotes are cheap: the bid is below the ask.
Affordable == {cheap \in [Side -> BOOLEAN] : cheap["SELL"] => cheap["BUY"]}

\* SimpleMarketMaker.on_book_update when it quotes: a bid unless the position is at
\* its maximum, then an ask unless it is at its minimum.
Quotes(s, cheap) ==
    LET quote(side) == [side |-> side, quantity |-> MaxOrderSize, own |-> TRUE,
                        cheap |-> cheap[side]]
    IN  (IF position[s] < MaxPosition THEN <<quote("BUY")>> ELSE <<>>)
          \o (IF position[s] > -MaxPosition THEN <<quote("SELL")>> ELSE <<>>)

\* What the callback may return.  A market maker does not quote when the book has no
\* mid price or the mid has hardly moved, and never on a trade.
Returns(s, callback) ==
    IF s \notin Replacing THEN Proposals
    ELSE IF callback = "on_trade" THEN {<<>>}
    ELSE {<<>>} \union {Quotes(s, cheap) : cheap \in Affordable}

\* The callback returns what the strategy proposes.
Callback ==
    /\ work # <<>>
    /\ Head(work).do \in {"on_book_update", "on_trade"}
    /\ running[Head(work).strategy]
    /\ LET s == Head(work).strategy
       IN  \E proposals \in Returns(s, Head(work).do) :
              /\ work' = Submits(s, proposals) \o Tail(work)
              /\ IF Head(work).do = "on_book_update" /\ Replaces(s, proposals)
                 THEN CancelOpenOrders({s})
                 ELSE UNCHANGED <<open, exchangeVars>>
    /\ UNCHANGED <<strategyVars, position, owner, updates, net>>

\* The callback raises: the strategy is stopped.
CallbackFailure ==
    /\ work # <<>>
    /\ Head(work).do \in {"on_book_update", "on_trade"}
    /\ running[Head(work).strategy]
    /\ work' = Tail(work)
    /\ Stop({Head(work).strategy})
    /\ UNCHANGED <<registered, position, owner, updates, net>>

\* _submit_proposals and StrategyRiskGuard.evaluate: against the position known from processed fills.
Accepted(s, intent) ==
    /\ running[s]
    /\ intent.quantity <= MaxOrderSize
    /\ intent.own /\ intent.cheap
    /\ LET projected == position[s] + Signed(intent.side, intent.quantity)
       IN  projected <= MaxPosition /\ -projected <= MaxPosition

RiskReject ==
    /\ work # <<>>
    /\ Head(work).do = "submit"
    /\ ~Accepted(Head(work).strategy, Head(work).intent)
    /\ work' = Tail(work)
    /\ UNCHANGED <<strategyVars, position, owner, open, exchangeVars, updates, net>>

\* _submit_proposals: ownership is registered before the gateway is called.
SubmitProposal(o) ==
    /\ work # <<>>
    /\ Head(work).do = "submit"
    /\ orders[o] = None
    /\ LET s == Head(work).strategy
       IN  /\ Accepted(s, Head(work).intent)
           /\ owner' = [owner EXCEPT ![o] = s]
           /\ open' = [open EXCEPT ![s] = @ \union {o}]
           /\ GatewayMatch(o, s, Head(work).intent) \/ GatewayReject(o, Head(work).intent)
    /\ work' = Tail(work)
    /\ UNCHANGED <<strategyVars, position, updates>>

\* Bound: the fresh ids are used up, and the model stops submitting.
NoMoreIds ==
    /\ work # <<>>
    /\ Head(work).do = "submit"
    /\ \A o \in OrderId : orders[o] # None
    /\ Accepted(Head(work).strategy, Head(work).intent)
    /\ work' = Tail(work)
    /\ UNCHANGED <<strategyVars, position, owner, open, exchangeVars, updates, net>>

-----------------------------------------------------------------------------
Init ==
    /\ registered = <<>>
    /\ running = [s \in Strategy |-> FALSE]
    /\ position = [s \in Strategy |-> 0]
    /\ owner = [o \in OrderId |-> None]
    /\ open = [s \in Strategy |-> {}]
    /\ orders = [o \in OrderId |-> None]
    /\ queue = <<>>
    /\ lossy = FALSE
    /\ work = <<>>
    /\ updates = 0
    /\ net = [s \in Strategy |-> 0]

Next ==
    \/ \E s \in Strategy :
          Register(s) \/ CreateMarketMaker(s) \/ StartStrategy(s) \/ KillStrategy(s)
    \/ EngageKillSwitch(ToSet(registered))
    \/ ProcessEvent
    \/ OnFill
    \/ SkipCallback
    \/ Callback
    \/ CallbackFailure
    \/ RiskReject
    \/ \E o \in OrderId : SubmitProposal(o) \/ OutsideCancel(o)
    \/ \E side \in Side : OutsideTrade(side)
    \/ NoMoreIds
    \/ OutsideUpdate

Spec == Init /\ [][Next]_vars

-----------------------------------------------------------------------------
(* Properties.                                                             *)

\* The type invariant.
TypeOK ==
    /\ registered \in Seq(Strategy)
    /\ running \in [Strategy -> BOOLEAN]
    /\ position \in [Strategy -> Int]
    /\ owner \in [OrderId -> Strategy \union {None}]
    /\ open \in [Strategy -> SUBSET OrderId]
    /\ orders \in [OrderId -> OrderObject \union {None}]
    /\ Len(queue) <= QueueDepth
    /\ lossy \in BOOLEAN
    /\ net \in [Strategy -> Int]

\* A stopped or killed strategy has nothing left in the book, whatever fills were
\* under way, dropped or not yet processed when it was stopped.
StoppedHasNoQuotes ==
    \A s \in Strategy, o \in OrderId :
        ~running[s] /\ owner[o] = s => ~Active(o)

\* A quoting strategy never has two quotes of an earlier and a later set in the
\* book on one side: cancel/replace misses none.
QuotesReplaced ==
    work = <<>> => \A s \in Replacing, side \in Side :
        Cardinality({o \in OrderId :
            owner[o] = s /\ Active(o) /\ orders[o].side = side}) <= 1

\* A fill of quantity q on order o, as strategy s has to book it.
FillFor(s, o, q) == IF o # Outside /\ owner[o] = s THEN Signed(orders[o].side, q) ELSE 0

\* What an event on the bus, and an item of work, still have to tell s.
EventFill(s, e) ==
    IF e.type # "TRADE" THEN 0
    ELSE FillFor(s, e.of.maker, e.of.quantity) + FillFor(s, e.of.taker, e.of.quantity)

WorkFill(s, item) ==
    IF item.do # "on_fill" THEN 0 ELSE FillFor(s, item.order, item.quantity)

\* The fills of strategy s that the runtime has yet to hear of.
PendingFills(s) ==
    SumFunction([i \in 1..Len(queue) |-> EventFill(s, queue[i])])
      + SumFunction([i \in 1..Len(work) |-> WorkFill(s, work[i])])

\* Unless an event was dropped, the position a strategy believes in and the fills
\* still on their way add up to what it has really traded, self-crosses included.
PositionExact ==
    ~lossy => \A s \in Strategy : position[s] + PendingFills(s) = net[s]
=============================================================================
