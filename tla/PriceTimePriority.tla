------------------------- MODULE PriceTimePriority -------------------------
(***************************************************************************)
(* What a matching engine for one symbol promises, with no levels, queues  *)
(* or indexes: a set of resting orders, each with a price and a time of    *)
(* arrival, and an incoming order that trades with them one at a time in   *)
(* price-time priority until it is filled or nothing it accepts is left.   *)
(* OrderBook implements this specification.                                *)
(***************************************************************************)
EXTENDS Integers, Sequences

CONSTANTS OrderId, Requests, None

VARIABLES
    req,      \* order id -> the terms of the order, None before it arrives
    filled,   \* order id -> the quantity it has traded
    arrived,  \* order id -> its place in the order of arrival
    clock,    \* the number of arrivals so far
    resting,  \* the orders that wait in the market
    active,   \* the order being matched, or None
    tape      \* the trades, in order

vars == <<req, filled, arrived, clock, resting, active, tape>>

Wanted(o) == req[o].quantity - filled[o]

Opposed(m, n) == req[m].side # req[n].side

\* The terms of order o accept a trade at price p.
Accepts(o, p) ==
    IF req[o].price = None THEN TRUE
    ELSE IF req[o].side = "BUY" THEN p <= req[o].price ELSE p >= req[o].price

\* Resting order m is served before resting order n of the same side.
Before(m, n) ==
    \/ req[m].price = req[n].price /\ arrived[m] < arrived[n]
    \/ IF req[m].side = "BUY" THEN req[m].price > req[n].price
                              ELSE req[m].price < req[n].price

\* The orders that could trade with the active one.
Counterparties ==
    {m \in resting : Opposed(m, active) /\ Accepts(active, req[m].price)}

Rests(o) ==
    req[o].order_type = "LIMIT" /\ req[o].time_in_force \in {"GTC", "GTD"}

-----------------------------------------------------------------------------
Init ==
    /\ req     = [o \in OrderId |-> None]
    /\ filled  = [o \in OrderId |-> 0]
    /\ arrived = [o \in OrderId |-> 0]
    /\ clock   = 0
    /\ resting = {}
    /\ active  = None
    /\ tape    = <<>>

Arrive(o, r) ==
    /\ active = None
    /\ req[o] = None
    /\ r.order_type = "LIMIT" => r.price # None
    /\ req' = [req EXCEPT ![o] = r]
    /\ filled' = [filled EXCEPT ![o] = 0]
    /\ arrived' = [arrived EXCEPT ![o] = clock + 1]
    /\ clock' = clock + 1
    /\ active' = o
    /\ UNCHANGED <<resting, tape>>

\* The active order trades with the counterparty that is before all others.
Execute(m) ==
    /\ active # None
    /\ Wanted(active) > 0
    /\ m \in Counterparties
    /\ \A n \in resting \ {m} : Opposed(n, active) => Before(m, n)
    /\ \E q \in {Wanted(active), Wanted(m)} :
          /\ q <= Wanted(active) /\ q <= Wanted(m)
          /\ filled' = [filled EXCEPT ![active] = @ + q, ![m] = @ + q]
          /\ tape' = Append(tape, [maker |-> m, taker |-> active,
                                   price |-> req[m].price, quantity |-> q])
          /\ resting' = IF Wanted(m) = q THEN resting \ {m} ELSE resting
    /\ UNCHANGED <<req, arrived, clock, active>>

\* Matching is over: the rest of the order waits in the market or is dropped.
Settle ==
    /\ active # None
    /\ Wanted(active) = 0 \/ Counterparties = {}
    /\ resting' = IF Wanted(active) > 0 /\ Rests(active)
                  THEN resting \union {active} ELSE resting
    /\ active' = None
    /\ UNCHANGED <<req, filled, arrived, clock, tape>>

Withdraw(o) ==
    /\ active = None
    /\ o \in resting
    /\ resting' = resting \ {o}
    /\ UNCHANGED <<req, filled, arrived, clock, active, tape>>

Next ==
    \/ \E o \in OrderId : \E r \in Requests : Arrive(o, r)
    \/ \E m \in OrderId : Execute(m)
    \/ Settle
    \/ \E o \in OrderId : Withdraw(o)

\* The safety part, and the promise that an order is always matched to its end.
Safety == Init /\ [][Next]_vars
Spec   == Safety /\ WF_vars((\E m \in OrderId : Execute(m)) \/ Settle)
=============================================================================
