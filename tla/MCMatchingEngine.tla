-------------------------- MODULE MCMatchingEngine --------------------------
(***************************************************************************)
(* A small instance of MatchingEngine for TLC: two kinds of malformed      *)
(* submissions next to limit and market orders on two price levels.        *)
(***************************************************************************)
EXTENDS MatchingEngine

Limits(prices, quantities, tifs) ==
    [side: Side, order_type: {"LIMIT"}, price: prices,
     quantity: quantities, time_in_force: tifs]

WellFormed ==
    Limits({1, 2}, {1, 2}, {"GTC"}) \union Limits({2}, {2}, {"IOC"})
        \union [side: Side, order_type: {"MARKET"}, price: {None},
                quantity: {2}, time_in_force: {"GTC"}]

\* LIMIT without a price or with price 0, and quantity 0.
Malformed ==
    [side: {"BUY"}, order_type: {"LIMIT"}, price: {None, 0},
     quantity: {1}, time_in_force: {"GTC"}]
        \union Limits({1}, {0}, {"GTC"})

AnySubmission == WellFormed \union Malformed
=============================================================================
