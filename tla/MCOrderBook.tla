---------------------------- MODULE MCOrderBook ----------------------------
(***************************************************************************)
(* A small instance of OrderBook for TLC.                                  *)
(***************************************************************************)
EXTENDS OrderBook, TLC

Symmetry == Permutations(OrderId)

Limits(prices, quantities, tifs) ==
    [side: Side, order_type: {"LIMIT"}, price: prices,
     quantity: quantities, time_in_force: tifs]

Markets(prices, quantities) ==
    [side: Side, order_type: {"MARKET"}, price: prices,
     quantity: quantities, time_in_force: {"GTC"}]

\* Every kind of order on two levels, with enough resting orders for queues to
\* be cut in the middle.
MixedRequests ==
    Limits({1, 2}, {1, 2}, {"GTC"}) \union Limits({1, 2}, {2}, {"IOC"})
        \union Limits({1}, {2}, {"FOK", "GTD"}) \union Markets({None, 1}, {2})
=============================================================================
