-------------------------- MODULE MCCppMatchingHAL --------------------------
(***************************************************************************)
(* A small instance of CppMatchingHAL for TLC.  A byte has two values, so  *)
(* a uint32_t holds 0..15 and two orders for 12 at one price wrap a total. *)
(***************************************************************************)
EXTENDS CppMatchingHAL

CONSTANTS o1, o2, o3, o4, Unlisted

Narrow == [w \in {2, 4} |-> 2 ^ w]

\* Each symbol fits in six bytes and is its own key.
Cut == [s \in Symbols |-> s]

Order(o, symbol, side, type, p, q, tif) ==
    [order_id |-> o, symbol |-> symbol, side |-> side, order_type |-> type,
     price |-> p, quantity |-> q, time_in_force |-> tif]

\* Three buyers, two of which fill a level beyond 15, and a seller; some orders
\* come as objects, some as bytes, some either way.
ByObject ==
    {Order(o1, Listed, "BUY", "LIMIT", 1, 12, "GTC"),
     Order(o3, Listed, "BUY", "LIMIT", 1, 6, "GTC"),
     Order(o4, Listed, "SELL", "LIMIT", 2, 15, "GTC"),
     Order(o4, Listed, "SELL", "MARKET", None, 8, "GTC")}

ByBytes ==
    {Order(o2, Listed, "BUY", "LIMIT", 1, 12, "GTC"),
     Order(o3, Listed, "BUY", "LIMIT", 2, 6, "GTD"),
     Order(o4, Listed, "SELL", "LIMIT", 1, 15, "IOC"),
     Order(o4, Listed, "SELL", "MARKET", None, 8, "GTC")}

AnySubmission ==
    [object |-> ByObject \union
        {Order(o1, Unlisted, "BUY", "LIMIT", 1, 12, "GTC"),
         Order(o1, Listed, "BUY", "LIMIT", None, 12, "GTC"),
         Order(o1, Listed, "BUY", "LIMIT", 1, 16, "GTC")},
     bytes |-> ByBytes \union
        {Order(o1, Listed, "BUY", "LIMIT", 1, 0, "GTC")}]
=============================================================================
