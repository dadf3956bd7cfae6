---------------------------- MODULE CppOrderBook ----------------------------
(***************************************************************************)
(* The C++ limit order book of one symbol (engine/cpp/src/order_book.cpp,  *)
(* price_level.hpp): std::map levels, each an intrusive doubly linked list *)
(* of order nodes, and a cancel map that leads straight to a node.         *)
(*                                                                         *)
(* As in OrderBook, submit is followed iteration by iteration of its       *)
(* matching loop.  Quantities, totals and counts are uint32_t.  An order   *)
(* without a price has price 0.0.                                          *)
(***************************************************************************)
EXTENDS WireCodec, FiniteSets

CONSTANTS
    OrderId,  \* the identifiers of orders
    Price     \* the prices of limit orders

ASSUME PriceAssumption == Price \subseteq Nat \ {0}

Side == {"BUY", "SELL"}

\* The fixed fields of a node: an order without a price has price 0.0.
Request ==
    [side: Side, order_type: {"LIMIT", "MARKET"}, price: Price \union {0},
     quantity: 0 .. Span[4] - 1, time_in_force: {"GTC", "IOC", "FOK", "GTD"}]

ASSUME NoneAssumption == None \notin OrderId \union Price \union Request \union (Side \X Price)

VARIABLES
    req,         \* order id -> the fixed fields of its node, or None
    filled,      \* order id -> filled_quantity
    status,      \* order id -> status
    link,        \* order id -> the prev and next pointers of its node
    book,        \* side -> price -> PriceLevel: bids_ and asks_
    cancel_map,  \* order id -> <<side, price>> in cancel_map_, or None
    sequence,    \* sequence_
    taker,       \* the node submit is matching, or None between calls
    trades,      \* every MatchTrade reported, in order
    stamp        \* history: order id -> the sequence number of its submit

vars == <<req, filled, status, link, book, cancel_map, sequence, taker, trades,
          stamp>>

Remaining(o) == req[o].quantity - filled[o]

Opposite(s) == IF s = "BUY" THEN "SELL" ELSE "BUY"

Least(a, b) == IF a <= b THEN a ELSE b

-----------------------------------------------------------------------------
(* PriceLevel.  No node is the null pointer None.                          *)

Unlinked == [prev |-> None, next |-> None]

EmptyLevel == [total |-> 0, count |-> 0, head |-> None, tail |-> None]

\* push_back(o): the level and the links it leaves.
PushBack(level, o) ==
    [total |-> Low(4, level.total + Remaining(o)), count |-> level.count + 1,
     head |-> IF level.tail = None THEN o ELSE level.head, tail |-> o]

LinkBack(level, o) ==
    [n \in OrderId |->
        CASE n = o -> [prev |-> level.tail, next |-> None]
          [] n # o /\ n = level.tail -> [link[n] EXCEPT !.next = o]
          [] OTHER -> link[n]]

\* remove(o), of an order that still wants remaining: level and links.
Remove_(level, o, remaining) ==
    [total |-> Low(4, level.total - remaining), count |-> level.count - 1,
     head |-> IF link[o].prev = None THEN link[o].next ELSE level.head,
     tail |-> IF link[o].next = None THEN link[o].prev ELSE level.tail]

\* Mutant: the node behind o keeps its pointer to o.
UnlinkForward(o) ==
    [n \in OrderId |->
        CASE n = o -> Unlinked
          [] n # o /\ n = link[o].prev -> [link[n] EXCEPT !.next = link[o].next]
          [] OTHER -> link[n]]

Unlink(o) ==
    [n \in OrderId |->
        CASE n = o -> Unlinked
          [] n # o /\ n = link[o].prev -> [link[n] EXCEPT !.next = link[o].next]
          [] n # o /\ n = link[o].next -> [link[n] EXCEPT !.prev = link[o].prev]
          [] OTHER -> link[n]]

\* The map of one side with level at price p.
WithLevel(side, p, level) ==
    [q \in DOMAIN side \union {p} |-> IF q = p THEN level ELSE side[q]]

\* The same, or without p when the level is empty.
StoreLevel(side, p, level) ==
    IF level.head = None THEN Restrict(side, DOMAIN side \ {p})
    ELSE WithLevel(side, p, level)

-----------------------------------------------------------------------------
(* OrderBook::submit                                                       *)

Submit(o, r) ==
    /\ taker = None
    /\ req' = [req EXCEPT ![o] = r]
    /\ filled' = [filled EXCEPT ![o] = 0]
    /\ status' = [status EXCEPT ![o] = "PENDING"]
    /\ sequence' = sequence + 1
    /\ stamp' = [stamp EXCEPT ![o] = sequence + 1]
    /\ taker' = o
    /\ UNCHANGED <<link, book, cancel_map, trades>>

\* Mutant: the bids are kept in ascending order too.
BestAscending(s) ==
    CHOOSE p \in DOMAIN book[s] : \A q \in DOMAIN book[s] : p <= q

\* The price of begin() of the other side's map.
Best(s) ==
    CHOOSE p \in DOMAIN book[s] :
        \A q \in DOMAIN book[s] : IF s = "BUY" THEN p >= q ELSE p <= q

\* crosses, with the crossing price of match_against: a MARKET order has none of
\* its own, whatever its price field says.
Crosses(r, level_price) ==
    \/ r.order_type = "MARKET"
    \/ IF r.side = "BUY" THEN r.price >= level_price ELSE r.price <= level_price

Other == Opposite(req[taker].side)

\* The condition of both loops of match_against.
Matching ==
    /\ taker # None
    /\ Remaining(taker) > 0
    /\ DOMAIN book[Other] # {}
    /\ Crosses(req[taker], Best(Other))

\* One iteration of match_against with the order at the head of the best level.
Fill ==
    /\ Matching
    /\ LET best    == Best(Other)
           resting == book[Other][best].head
           qty     == Least(Remaining(taker), Remaining(resting))
           done    == Remaining(resting) = qty
           level   == [book[Other][best] EXCEPT !.total = Low(4, @ - qty)]
           left    == IF done THEN Remove_(level, resting, 0) ELSE level
       IN  /\ filled' = [filled EXCEPT ![taker] = @ + qty, ![resting] = @ + qty]
           /\ trades' = Append(trades,
                  [maker |-> resting, taker |-> taker,
                   price |-> req[resting].price, quantity |-> qty])
           /\ status' = [status EXCEPT ![resting] =
                             IF done THEN "FILLED" ELSE "PARTIALLY_FILLED"]
           /\ book' = [book EXCEPT ![Other] = StoreLevel(@, best, left)]
           /\ link' = IF done THEN Unlink(resting) ELSE link
           /\ cancel_map' = IF done THEN [cancel_map EXCEPT ![resting] = None]
                            ELSE cancel_map
    /\ UNCHANGED <<req, sequence, taker, stamp>>

\* The status submit gives the order before it looks at the time in force.
MatchedStatus(o) ==
    CASE Remaining(o) = 0 -> "FILLED"
      [] Remaining(o) > 0 /\ filled[o] > 0 -> "PARTIALLY_FILLED"
      [] OTHER -> status[o]

Residual(o, tifs) ==
    /\ Remaining(o) > 0
    /\ req[o].order_type = "LIMIT"
    /\ req[o].time_in_force \in tifs

\* rest_order
RestOrder(o, s, p) ==
    LET level == IF p \in DOMAIN book[s] THEN book[s][p] ELSE EmptyLevel
    IN  /\ book' = [book EXCEPT ![s] = WithLevel(@, p, PushBack(level, o))]
        /\ link' = LinkBack(level, o)
        /\ cancel_map' = [cancel_map EXCEPT ![o] = <<s, p>>]
        /\ status' = [status EXCEPT ![o] =
                          IF filled[o] = 0 THEN "OPEN" ELSE MatchedStatus(o)]

\* submit returns, with the residual resting, cancelled or left alone.
Finish ==
    /\ taker # None
    /\ ~Matching
    /\ IF Residual(taker, {"GTC", "GTD"})
       THEN RestOrder(taker, req[taker].side, req[taker].price)
       ELSE /\ status' = [status EXCEPT ![taker] =
                  IF Residual(taker, {"IOC", "FOK"}) THEN "CANCELLED"
                  ELSE MatchedStatus(taker)]
            /\ UNCHANGED <<book, link, cancel_map>>
    /\ taker' = None
    /\ UNCHANGED <<req, filled, sequence, trades, stamp>>

-----------------------------------------------------------------------------
(* OrderBook::cancel                                                       *)

CancelUnknown(o) == taker = None /\ cancel_map[o] = None /\ UNCHANGED vars

\* The map entry goes first; a price without a level ends the call there.
CancelResting(o) ==
    /\ taker = None
    /\ cancel_map[o] # None
    /\ cancel_map' = [cancel_map EXCEPT ![o] = None]
    /\ LET s == cancel_map[o][1]
           p == cancel_map[o][2]
       IN  IF p \in DOMAIN book[s]
           THEN /\ book' = [book EXCEPT ![s] =
                       StoreLevel(@, p, Remove_(@[p], o, Remaining(o)))]
                /\ link' = Unlink(o)
                /\ status' = [status EXCEPT ![o] = "CANCELLED"]
           ELSE UNCHANGED <<book, link, status>>
    /\ UNCHANGED <<req, filled, sequence, taker, trades, stamp>>

-----------------------------------------------------------------------------
(* OrderBook::snapshot                                                     *)

\* The i-th price in the map of side s: i - 1 come before it.
Nth(s, i) ==
    CHOOSE p \in DOMAIN book[s] :
        Cardinality({q \in DOMAIN book[s] : IF s = "BUY" THEN q > p ELSE q < p}) = i - 1

Sorted(s) == [i \in 1 .. Cardinality(DOMAIN book[s]) |-> Nth(s, i)]

LevelsOf(s, depth) ==
    LET best == SubSeq(Sorted(s), 1, Least(depth, Len(Sorted(s))))
    IN  [i \in DOMAIN best |->
            <<best[i], book[s][best[i]].total, book[s][best[i]].count>>]

Snapshot(symbol, depth) ==
    [symbol |-> symbol, sequence |-> sequence,
     bids |-> LevelsOf("BUY", depth), asks |-> LevelsOf("SELL", depth)]

-----------------------------------------------------------------------------
BookInit ==
    /\ req        = [o \in OrderId |-> None]
    /\ filled     = [o \in OrderId |-> 0]
    /\ status     = [o \in OrderId |-> "PENDING"]
    /\ link       = [o \in OrderId |-> Unlinked]
    /\ book       = [s \in Side |-> <<>>]
    /\ cancel_map = [o \in OrderId |-> None]
    /\ sequence   = 0
    /\ taker      = None
    /\ trades     = <<>>
    /\ stamp      = [o \in OrderId |-> 0]

-----------------------------------------------------------------------------
(* Properties.                                                             *)

\* The orders the cancel map places at price p of side s.
At(s, p) == {o \in OrderId : cancel_map[o] = <<s, p>>}

\* What they still want together.
Wanted(s, p) == SumFunction([o \in At(s, p) |-> Remaining(o)])

\* Every level is a proper doubly linked list: after any mixture of push_back,
\* removal at the head by fills and removal from anywhere by cancels, the nodes
\* the cancel map leads to are linked both ways from head to tail in order of
\* arrival, no other node keeps a link, no level is empty, and the count and the
\* total are those of the list (the total as far as a uint32_t holds it).
ListsSound ==
    /\ \A o \in OrderId :
         IF cancel_map[o] = None THEN link[o] = Unlinked
         ELSE cancel_map[o][2] \in DOMAIN book[cancel_map[o][1]]
    /\ \A s \in Side : \A p \in DOMAIN book[s] :
         LET level == book[s][p]
         IN  /\ level.head \in At(s, p) /\ level.tail \in At(s, p)
             /\ \A o \in At(s, p) :
                  /\ IF link[o].prev = None THEN o = level.head
                     ELSE link[o].prev \in At(s, p) /\ link[link[o].prev].next = o
                  /\ IF link[o].next = None THEN o = level.tail
                     ELSE /\ link[o].next \in At(s, p)
                          /\ link[link[o].next].prev = o
                          /\ stamp[o] < stamp[link[o].next]
             /\ level.count = Cardinality(At(s, p))
             /\ level.total = Low(4, Wanted(s, p))

\* What is behind each node, that node included.
Following(lk) ==
    LET from[o \in OrderId \union {None}] ==
            IF o = None THEN <<>> ELSE <<o>> \o from[lk[o].next]
    IN  from

\* The list of a level, walked from its head.
Walk(s, p) == IF p \in DOMAIN book[s] THEN Following(link)[book[s][p].head] ELSE <<>>

\* The Python view of native state.  0.0 is no price.
PythonRequest(r) == [r EXCEPT !.price = IF @ = 0 THEN None ELSE @]

PythonReq == [o \in OrderId |-> IF req[o] = None THEN None ELSE PythonRequest(req[o])]

PythonLevels == [s \in Side |-> DOMAIN book[s]]

PythonQueue == [s \in Side |-> [p \in Price |-> Walk(s, p)]]

PythonTotal == [s \in Side |-> [p \in Price |-> Wanted(s, p)]]
=============================================================================
