----------------------- MODULE StrategyRuntimeProofs -----------------------
(***************************************************************************)
(* Proofs about StrategyRuntime.                                           *)
(***************************************************************************)
EXTENDS StrategyRuntime, SharedFacts

-----------------------------------------------------------------------------
(* The inductive invariant.                                                *)

\* The orders that exist, and who a fill may name.
Known == {o \in OrderId : orders[o] # None}
Party == Known \union {Outside}

\* What may be on the bus and in work when fills name only members of P.
BusEvent(P) ==
    [type: {"BOOK_UPDATE"}, of: {None}]
      \union [type: {"TRADE"}, of: [maker: P, taker: P, quantity: Nat]]

WorkItem(P) ==
    [do: {"on_fill"}, order: P, quantity: Nat]
      \union [do: {"on_book_update", "on_trade"}, strategy: Strategy]
      \union [do: {"submit"}, strategy: Strategy, intent: Intent]

\* What is on its way names only orders that exist.
Typed ==
    /\ TypeOK
    /\ IsFiniteSet(Known)
    /\ queue \in Seq(BusEvent(Party))
    /\ work \in Seq(WorkItem(Party))

\* The runtime owns every order it has sent, and keeps those that are in the book
\* among the open ones of their owner; a strategy that does not run has none.
OpenSound ==
    /\ \A o \in OrderId : orders[o] # None => owner[o] \in Strategy
    /\ \A o \in OrderId : Active(o) => o \in open[owner[o]]
    /\ \A s \in Strategy : \A o \in open[s] : orders[o] # None /\ owner[o] = s
    /\ \A s \in Strategy : ~running[s] => open[s] = {}

RuntimeInv == Typed /\ OpenSound

\* The submits of one callback are done before the next one is made.
SubmitsFirst ==
    \A i, j \in 1..Len(work) : i < j /\ work[j].do = "submit" => work[i].do = "submit"

\* A quoting strategy has one quote per side at most, and none on a side for
\* which it is about to submit one.
OneQuotePerSide ==
    \A o, n \in OrderId :
        Active(o) /\ Active(n) /\ owner[o] = owner[n] /\ owner[o] \in Replacing
          /\ orders[o].side = orders[n].side => o = n

SidesFree ==
    \A i \in 1..Len(work) :
        work[i].do = "submit" /\ work[i].strategy \in Replacing =>
            /\ \A o \in OrderId : Active(o) /\ owner[o] = work[i].strategy =>
                  orders[o].side # work[i].intent.side
            /\ \A j \in 1..Len(work) :
                  j # i /\ work[j].do = "submit" /\ work[j].strategy = work[i].strategy =>
                     work[j].intent.side # work[i].intent.side

QuoteInv == SubmitsFirst /\ OneQuotePerSide /\ SidesFree

-----------------------------------------------------------------------------
(* The bus.                                                                *)

\* An order that becomes known takes nothing from what was on its way.
LEMMA MorePartiesKnown ==
    ASSUME NEW P, NEW R, P \subseteq R
    PROVE  /\ \A q \in Seq(BusEvent(P)) : q \in Seq(BusEvent(R))
           /\ \A w \in Seq(WorkItem(P)) : w \in Seq(WorkItem(R))
<1>1. BusEvent(P) \subseteq BusEvent(R)
  BY DEF BusEvent
<1>2. WorkItem(P) \subseteq WorkItem(R)
  BY DEF WorkItem
<1> HIDE DEF BusEvent, WorkItem
<1> QED BY <1>1, <1>2, SeqMonotonic

LEMMA EmitTyped ==
    ASSUME NEW P, NEW R, P \subseteq R, queue \in Seq(BusEvent(P)),
           Len(queue) <= QueueDepth, lossy \in BOOLEAN,
           NEW events \in Seq(BusEvent(R)), Emit(events)
    PROVE  /\ queue' \in Seq(BusEvent(R)) /\ Len(queue') <= QueueDepth
           /\ lossy' \in BOOLEAN
<1>1. queue \in Seq(BusEvent(R)) /\ QueueDepth \in Nat
  BY MorePartiesKnown, DepthAssumption
<1>2. queue' = Admitted(queue, events, QueueDepth) /\ lossy' \in BOOLEAN
  BY DEF Emit
<1> QED BY <1>1, <1>2, AdmittedType

\* Book updates are events whoever is known.
LEMMA UpdatesTyped ==
    ASSUME NEW P, NEW k \in Nat
    PROVE  /\ [i \in 1..k |-> BookUpdate[1]] \in Seq(BusEvent(P))
           /\ BookUpdate \in Seq(BusEvent(P)) /\ Len(BookUpdate) = 1
           /\ BookUpdate[1] = [type |-> "BOOK_UPDATE", of |-> None]
<1>1. /\ BookUpdate[1] = [type |-> "BOOK_UPDATE", of |-> None]
      /\ BookUpdate[1] \in BusEvent(P) /\ Len(BookUpdate) = 1
  BY DEF BookUpdate, BusEvent
<1>2. [i \in 1..k |-> BookUpdate[1]] \in Seq(BusEvent(P))
  BY <1>1, IsASeq
<1>3. BookUpdate \in Seq(BusEvent(P))
  BY DEF BookUpdate, BusEvent
<1> QED BY <1>1, <1>2, <1>3

\* The trades of a match in which finitely many makers were taken from.
LEMMA TradeEventsTyped ==
    ASSUME NEW P, NEW taken, IsFiniteSet(DOMAIN taken), DOMAIN taken \subseteq P,
           \A m \in DOMAIN taken : taken[m] \in Nat, NEW taker \in P
    PROVE  TradeEvents(taken, taker) \in Seq(BusEvent(P))
<1> DEFINE M == {m \in DOMAIN taken : taken[m] > 0}
           makers == SetToSeq(M)
           trade(i) == [type |-> "TRADE", of |-> [maker |-> makers[i], taker |-> taker,
                                                  quantity |-> taken[makers[i]]]]
<1>1. IsFiniteSet(M)
  BY FS_Subset
<1> HIDE DEF M
<1>2. makers \in Seq(M) /\ Len(makers) \in Nat
  BY <1>1, SetToSeqFacts, LenProperties
<1>3. \A i \in 1..Len(makers) : makers[i] \in M
  BY <1>2, ElementOfSeq
<1> HIDE DEF makers
<1>4. \A i \in 1..Len(makers) : trade(i) \in BusEvent(P)
  BY <1>3 DEF BusEvent, M
<1> HIDE DEF trade
<1>5. [i \in 1..Len(makers) |-> trade(i)] \in Seq(BusEvent(P))
  BY <1>2, <1>4, IsASeq
<1>6. BookUpdate \in Seq(BusEvent(P))
  BY UpdatesTyped
<1>7. [i \in 1..Len(makers) |-> trade(i)] \o BookUpdate \in Seq(BusEvent(P))
  BY <1>5, <1>6, ConcatProperties
<1>8. TradeEvents(taken, taker) = [i \in 1..Len(makers) |-> trade(i)] \o BookUpdate
  BY DEF TradeEvents, trade, makers, M
<1> QED BY <1>7, <1>8

-----------------------------------------------------------------------------
(* The exchange.                                                           *)

\* What no step does to an order that exists: it stays, on its side and with its
\* owner, and it never becomes active again.
Kept ==
    \A o \in Known : /\ o \in Known' /\ orders'[o].side = orders[o].side
                     /\ owner'[o] = owner[o]
                     /\ Active(o)' => Active(o)

\* An Order before its first event.
NewOrder == [side: Side, quantity: Nat, filled: {0}, status: {"PENDING"}]

LEMMA FilledOrder ==
    ASSUME NEW order \in OrderObject \union NewOrder, NEW q \in Nat,
           NEW residual \in {"OPEN", "CANCELLED"}
    PROVE  /\ Filled(order, q, residual) \in OrderObject
           /\ Filled(order, q, residual).side = order.side
<1>1. PICK st \in {"OPEN", "PARTIALLY_FILLED", "FILLED", "CANCELLED"} :
         Filled(order, q, residual) = [order EXCEPT !.filled = @ + q, !.status = st]
  BY DEF Filled
<1>2. order.filled + q \in Nat
  BY DEF OrderObject, NewOrder
<1>3. CASE order \in OrderObject
  BY <1>1, <1>2, <1>3 DEF OrderObject
<1>4. CASE order \in NewOrder
  BY <1>1, <1>2, <1>4 DEF OrderObject, NewOrder
<1> QED BY <1>3, <1>4

\* Who can be taken from.
LEMMA TakingsFacts ==
    ASSUME Typed, NEW side \in Side, NEW taken \in Takings(side)
    PROVE  /\ DOMAIN taken \subseteq Known /\ IsFiniteSet(DOMAIN taken)
           /\ \A m \in DOMAIN taken :
                 /\ taken[m] \in Nat /\ taken[m] <= Unfilled(m)
                 /\ Active(m) /\ orders[m].side = Opposite(side)
<1>1. DOMAIN taken = {o \in OrderId : Active(o) /\ orders[o].side = Opposite(side)}
      /\ \A m \in DOMAIN taken : taken[m] \in 0..MaxOrderSize /\ taken[m] <= Unfilled(m)
  BY DEF Takings
<1>2. DOMAIN taken \subseteq Known
  BY <1>1 DEF Known, Active
<1>3. IsFiniteSet(DOMAIN taken)
  BY <1>2, FS_Subset DEF Typed
<1>4. MaxOrderSize \in Nat
  BY LimitsAssumption
<1> QED BY <1>1, <1>2, <1>3, <1>4

\* The makers of a match.
LEMMA MakersAfterMatch ==
    ASSUME Typed, NEW side \in Side, NEW taken \in Takings(side), NEW o \in Known
    PROVE  LET after == IF o \in DOMAIN taken /\ taken[o] > 0
                        THEN Filled(orders[o], taken[o], "OPEN") ELSE orders[o]
           IN  /\ after \in OrderObject /\ after.side = orders[o].side
               /\ after.status \in {"OPEN", "PARTIALLY_FILLED"} => Active(o)
<1>1. orders[o] \in OrderObject /\ orders[o] # None
  BY DEF Typed, TypeOK, Known
<1>2. CASE o \in DOMAIN taken /\ taken[o] > 0
  <2>1. taken[o] \in Nat /\ Active(o)
    BY <1>2, TakingsFacts
  <2>2. /\ Filled(orders[o], taken[o], "OPEN") \in OrderObject
        /\ Filled(orders[o], taken[o], "OPEN").side = orders[o].side
    BY <1>1, <2>1, FilledOrder
  <2> QED BY <1>2, <2>1, <2>2
<1>3. CASE ~(o \in DOMAIN taken /\ taken[o] > 0)
  BY <1>1, <1>3 DEF Active
<1> QED BY <1>2, <1>3

\* _cancel_open_orders takes every order of the strategies out of the book, and
\* touches no other: what is active is among the open orders of its owner.
LEMMA CancelOpenEffect ==
    ASSUME RuntimeInv, NEW S \in SUBSET Strategy, CancelOpenOrders(S), owner' = owner
    PROVE  /\ orders' \in [OrderId -> OrderObject \union {None}]
           /\ Known' = Known /\ Kept
           /\ \A o \in OrderId : Active(o)' <=> (Active(o) /\ owner[o] \notin S)
           /\ open' = [s \in Strategy |-> IF s \in S THEN {} ELSE open[s]]
           /\ queue' \in Seq(BusEvent(Party)) /\ Len(queue') <= QueueDepth
           /\ lossy' \in BOOLEAN
           /\ \E k \in Nat : Emit([i \in 1..k |-> BookUpdate[1]])
<1> DEFINE gone == {o \in UNION {open[s] : s \in S} : Active(o)}
<1>1. /\ orders' = [o \in OrderId |-> IF o \in gone
                       THEN [orders[o] EXCEPT !.status = "CANCELLED"] ELSE orders[o]]
      /\ open' = [s \in Strategy |-> IF s \in S THEN {} ELSE open[s]]
      /\ Emit([i \in 1..Cardinality(gone) |-> BookUpdate[1]])
  BY DEF CancelOpenOrders
<1>2. \A o \in OrderId : o \in gone <=> (Active(o) /\ owner[o] \in S)
  <2> SUFFICES ASSUME NEW o \in OrderId, Active(o)
               PROVE  (\E s \in S : o \in open[s]) <=> owner[o] \in S
    OBVIOUS
  <2>1. o \in open[owner[o]] /\ \A s \in Strategy : o \in open[s] => owner[o] = s
    BY DEF RuntimeInv, OpenSound
  <2> QED BY <2>1
<1>3. gone \subseteq Known
  BY DEF Active, RuntimeInv, Typed, TypeOK, Known
<1>4. IsFiniteSet(gone)
  BY <1>3, FS_Subset DEF RuntimeInv, Typed
<1> HIDE DEF gone
<1>5. PICK k \in Nat : k = Cardinality(gone)
  BY <1>4, FS_CardinalityType
<1>6. Emit([i \in 1..k |-> BookUpdate[1]])
  BY <1>1, <1>5
<1>7. [i \in 1..k |-> BookUpdate[1]] \in Seq(BusEvent(Party))
  BY UpdatesTyped
<1>8. queue' \in Seq(BusEvent(Party)) /\ Len(queue') <= QueueDepth /\ lossy' \in BOOLEAN
  BY <1>6, <1>7, EmitTyped DEF RuntimeInv, Typed, TypeOK
<1>9. \A o \in OrderId : orders[o] \in OrderObject \union {None}
  BY DEF RuntimeInv, Typed, TypeOK
<1>10. \A o \in gone : /\ orders[o] \in OrderObject /\ orders'[o] \in OrderObject
                       /\ orders'[o].side = orders[o].side /\ orders'[o].status = "CANCELLED"
                       /\ orders[o] # None /\ orders'[o] # None
  <2> SUFFICES ASSUME NEW o \in gone
               PROVE  /\ orders[o] \in OrderObject /\ orders'[o] \in OrderObject
                      /\ orders'[o].side = orders[o].side /\ orders'[o].status = "CANCELLED"
                      /\ orders[o] # None /\ orders'[o] # None
    OBVIOUS
  <2>1. o \in OrderId /\ orders[o] # None /\ orders[o] \in OrderObject
    BY <1>3, <1>9 DEF Known
  <2>2. orders'[o] = [orders[o] EXCEPT !.status = "CANCELLED"]
    BY <1>1, <2>1
  <2>3. orders'[o] \in OrderObject /\ orders'[o].side = orders[o].side /\ orders'[o].status = "CANCELLED"
    BY <2>1, <2>2 DEF OrderObject
  <2>4. orders'[o] # None
    BY <2>3, NamesAssumption
  <2> QED BY <2>1, <2>3, <2>4
<1>11. \A o \in OrderId \ gone : orders'[o] = orders[o]
  BY <1>1
<1>12. orders' \in [OrderId -> OrderObject \union {None}]
  BY <1>1, <1>9, <1>10, <1>11
<1>13. Known' = Known
  BY <1>3, <1>10, <1>11 DEF Known
<1>14. \A o \in OrderId : Active(o)' <=> (Active(o) /\ owner[o] \notin S)
  BY <1>2, <1>10, <1>11 DEF Active
<1>15. Kept
  BY <1>10, <1>11, <1>13, <1>14 DEF Kept, Known
<1> QED BY <1>1, <1>6, <1>8, <1>12, <1>13, <1>14, <1>15

\* What the makers of a match lose is a number.
LEMMA TakenSums ==
    ASSUME NEW taken, IsFiniteSet(DOMAIN taken), \A m \in DOMAIN taken : taken[m] \in Nat,
           NEW side \in Side
    PROVE  /\ SumFunction(taken) \in Nat
           /\ \A t \in Strategy : NetOfMakers(taken, side)[t] \in Int
<1>1. SumFunction(taken) \in Nat
  BY SumNat DEF SumFunction
<1>2. ASSUME NEW t \in Strategy PROVE NetOfMakers(taken, side)[t] \in Int
  <2> DEFINE f == [m \in DOMAIN taken |->
                      IF m # Outside /\ owner[m] = t THEN Signed(side, taken[m]) ELSE 0]
  <2>1. NetOfMakers(taken, side)[t] = SumFunction(f)
    BY DEF NetOfMakers
  <2>2. DOMAIN f = DOMAIN taken /\ \A m \in DOMAIN taken : f[m] \in Int
    BY DEF Signed
  <2> HIDE DEF f
  <2>3. SumFunctionOnSet(f, DOMAIN taken) \in Int
    BY <2>2, SumSplit
  <2> QED BY <2>1, <2>2, <2>3 DEF SumFunction
<1> QED BY <1>1, <1>2

\* Another client trades with strategies.
LEMMA OutsideTradeEffect ==
    ASSUME RuntimeInv, NEW side \in Side, OutsideTrade(side)
    PROVE  /\ orders' \in [OrderId -> OrderObject \union {None}]
           /\ Known' = Known /\ Kept
           /\ queue' \in Seq(BusEvent(Party)) /\ Len(queue') <= QueueDepth
           /\ lossy' \in BOOLEAN
           /\ net' \in [Strategy -> Int]
<1>1. PICK taken \in Takings(side) :
         /\ orders' = [m \in OrderId |->
                          IF m \in DOMAIN taken /\ taken[m] > 0
                          THEN Filled(orders[m], taken[m], "OPEN") ELSE orders[m]]
         /\ Emit(TradeEvents(taken, Outside))
         /\ net' = [s \in Strategy |-> net[s] - NetOfMakers(taken, side)[s]]
  BY DEF OutsideTrade
<1>2. Typed /\ owner' = owner
  BY DEF RuntimeInv, OutsideTrade
<1>3. /\ DOMAIN taken \subseteq Known /\ IsFiniteSet(DOMAIN taken)
      /\ \A m \in DOMAIN taken : taken[m] \in Nat
  BY <1>2, TakingsFacts
<1>4. \A o \in Known : /\ o \in OrderId /\ orders'[o] \in OrderObject
                       /\ orders'[o].side = orders[o].side /\ (Active(o)' => Active(o))
  BY <1>1, <1>2, MakersAfterMatch DEF Active, Known
<1>5. \A o \in OrderId \ Known : orders'[o] = None
  BY <1>1, <1>3 DEF Known
<1>6. orders' \in [OrderId -> OrderObject \union {None}]
  BY <1>1, <1>4, <1>5
<1>7. Known' = Known /\ Kept
  BY <1>2, <1>4, <1>5, NamesAssumption DEF Known, Kept
<1>8. TradeEvents(taken, Outside) \in Seq(BusEvent(Party))
  <2>1. DOMAIN taken \subseteq Party /\ Outside \in Party
    BY <1>3 DEF Party
  <2> QED BY <1>3, <2>1, TradeEventsTyped
<1>9. queue' \in Seq(BusEvent(Party)) /\ Len(queue') <= QueueDepth /\ lossy' \in BOOLEAN
  BY <1>1, <1>2, <1>8, EmitTyped DEF Typed, TypeOK
<1>10. net' \in [Strategy -> Int]
  <2>1. \A t \in Strategy : NetOfMakers(taken, side)[t] \in Int
    BY <1>3, TakenSums
  <2>2. net \in [Strategy -> Int]
    BY <1>2 DEF Typed, TypeOK
  <2> QED BY <1>1, <2>1, <2>2
<1> QED BY <1>6, <1>7, <1>9, <1>10

\* An order of a strategy that is matched on arrival.  The makers of a match are
\* orders of strategies or the outside, and the trades name them and the order.
Matched(o, s, intent, resting, taken) ==
    /\ resting \in Takings(intent.side)
    /\ DOMAIN taken = DOMAIN resting \union {Outside}
    /\ \A m \in DOMAIN resting : taken[m] = resting[m]
    /\ taken[Outside] \in Nat
    /\ \E residual \in {"OPEN", "CANCELLED"} :
          orders' = [m \in OrderId |->
                       IF m = o
                       THEN Filled([side |-> intent.side, quantity |-> intent.quantity,
                                    filled |-> 0, status |-> "PENDING"],
                                   SumFunction(taken), residual)
                       ELSE IF m \in DOMAIN resting /\ resting[m] > 0
                       THEN Filled(orders[m], resting[m], "OPEN") ELSE orders[m]]
    /\ Emit(TradeEvents(taken, o))
    /\ net' = [t \in Strategy |-> net[t] - NetOfMakers(taken, intent.side)[t]
                  + (IF t = s THEN Signed(intent.side, SumFunction(taken)) ELSE 0)]

LEMMA GatewayMatched ==
    ASSUME Typed, NEW o \in OrderId, NEW s \in Strategy, NEW intent \in Intent,
           GatewayMatch(o, s, intent)
    PROVE  \E resting, taken : Matched(o, s, intent, resting, taken)
<1>1. PICK residual \in {"OPEN", "CANCELLED"}, resting \in Takings(intent.side),
           outside \in 0..intent.quantity :
         LET taken  == [m \in DOMAIN resting \union {Outside} |->
                           IF m = Outside THEN outside ELSE resting[m]]
             filled == SumFunction(taken)
             new    == [side |-> intent.side, quantity |-> intent.quantity,
                        filled |-> 0, status |-> "PENDING"]
         IN  /\ orders' = [m \in OrderId |->
                              IF m = o THEN Filled(new, filled, residual)
                              ELSE IF m \in DOMAIN resting /\ resting[m] > 0
                              THEN Filled(orders[m], resting[m], "OPEN") ELSE orders[m]]
             /\ Emit(TradeEvents(taken, o))
             /\ net' = [t \in Strategy |-> net[t] - NetOfMakers(taken, intent.side)[t]
                           + (IF t = s THEN Signed(intent.side, filled) ELSE 0)]
  BY DEF GatewayMatch
<1> DEFINE taken == [m \in DOMAIN resting \union {Outside} |->
                        IF m = Outside THEN outside ELSE resting[m]]
<1>2. intent.side \in Side /\ intent.quantity \in Nat
  BY DEF Intent
<1>3. Outside \notin DOMAIN resting
  BY <1>2, TakingsFacts, NamesAssumption DEF Known
<1>4. /\ DOMAIN taken = DOMAIN resting \union {Outside}
      /\ \A m \in DOMAIN resting : taken[m] = resting[m]
      /\ taken[Outside] \in Nat
  BY <1>2, <1>3
<1>5. /\ orders' = [m \in OrderId |->
                       IF m = o
                       THEN Filled([side |-> intent.side, quantity |-> intent.quantity,
                                    filled |-> 0, status |-> "PENDING"],
                                   SumFunction(taken), residual)
                       ELSE IF m \in DOMAIN resting /\ resting[m] > 0
                       THEN Filled(orders[m], resting[m], "OPEN") ELSE orders[m]]
      /\ Emit(TradeEvents(taken, o))
      /\ net' = [t \in Strategy |-> net[t] - NetOfMakers(taken, intent.side)[t]
                    + (IF t = s THEN Signed(intent.side, SumFunction(taken)) ELSE 0)]
  BY <1>1
<1> HIDE DEF taken
<1>6. Matched(o, s, intent, resting, taken)
  BY <1>4, <1>5 DEF Matched
<1> QED BY <1>6

\* The quantities of a match.
LEMMA MatchedFacts ==
    ASSUME Typed, NEW o \in OrderId, NEW s \in Strategy, NEW intent \in Intent,
           NEW resting, NEW taken, Matched(o, s, intent, resting, taken)
    PROVE  /\ DOMAIN taken \subseteq Party /\ IsFiniteSet(DOMAIN taken)
           /\ \A m \in DOMAIN taken : taken[m] \in Nat
           /\ \A m \in DOMAIN taken : m # Outside => m \in Known /\ orders[m].side = Opposite(intent.side)
           /\ SumFunction(taken) \in Nat
           /\ \A t \in Strategy : NetOfMakers(taken, intent.side)[t] \in Int
<1>1. /\ resting \in Takings(intent.side) /\ DOMAIN taken = DOMAIN resting \union {Outside}
      /\ \A m \in DOMAIN resting : taken[m] = resting[m]
      /\ taken[Outside] \in Nat
  BY DEF Matched
<1>2. intent.side \in Side
  BY DEF Intent
<1>3. /\ DOMAIN resting \subseteq Known /\ IsFiniteSet(DOMAIN resting)
      /\ \A m \in DOMAIN resting : resting[m] \in Nat /\ orders[m].side = Opposite(intent.side)
  BY <1>1, <1>2, TakingsFacts
<1>4. IsFiniteSet(DOMAIN taken)
  BY <1>1, <1>3, FS_AddElement
<1>5. \A m \in DOMAIN taken : taken[m] \in Nat
  BY <1>1, <1>3
<1> QED BY <1>1, <1>2, <1>3, <1>4, <1>5, TakenSums DEF Party

LEMMA MatchEffect ==
    ASSUME RuntimeInv, NEW o \in OrderId, orders[o] = None, NEW s \in Strategy,
           NEW intent \in Intent, owner' = [owner EXCEPT ![o] = s],
           GatewayMatch(o, s, intent)
    PROVE  /\ orders' \in [OrderId -> OrderObject \union {None}]
           /\ Known' = Known \union {o} /\ Kept
           /\ orders'[o].side = intent.side
           /\ queue' \in Seq(BusEvent(Party \union {o})) /\ Len(queue') <= QueueDepth
           /\ lossy' \in BOOLEAN
           /\ net' \in [Strategy -> Int]
<1>1. Typed
  BY DEF RuntimeInv
<1>2. PICK resting, taken : Matched(o, s, intent, resting, taken)
  BY <1>1, GatewayMatched
<1>3. PICK residual \in {"OPEN", "CANCELLED"} :
          orders' = [m \in OrderId |->
                       IF m = o
                       THEN Filled([side |-> intent.side, quantity |-> intent.quantity,
                                    filled |-> 0, status |-> "PENDING"],
                                   SumFunction(taken), residual)
                       ELSE IF m \in DOMAIN resting /\ resting[m] > 0
                       THEN Filled(orders[m], resting[m], "OPEN") ELSE orders[m]]
  BY <1>2 DEF Matched
<1>4. /\ resting \in Takings(intent.side) /\ Emit(TradeEvents(taken, o))
      /\ net' = [t \in Strategy |-> net[t] - NetOfMakers(taken, intent.side)[t]
                    + (IF t = s THEN Signed(intent.side, SumFunction(taken)) ELSE 0)]
  BY <1>2 DEF Matched
<1>5. /\ DOMAIN taken \subseteq Party /\ IsFiniteSet(DOMAIN taken)
      /\ \A m \in DOMAIN taken : taken[m] \in Nat
      /\ SumFunction(taken) \in Nat
      /\ \A t \in Strategy : NetOfMakers(taken, intent.side)[t] \in Int
  BY <1>1, <1>2, MatchedFacts
<1>6. intent.side \in Side /\ intent.quantity \in Nat
  BY DEF Intent
<1>7. orders'[o] \in OrderObject /\ orders'[o].side = intent.side
  <2> DEFINE new == [side |-> intent.side, quantity |-> intent.quantity,
                     filled |-> 0, status |-> "PENDING"]
  <2>1. new \in NewOrder /\ new.side = intent.side
    BY <1>6 DEF NewOrder
  <2>2. orders'[o] = Filled(new, SumFunction(taken), residual)
    BY <1>3
  <2> HIDE DEF new
  <2> QED BY <1>5, <2>1, <2>2, FilledOrder
<1>8. DOMAIN resting \subseteq Known
  BY <1>1, <1>4, <1>6, TakingsFacts
<1>9. \A n \in Known : /\ n \in OrderId /\ n # o /\ orders'[n] \in OrderObject
                       /\ orders'[n].side = orders[n].side /\ (Active(n)' => Active(n))
  BY <1>1, <1>3, <1>4, <1>6, MakersAfterMatch DEF Active, Known
<1>10. \A n \in OrderId \ (Known \union {o}) : orders'[n] = None
  BY <1>3, <1>8 DEF Known
<1>11. orders' \in [OrderId -> OrderObject \union {None}]
  BY <1>3, <1>7, <1>9, <1>10
<1>12. Known' = Known \union {o}
  BY <1>7, <1>9, <1>10, NamesAssumption DEF Known
<1>13. Kept
  <2>1. owner \in [OrderId -> Strategy \union {None}]
    BY <1>1 DEF Typed, TypeOK
  <2> QED BY <1>9, <1>12, <2>1 DEF Kept
<1>14. TradeEvents(taken, o) \in Seq(BusEvent(Party \union {o}))
  <2>1. DOMAIN taken \subseteq Party \union {o} /\ o \in Party \union {o}
    BY <1>5
  <2> QED BY <1>5, <2>1, TradeEventsTyped
<1>15. /\ queue' \in Seq(BusEvent(Party \union {o})) /\ Len(queue') <= QueueDepth
       /\ lossy' \in BOOLEAN
  <2>1. Party \subseteq Party \union {o}
    OBVIOUS
  <2> QED BY <1>1, <1>4, <1>14, <2>1, EmitTyped DEF Typed, TypeOK
<1>16. net' \in [Strategy -> Int]
  <2>1. Signed(intent.side, SumFunction(taken)) \in Int
    BY <1>5 DEF Signed
  <2>2. net \in [Strategy -> Int]
    BY <1>1 DEF Typed, TypeOK
  <2> QED BY <1>4, <1>5, <2>1, <2>2
<1> QED BY <1>7, <1>11, <1>12, <1>13, <1>15, <1>16

-----------------------------------------------------------------------------
(* The invariant, action by action.                                        *)

\* Everything of the invariant but the orders, the bus and the work.
OwnTyped ==
    /\ registered \in Seq(Strategy)
    /\ running \in [Strategy -> BOOLEAN]
    /\ position \in [Strategy -> Int]
    /\ owner \in [OrderId -> Strategy \union {None}]
    /\ open \in [Strategy -> SUBSET OrderId]
    /\ net \in [Strategy -> Int]

\* Nothing happens to the orders.
LEMMA OrdersUntouched ==
    ASSUME UNCHANGED <<orders, owner>>
    PROVE  Known' = Known /\ Party' = Party /\ \A o \in OrderId : Active(o)' <=> Active(o)
BY DEF Known, Party, Active

\* The head of work is done.
LEMMA WorkDone ==
    ASSUME Typed, work # <<>>
    PROVE  /\ Head(work) \in WorkItem(Party) /\ Tail(work) \in Seq(WorkItem(Party))
           /\ Head(work) = work[1]
           /\ Head(work).do = "on_fill" =>
                 Head(work) \in [do: {"on_fill"}, order: Party, quantity: Nat]
           /\ Head(work).do \in {"on_book_update", "on_trade"} => Head(work).strategy \in Strategy
           /\ Head(work).do = "submit" => Head(work).strategy \in Strategy /\ Head(work).intent \in Intent
<1>1. Head(work) \in WorkItem(Party) /\ Tail(work) \in Seq(WorkItem(Party)) /\ Head(work) = work[1]
  BY HeadTailProperties DEF Typed
<1> QED BY <1>1 DEF WorkItem

\* The callbacks of one round.
LEMMA CallsTyped ==
    ASSUME Typed, NEW callback \in {"on_book_update", "on_trade"}, NEW P
    PROVE  /\ Calls(callback) \in Seq(WorkItem(P)) /\ Len(Calls(callback)) = Len(registered)
           /\ \A i \in 1..Len(Calls(callback)) : Calls(callback)[i].do = callback
<1> DEFINE item(i) == [do |-> callback, strategy |-> registered[i]]
<1>1. Len(registered) \in Nat /\ \A i \in 1..Len(registered) : registered[i] \in Strategy
  BY ElementOfSeq, LenProperties DEF Typed, TypeOK
<1>2. \A i \in 1..Len(registered) : item(i) \in WorkItem(P) /\ item(i).do = callback
  BY <1>1 DEF WorkItem
<1>3. Calls(callback) = [i \in 1..Len(registered) |-> item(i)]
  BY DEF Calls
<1> HIDE DEF item
<1>4. Calls(callback) \in Seq(WorkItem(P))
  BY <1>1, <1>2, <1>3, IsASeq
<1>5. DOMAIN Calls(callback) = 1..Len(registered) /\ DOMAIN Calls(callback) = 1..Len(Calls(callback))
  BY <1>3, <1>4, LenProperties
<1>6. Len(Calls(callback)) = Len(registered)
  BY <1>1, <1>4, <1>5, LenProperties
<1> QED BY <1>2, <1>3, <1>4, <1>6

\* The orders a callback asks for.
LEMMA SubmitsTyped ==
    ASSUME NEW s \in Strategy, NEW proposals \in Seq(Intent), NEW P
    PROVE  /\ Submits(s, proposals) \in Seq(WorkItem(P))
           /\ Len(Submits(s, proposals)) = Len(proposals)
           /\ \A i \in 1..Len(proposals) :
                 /\ Submits(s, proposals)[i].do = "submit"
                 /\ Submits(s, proposals)[i].strategy = s
                 /\ Submits(s, proposals)[i].intent = proposals[i]
<1> DEFINE item(i) == [do |-> "submit", strategy |-> s, intent |-> proposals[i]]
<1>1. Len(proposals) \in Nat /\ \A i \in 1..Len(proposals) : proposals[i] \in Intent
  BY ElementOfSeq, LenProperties
<1>2. \A i \in 1..Len(proposals) : /\ item(i) \in WorkItem(P) /\ item(i).do = "submit"
                                   /\ item(i).strategy = s /\ item(i).intent = proposals[i]
  BY <1>1 DEF WorkItem
<1>3. Submits(s, proposals) = [i \in 1..Len(proposals) |-> item(i)]
  BY DEF Submits
<1> HIDE DEF item
<1>4. Submits(s, proposals) \in Seq(WorkItem(P))
  BY <1>1, <1>2, <1>3, IsASeq
<1>5. DOMAIN Submits(s, proposals) = 1..Len(proposals)
      /\ DOMAIN Submits(s, proposals) = 1..Len(Submits(s, proposals))
  BY <1>3, <1>4, LenProperties
<1>6. Len(Submits(s, proposals)) = Len(proposals)
  BY <1>1, <1>4, <1>5, LenProperties
<1> QED BY <1>2, <1>3, <1>4, <1>6

\* A market maker quotes at most one order per side.
LEMMA QuotesFacts ==
    ASSUME Typed, NEW s \in Strategy, NEW cheap \in Affordable
    PROVE  /\ Quotes(s, cheap) \in Seq(Intent)
           /\ \A i, j \in 1..Len(Quotes(s, cheap)) :
                 Quotes(s, cheap)[i].side = Quotes(s, cheap)[j].side => i = j
<1> DEFINE bid == [side |-> "BUY", quantity |-> MaxOrderSize, own |-> TRUE, cheap |-> cheap["BUY"]]
           ask == [side |-> "SELL", quantity |-> MaxOrderSize, own |-> TRUE, cheap |-> cheap["SELL"]]
<1>1. bid \in Intent /\ ask \in Intent /\ bid.side = "BUY" /\ ask.side = "SELL"
  BY LimitsAssumption DEF Affordable, Intent, Side
<1>2. Quotes(s, cheap) \in {<<>>, <<bid>>, <<ask>>, <<bid, ask>>}
  <2>1. Quotes(s, cheap) = (IF position[s] < MaxPosition THEN <<bid>> ELSE <<>>)
                             \o (IF position[s] > -MaxPosition THEN <<ask>> ELSE <<>>)
    BY DEF Quotes
  <2> HIDE DEF bid, ask
  <2>2. <<bid>> \in Seq(Intent) /\ <<ask>> \in Seq(Intent) /\ <<>> \in Seq(Intent)
    BY <1>1 DEF bid, ask
  <2>3. <<>> \o <<>> = <<>> /\ <<bid>> \o <<>> = <<bid>> /\ <<>> \o <<ask>> = <<ask>>
    BY <2>2, ConcatEmptySeq
  <2>4. <<bid>> \o <<ask>> = <<bid, ask>>
    <3>1. /\ Len(<<bid>>) = 1 /\ Len(<<ask>>) = 1 /\ <<bid>>[1] = bid /\ <<ask>>[1] = ask
          /\ Len(<<bid, ask>>) = 2 /\ <<bid, ask>>[1] = bid /\ <<bid, ask>>[2] = ask
      OBVIOUS
    <3>2. <<bid, ask>> \in Seq(Intent)
      BY <1>1 DEF bid, ask
    <3> DEFINE both == <<bid>> \o <<ask>>
    <3>3. both \in Seq(Intent) /\ Len(both) = 2
      BY <2>2, <3>1, ConcatProperties
    <3>4. both[1] = bid /\ both[2] = ask
      BY <2>2, <3>1, ConcatProperties
    <3> HIDE DEF both
    <3>5. Len(both) = Len(<<bid, ask>>) /\ \A i \in 1..Len(both) : both[i] = <<bid, ask>>[i]
      BY <3>1, <3>3, <3>4
    <3>6. both = <<bid, ask>>
      BY <3>2, <3>3, <3>5, SeqEqual
    <3> QED BY <3>6 DEF both
  <2> QED BY <2>1, <2>3, <2>4
<1> HIDE DEF bid, ask
<1>3. CASE Quotes(s, cheap) = <<>>
  BY <1>3
<1>4. ASSUME NEW q \in {bid, ask}, Quotes(s, cheap) = <<q>>
      PROVE  /\ Quotes(s, cheap) \in Seq(Intent)
             /\ \A i, j \in 1..Len(Quotes(s, cheap)) : i = j
  <2>1. <<q>> \in Seq(Intent) /\ Len(<<q>>) = 1
    BY <1>1
  <2> QED BY <1>4, <2>1
<1>5. CASE Quotes(s, cheap) = <<bid, ask>>
  BY <1>1, <1>5
<1> QED BY <1>2, <1>3, <1>4, <1>5

LEMMA ReturnsTyped ==
    ASSUME Typed, NEW s \in Strategy, NEW callback, NEW proposals \in Returns(s, callback)
    PROVE  proposals \in Seq(Intent)
BY QuotesFacts, ProposalsAssumption, EmptySeq DEF Returns

\* Steps that leave the orders and the bus alone and start strategies at most.
LEMMA OwnStepInv ==
    ASSUME RuntimeInv, UNCHANGED <<orders, owner, queue, lossy, net>>,
           registered' \in Seq(Strategy), running' \in [Strategy -> BOOLEAN],
           \A s \in Strategy : running[s] => running'[s],
           position' \in [Strategy -> Int], work' \in Seq(WorkItem(Party)),
           open' = open
    PROVE  RuntimeInv'
<1>1. Known' = Known /\ Party' = Party /\ \A o \in OrderId : Active(o)' <=> Active(o)
  BY OrdersUntouched
<1>2. Typed'
  BY <1>1 DEF RuntimeInv, Typed, TypeOK
<1>3. OpenSound'
  BY <1>1 DEF RuntimeInv, OpenSound
<1> QED BY <1>2, <1>3 DEF RuntimeInv

\* Open orders are cancelled, and their strategies possibly stopped.
LEMMA CancelOpenInv ==
    ASSUME RuntimeInv, NEW S \in SUBSET Strategy, CancelOpenOrders(S),
           UNCHANGED <<registered, owner, position, net>>,
           running' = running \/ Halt(S), work' \in Seq(WorkItem(Party))
    PROVE  RuntimeInv'
<1>1. /\ orders' \in [OrderId -> OrderObject \union {None}]
      /\ Known' = Known /\ Kept
      /\ \A o \in OrderId : Active(o)' <=> (Active(o) /\ owner[o] \notin S)
      /\ open' = [s \in Strategy |-> IF s \in S THEN {} ELSE open[s]]
      /\ queue' \in Seq(BusEvent(Party)) /\ Len(queue') <= QueueDepth
      /\ lossy' \in BOOLEAN
  BY CancelOpenEffect
<1>2. Party' = Party
  BY <1>1 DEF Party
<1>3. /\ OwnTyped' /\ \A s \in Strategy : running'[s] => running[s]
      /\ \A s \in Strategy : ~running'[s] => ~running[s] \/ s \in S
  BY <1>1 DEF OwnTyped, RuntimeInv, Typed, TypeOK, Halt
<1>4. Typed'
  <2>1. IsFiniteSet(Known')
    BY <1>1 DEF RuntimeInv, Typed
  <2>2. queue' \in Seq(BusEvent(Party')) /\ work' \in Seq(WorkItem(Party'))
    BY <1>1, <1>2
  <2> QED BY <1>1, <1>3, <2>1, <2>2 DEF Typed, TypeOK, OwnTyped
<1>5. OpenSound'
  <2>1. \A o \in OrderId : orders'[o] # None <=> orders[o] # None
    BY <1>1 DEF Known
  <2>2. \A o \in OrderId : orders'[o] # None => owner'[o] \in Strategy
    BY <2>1 DEF RuntimeInv, OpenSound
  <2>3. \A o \in OrderId : Active(o)' => o \in open'[owner'[o]]
    <3>1. \A o \in OrderId : Active(o)' => orders[o] # None
      BY <2>1 DEF Active
    <3> QED BY <1>1, <3>1 DEF RuntimeInv, OpenSound
  <2>4. \A s \in Strategy : \A o \in open'[s] : orders'[o] # None /\ owner'[o] = s
    BY <1>1, <2>1 DEF RuntimeInv, OpenSound, Typed, TypeOK
  <2>5. \A s \in Strategy : ~running'[s] => open'[s] = {}
    BY <1>1, <1>3 DEF RuntimeInv, OpenSound
  <2> QED BY <2>2, <2>3, <2>4, <2>5 DEF OpenSound
<1> QED BY <1>4, <1>5 DEF RuntimeInv

\* Other clients trade with the orders that exist, or change the book.
LEMMA ExchangeStepInv ==
    ASSUME RuntimeInv, UNCHANGED <<registered, running, position, owner, open, work>>,
           orders' \in [OrderId -> OrderObject \union {None}], Known' = Known, Kept,
           queue' \in Seq(BusEvent(Party)), Len(queue') <= QueueDepth,
           lossy' \in BOOLEAN, net' \in [Strategy -> Int]
    PROVE  RuntimeInv'
<1>1. Party' = Party
  BY DEF Party
<1>2. Typed'
  <2>1. IsFiniteSet(Known') /\ OwnTyped'
    BY DEF RuntimeInv, Typed, TypeOK, OwnTyped
  <2>2. queue' \in Seq(BusEvent(Party')) /\ work' \in Seq(WorkItem(Party'))
    BY <1>1 DEF RuntimeInv, Typed
  <2> QED BY <2>1, <2>2 DEF Typed, TypeOK, OwnTyped
<1>3. \A o \in OrderId : orders'[o] # None <=> orders[o] # None
  BY DEF Known
<1>4. \A o \in OrderId : Active(o)' => Active(o)
  BY <1>3 DEF Kept, Known, Active
<1>5. OpenSound'
  BY <1>3, <1>4 DEF RuntimeInv, OpenSound, Typed, TypeOK
<1> QED BY <1>2, <1>5 DEF RuntimeInv

\* A client cancels an order of a strategy.
LEMMA OutsideCancelEffect ==
    ASSUME RuntimeInv, NEW o \in OrderId, OutsideCancel(o)
    PROVE  /\ orders' \in [OrderId -> OrderObject \union {None}]
           /\ Known' = Known /\ Kept
           /\ queue' \in Seq(BusEvent(Party)) /\ Len(queue') <= QueueDepth
           /\ lossy' \in BOOLEAN /\ Emit(BookUpdate)
<1>1. Active(o) /\ orders' = [orders EXCEPT ![o].status = "CANCELLED"] /\ Emit(BookUpdate)
      /\ owner' = owner
  BY DEF OutsideCancel
<1>2. /\ Typed /\ orders \in [OrderId -> OrderObject \union {None}]
      /\ orders[o] # None /\ orders[o] \in OrderObject
  BY <1>1 DEF RuntimeInv, Typed, TypeOK, Active
<1>3. orders'[o] = [orders[o] EXCEPT !.status = "CANCELLED"]
      /\ \A n \in OrderId \ {o} : orders'[n] = orders[n]
  BY <1>1, <1>2
<1>4. /\ orders'[o] \in OrderObject /\ orders'[o].side = orders[o].side
      /\ orders'[o].status = "CANCELLED"
  BY <1>2, <1>3 DEF OrderObject
<1>5. orders'[o] # None
  BY <1>4, NamesAssumption
<1>6. orders' \in [OrderId -> OrderObject \union {None}]
  <2>1. \A n \in OrderId : orders'[n] \in OrderObject \union {None}
    BY <1>2, <1>3, <1>4
  <2> QED BY <1>1, <1>2, <2>1
<1>7. Known' = Known
  BY <1>2, <1>3, <1>5 DEF Known
<1>8. Kept
  BY <1>1, <1>3, <1>4, <1>7 DEF Kept, Known, Active
<1>9. BookUpdate \in Seq(BusEvent(Party))
  BY UpdatesTyped
<1>10. queue' \in Seq(BusEvent(Party)) /\ Len(queue') <= QueueDepth /\ lossy' \in BOOLEAN
  BY <1>1, <1>2, <1>9, EmitTyped DEF Typed, TypeOK
<1> QED BY <1>1, <1>6, <1>7, <1>8, <1>10

\* The fills of one trade, as work.
FillItems(trade) ==
    [i \in 1..Len(Parties(trade)) |->
        [do |-> "on_fill", order |-> Parties(trade)[i], quantity |-> trade.quantity]]

LEMMA FillItemsTyped ==
    ASSUME NEW P, NEW trade \in [maker: P, taker: P, quantity: Nat]
    PROVE  /\ FillItems(trade) \in Seq(WorkItem(P)) /\ Len(FillItems(trade)) = 2
           /\ FillItems(trade)[1] = [do |-> "on_fill", order |-> trade.maker,
                                     quantity |-> trade.quantity]
           /\ FillItems(trade)[2] = [do |-> "on_fill", order |-> trade.taker,
                                     quantity |-> trade.quantity]
<1> DEFINE item(i) == [do |-> "on_fill", order |-> Parties(trade)[i], quantity |-> trade.quantity]
<1>1. Len(Parties(trade)) = 2 /\ Parties(trade)[1] = trade.maker /\ Parties(trade)[2] = trade.taker
  BY DEF Parties
<1>2. \A i \in 1..2 : item(i) \in WorkItem(P)
  BY <1>1 DEF WorkItem
<1>3. /\ item(1) = [do |-> "on_fill", order |-> trade.maker, quantity |-> trade.quantity]
      /\ item(2) = [do |-> "on_fill", order |-> trade.taker, quantity |-> trade.quantity]
  BY <1>1
<1>4. FillItems(trade) = [i \in 1..2 |-> item(i)]
  BY <1>1 DEF FillItems
<1> HIDE DEF item
<1>5. FillItems(trade) \in Seq(WorkItem(P))
  BY <1>2, <1>4, IsASeq
<1>6. Len(FillItems(trade)) = 2
  <2>1. DOMAIN FillItems(trade) = 1..2 /\ DOMAIN FillItems(trade) = 1..Len(FillItems(trade))
        /\ Len(FillItems(trade)) \in Nat
    BY <1>4, <1>5, LenProperties
  <2> QED BY <2>1
<1> QED BY <1>3, <1>4, <1>5, <1>6

\* One event becomes work.
LEMMA ProcessEventEffect ==
    ASSUME Typed, ProcessEvent
    PROVE  /\ work = <<>> /\ queue # <<>> /\ queue' = Tail(queue)
           /\ queue' \in Seq(BusEvent(Party)) /\ Len(queue') <= QueueDepth
           /\ work' \in Seq(WorkItem(Party))
           /\ \A i \in 1..Len(work') : work'[i].do # "submit"
           /\ Head(queue).type # "TRADE" => work' = Calls("on_book_update")
           /\ Head(queue).type = "TRADE" =>
                 /\ Head(queue).of \in [maker: Party, taker: Party, quantity: Nat]
                 /\ work' = FillItems(Head(queue).of) \o Calls("on_trade")
<1> DEFINE e == Head(queue)
<1>1. /\ work = <<>> /\ queue # <<>> /\ queue' = Tail(queue)
      /\ work' = IF e.type = "BOOK_UPDATE" THEN Calls("on_book_update")
                 ELSE FillItems(e.of) \o Calls("on_trade")
  BY DEF ProcessEvent, FillItems
<1>2. queue \in Seq(BusEvent(Party)) /\ Len(queue) <= QueueDepth /\ QueueDepth \in Nat
  BY DepthAssumption DEF Typed, TypeOK
<1>3. /\ e \in BusEvent(Party) /\ queue' \in Seq(BusEvent(Party))
      /\ Len(queue') = Len(queue) - 1 /\ Len(queue) \in Nat
  BY <1>1, <1>2, HeadTailProperties, LenProperties
<1>4. Len(queue') <= QueueDepth
  BY <1>2, <1>3
<1>5. CASE e.type # "TRADE"
  <2>1. e.type = "BOOK_UPDATE"
    BY <1>3, <1>5 DEF BusEvent
  <2>2. work' = Calls("on_book_update")
    BY <1>1, <2>1
  <2>3. /\ Calls("on_book_update") \in Seq(WorkItem(Party))
        /\ \A i \in 1..Len(Calls("on_book_update")) : Calls("on_book_update")[i].do = "on_book_update"
    BY CallsTyped
  <2> QED BY <1>1, <1>3, <1>4, <1>5, <2>2, <2>3
<1>6. CASE e.type = "TRADE"
  <2> DEFINE fills == FillItems(e.of)
             calls == Calls("on_trade")
  <2>1. e.of \in [maker: Party, taker: Party, quantity: Nat]
    BY <1>3, <1>6 DEF BusEvent
  <2>2. work' = fills \o calls
    BY <1>1, <1>6
  <2>3. /\ fills \in Seq(WorkItem(Party)) /\ Len(fills) = 2
        /\ fills[1].do = "on_fill" /\ fills[2].do = "on_fill"
    <3>1. /\ fills \in Seq(WorkItem(Party)) /\ Len(fills) = 2
          /\ fills[1] = [do |-> "on_fill", order |-> e.of.maker, quantity |-> e.of.quantity]
          /\ fills[2] = [do |-> "on_fill", order |-> e.of.taker, quantity |-> e.of.quantity]
      <4> HIDE DEF e
      <4> QED BY <2>1, FillItemsTyped
    <3> HIDE DEF e, fills
    <3> QED BY <3>1
  <2>4. /\ calls \in Seq(WorkItem(Party)) /\ Len(calls) \in Nat
        /\ \A i \in 1..Len(calls) : calls[i].do = "on_trade"
    BY CallsTyped, LenProperties
  <2> HIDE DEF fills, calls
  <2>5. work' \in Seq(WorkItem(Party)) /\ Len(work') = 2 + Len(calls)
    <3>1. fills \in Seq(WorkItem(Party)) /\ calls \in Seq(WorkItem(Party)) /\ Len(fills) = 2
      BY <2>3, <2>4
    <3>2. /\ fills \o calls \in Seq(WorkItem(Party))
          /\ Len(fills \o calls) = Len(fills) + Len(calls)
      BY ONLY <3>1, ConcatProperties
    <3> QED BY <2>2, <3>1, <3>2
  <2>6. \A i \in 1..Len(work') : work'[i].do # "submit"
    <3> SUFFICES ASSUME NEW i \in 1..(2 + Len(calls)) PROVE work'[i].do # "submit"
      BY <2>5
    <3>1. work'[i] = IF i <= 2 THEN fills[i] ELSE calls[i - 2]
      <4>1. i \in 1..(Len(fills) + Len(calls))
        BY <2>3
      <4>2. work'[i] = IF i <= Len(fills) THEN fills[i] ELSE calls[i - Len(fills)]
        BY <2>2, <2>3, <2>4, <4>1, ConcatProperties
      <4> QED BY <2>3, <4>2
    <3>2. CASE i <= 2
      <4>1. i = 1 \/ i = 2
        BY <3>2
      <4> QED BY <2>3, <3>1, <3>2, <4>1
    <3>3. CASE ~(i <= 2)
      <4>1. i - 2 \in 1..Len(calls)
        BY <2>4, <3>3
      <4> QED BY <2>4, <3>1, <3>3, <4>1
    <3> QED BY <3>2, <3>3
  <2> QED BY <1>1, <1>3, <1>4, <1>6, <2>1, <2>2, <2>5, <2>6 DEF fills, calls
<1> QED BY <1>5, <1>6

\* A fill is booked.
LEMMA OnFillInv ==
    ASSUME RuntimeInv, OnFill
    PROVE  RuntimeInv'
<1> DEFINE item == Head(work)
           o == item.order
<1>1. /\ work # <<>> /\ item.do = "on_fill" /\ work' = Tail(work)
      /\ IF o # Outside /\ owner[o] # None
         THEN /\ position' = [position EXCEPT ![owner[o]] = @ + Signed(orders[o].side, item.quantity)]
              /\ open' = [open EXCEPT ![owner[o]] = IF StaysOpen(o) THEN @ ELSE @ \ {o}]
         ELSE UNCHANGED <<position, open>>
      /\ UNCHANGED <<registered, running, owner, orders, queue, lossy, net>>
  BY DEF OnFill, strategyVars, exchangeVars
<1>2. /\ Typed /\ work' \in Seq(WorkItem(Party))
      /\ item \in [do: {"on_fill"}, order: Party, quantity: Nat]
  BY <1>1, WorkDone DEF RuntimeInv
<1>3. Known' = Known /\ Party' = Party /\ \A n \in OrderId : Active(n)' <=> Active(n)
  BY <1>1, OrdersUntouched
<1>4. CASE ~(o # Outside /\ owner[o] # None)
  <2>1. UNCHANGED <<position, open>>
    BY <1>1, <1>4
  <2> QED BY <1>1, <1>2, <2>1, OwnStepInv DEF Typed, TypeOK
<1>5. CASE o # Outside /\ owner[o] # None
  <2>1. o \in Known /\ item.quantity \in Nat
    BY <1>2, <1>5 DEF Party
  <2>2. /\ o \in OrderId /\ orders[o] \in OrderObject /\ owner[o] \in Strategy
    BY <1>2, <2>1, NamesAssumption DEF Known, Typed, TypeOK, RuntimeInv, OpenSound
  <2>3. position' \in [Strategy -> Int]
    <3>1. Signed(orders[o].side, item.quantity) \in Int
      BY <2>1 DEF Signed
    <3>2. position \in [Strategy -> Int]
      BY <1>2 DEF Typed, TypeOK
    <3>3. position' = [position EXCEPT ![owner[o]] = @ + Signed(orders[o].side, item.quantity)]
      BY <1>1, <1>5
    <3> HIDE DEF o, item
    <3> QED BY <2>2, <3>1, <3>2, <3>3
  <2> HIDE DEF o, item
  <2>4. open' = [open EXCEPT ![owner[o]] = IF Active(o) THEN @ ELSE @ \ {o}]
    BY <1>1, <1>5 DEF StaysOpen
  <2>5. open \in [Strategy -> SUBSET OrderId]
    BY <1>2 DEF Typed, TypeOK
  <2>6. /\ open' \in [Strategy -> SUBSET OrderId]
        /\ \A s \in Strategy : open'[s] \subseteq open[s]
        /\ \A s \in Strategy : \A n \in open[s] : n \in open'[s] \/ (n = o /\ ~Active(o))
    <3>1. /\ \A s \in Strategy : s # owner[o] => open'[s] = open[s]
          /\ open'[owner[o]] = IF Active(o) THEN open[owner[o]] ELSE open[owner[o]] \ {o}
          /\ open' \in [Strategy -> SUBSET OrderId]
      BY <2>2, <2>4, <2>5
    <3>2. ASSUME NEW s \in Strategy
          PROVE  /\ open'[s] \subseteq open[s]
                 /\ \A n \in open[s] : n \in open'[s] \/ (n = o /\ ~Active(o))
      <4>1. CASE s # owner[o] \/ Active(o)
        <5>1. open'[s] = open[s]
          BY <3>1, <4>1
        <5> QED BY <5>1
      <4>2. CASE s = owner[o] /\ ~Active(o)
        <5>1. open'[s] = open[s] \ {o}
          BY <3>1, <4>2
        <5> QED BY <4>2, <5>1
      <4> QED BY <4>1, <4>2
    <3> QED BY <3>1, <3>2
  <2>7. Typed'
    <3>1. IsFiniteSet(Known') /\ work' \in Seq(WorkItem(Party')) /\ queue' \in Seq(BusEvent(Party'))
      BY <1>1, <1>2, <1>3 DEF Typed
    <3> QED BY <1>1, <1>2, <2>3, <2>6, <3>1 DEF Typed, TypeOK
  <2>8. OpenSound'
    <3>1. \A n \in OrderId : Active(n)' => n \in open'[owner'[n]]
      <4> SUFFICES ASSUME NEW n \in OrderId, Active(n) PROVE n \in open'[owner[n]]
        BY <1>1, <1>3
      <4>1. n \in open[owner[n]] /\ owner[n] \in Strategy
        BY DEF RuntimeInv, OpenSound, Active
      <4> QED BY <2>6, <4>1
    <3>2. \A s \in Strategy : \A n \in open'[s] : orders'[n] # None /\ owner'[n] = s
      BY <1>1, <2>6 DEF RuntimeInv, OpenSound
    <3>3. \A s \in Strategy : ~running'[s] => open'[s] = {}
      BY <1>1, <2>6 DEF RuntimeInv, OpenSound
    <3>4. \A n \in OrderId : orders'[n] # None => owner'[n] \in Strategy
      BY <1>1 DEF RuntimeInv, OpenSound
    <3> QED BY <3>1, <3>2, <3>3, <3>4 DEF OpenSound
  <2> QED BY <2>7, <2>8 DEF RuntimeInv
<1> QED BY <1>4, <1>5

\* An order is registered with its owner, then sent.
LEMMA SubmitEffect ==
    ASSUME RuntimeInv, NEW o \in OrderId, SubmitProposal(o)
    PROVE  LET s == Head(work).strategy
               intent == Head(work).intent
           IN  /\ work # <<>> /\ Head(work).do = "submit" /\ work' = Tail(work)
               /\ s \in Strategy /\ intent \in Intent /\ orders[o] = None
               /\ running[s]
               /\ UNCHANGED <<registered, running, position, updates>>
               /\ owner' = [owner EXCEPT ![o] = s]
               /\ open' = [open EXCEPT ![s] = @ \union {o}]
               /\ orders' \in [OrderId -> OrderObject \union {None}]
               /\ Known' = Known \union {o} /\ Kept
               /\ orders'[o].side = intent.side
               /\ queue' \in Seq(BusEvent(Party \union {o})) /\ Len(queue') <= QueueDepth
               /\ lossy' \in BOOLEAN
               /\ net' \in [Strategy -> Int]
<1> DEFINE s == Head(work).strategy
           intent == Head(work).intent
<1>1. /\ work # <<>> /\ Head(work).do = "submit" /\ work' = Tail(work)
      /\ orders[o] = None /\ running[s]
      /\ UNCHANGED <<registered, running, position, updates>>
      /\ owner' = [owner EXCEPT ![o] = s]
      /\ open' = [open EXCEPT ![s] = @ \union {o}]
      /\ GatewayMatch(o, s, intent) \/ GatewayReject(o, intent)
  BY DEF SubmitProposal, Accepted, strategyVars
<1>2. Typed /\ s \in Strategy /\ intent \in Intent
  BY <1>1, WorkDone DEF RuntimeInv
<1> HIDE DEF s, intent
<1>3. CASE GatewayMatch(o, s, intent)
  BY <1>1, <1>2, <1>3, MatchEffect DEF s, intent
<1>4. CASE GatewayReject(o, intent)
  <2> DEFINE rejected == [side |-> intent.side, quantity |-> intent.quantity,
                          filled |-> 0, status |-> "REJECTED"]
  <2>1. orders' = [orders EXCEPT ![o] = rejected] /\ UNCHANGED <<queue, lossy, net>>
    BY <1>4 DEF GatewayReject
  <2>2. /\ rejected \in OrderObject /\ rejected.side = intent.side
        /\ ~(rejected.status \in {"OPEN", "PARTIALLY_FILLED"})
    BY <1>2 DEF Intent, OrderObject
  <2> HIDE DEF rejected
  <2>3. /\ orders \in [OrderId -> OrderObject \union {None}]
        /\ owner \in [OrderId -> Strategy \union {None}]
        /\ queue \in Seq(BusEvent(Party)) /\ Len(queue) <= QueueDepth /\ lossy \in BOOLEAN
        /\ net \in [Strategy -> Int]
    BY <1>2 DEF Typed, TypeOK
  <2>4. orders'[o] = rejected /\ \A n \in OrderId \ {o} : orders'[n] = orders[n]
    BY <2>1, <2>3
  <2>5. orders' \in [OrderId -> OrderObject \union {None}]
    BY <2>1, <2>2, <2>3
  <2>6. Known' = Known \union {o}
    BY <2>2, <2>4, NamesAssumption DEF Known
  <2>7. Kept
    BY <1>1, <2>3, <2>4, <2>6 DEF Kept, Known, Active
  <2>8. queue' \in Seq(BusEvent(Party \union {o})) /\ Len(queue') <= QueueDepth
    <3>1. Party \subseteq Party \union {o}
      OBVIOUS
    <3> QED BY <2>1, <2>3, <3>1, MorePartiesKnown
  <2> QED BY <1>1, <1>2, <2>1, <2>2, <2>3, <2>4, <2>5, <2>6, <2>7, <2>8 DEF s, intent
<1> QED BY <1>1, <1>3, <1>4

LEMMA SubmitInv ==
    ASSUME RuntimeInv, NEW o \in OrderId, SubmitProposal(o)
    PROVE  RuntimeInv'
<1> DEFINE s == Head(work).strategy
           intent == Head(work).intent
<1>1. /\ work # <<>> /\ work' = Tail(work)
      /\ s \in Strategy /\ intent \in Intent /\ orders[o] = None
      /\ running[s]
      /\ UNCHANGED <<registered, running, position, updates>>
      /\ owner' = [owner EXCEPT ![o] = s]
      /\ open' = [open EXCEPT ![s] = @ \union {o}]
      /\ orders' \in [OrderId -> OrderObject \union {None}]
      /\ Known' = Known \union {o} /\ Kept
      /\ queue' \in Seq(BusEvent(Party \union {o})) /\ Len(queue') <= QueueDepth
      /\ lossy' \in BOOLEAN
      /\ net' \in [Strategy -> Int]
  BY SubmitEffect
<1> HIDE DEF s, intent
<1>2. Typed /\ Tail(work) \in Seq(WorkItem(Party))
  BY <1>1, WorkDone DEF RuntimeInv
<1>3. Party' = Party \union {o} /\ Party \subseteq Party \union {o}
  BY <1>1 DEF Party
<1>4. IsFiniteSet(Known')
  BY <1>1, <1>2, FS_AddElement DEF Typed
<1>5. queue' \in Seq(BusEvent(Party')) /\ work' \in Seq(WorkItem(Party'))
  BY <1>1, <1>2, <1>3, MorePartiesKnown
<1>6. /\ owner \in [OrderId -> Strategy \union {None}] /\ open \in [Strategy -> SUBSET OrderId]
      /\ registered \in Seq(Strategy) /\ running \in [Strategy -> BOOLEAN]
      /\ position \in [Strategy -> Int]
  BY <1>2 DEF Typed, TypeOK
<1>7. owner' \in [OrderId -> Strategy \union {None}] /\ open' \in [Strategy -> SUBSET OrderId]
  BY <1>1, <1>6
<1>8. Typed'
  BY <1>1, <1>4, <1>5, <1>6, <1>7 DEF Typed, TypeOK
<1>9. /\ owner'[o] = s /\ \A n \in OrderId \ {o} : owner'[n] = owner[n]
      /\ open'[s] = open[s] \union {o} /\ \A t \in Strategy \ {s} : open'[t] = open[t]
  BY <1>1, <1>6
<1>10. \A n \in OrderId : orders'[n] # None <=> (orders[n] # None \/ n = o)
  BY <1>1 DEF Known
<1>11. \A n \in OrderId : orders'[n] # None => owner'[n] \in Strategy
  BY <1>1, <1>9, <1>10 DEF RuntimeInv, OpenSound
<1>12. \A n \in OrderId : Active(n)' => n \in open'[owner'[n]]
  <2> SUFFICES ASSUME NEW n \in OrderId, Active(n)', n # o PROVE n \in open'[owner'[n]]
    BY <1>9
  <2>1. n \in Known
    BY <1>10 DEF Active, Known
  <2>2. Active(n) /\ owner[n] \in Strategy /\ n \in open[owner[n]]
    BY <1>1, <2>1 DEF Kept, RuntimeInv, OpenSound, Known
  <2> QED BY <1>9, <2>2
<1>13. \A t \in Strategy : \A n \in open'[t] : orders'[n] # None /\ owner'[n] = t
  <2> SUFFICES ASSUME NEW t \in Strategy, NEW n \in open'[t]
               PROVE  orders'[n] # None /\ owner'[n] = t
    OBVIOUS
  <2>1. n \in OrderId
    BY <1>7
  <2>2. CASE n = o
    <3>1. o \notin open[t]
      BY <1>1 DEF RuntimeInv, OpenSound
    <3> QED BY <1>9, <1>10, <2>2, <3>1
  <2>3. CASE n # o
    <3>1. n \in open[t]
      BY <1>9, <2>3
    <3> QED BY <1>9, <1>10, <2>1, <2>3, <3>1 DEF RuntimeInv, OpenSound
  <2> QED BY <2>2, <2>3
<1>14. \A t \in Strategy : ~running'[t] => open'[t] = {}
  BY <1>1, <1>9 DEF RuntimeInv, OpenSound
<1> QED BY <1>8, <1>11, <1>12, <1>13, <1>14 DEF RuntimeInv, OpenSound

\* A callback returns.
LEMMA CallbackEffect ==
    ASSUME Typed, Callback
    PROVE  LET s == Head(work).strategy
           IN  /\ work # <<>> /\ Head(work).do \in {"on_book_update", "on_trade"}
               /\ s \in Strategy /\ running[s]
               /\ UNCHANGED <<registered, running, position, owner, updates, net>>
               /\ \E proposals \in Seq(Intent) :
                     /\ proposals \in Returns(s, Head(work).do)
                     /\ work' = Submits(s, proposals) \o Tail(work)
                     /\ work' \in Seq(WorkItem(Party))
                     /\ IF Head(work).do = "on_book_update" /\ Replaces(s, proposals)
                        THEN CancelOpenOrders({s})
                        ELSE UNCHANGED <<open, orders, queue, lossy>>
<1> DEFINE s == Head(work).strategy
<1>1. PICK proposals \in Returns(s, Head(work).do) :
         /\ work' = Submits(s, proposals) \o Tail(work)
         /\ IF Head(work).do = "on_book_update" /\ Replaces(s, proposals)
            THEN CancelOpenOrders({s}) ELSE UNCHANGED <<open, exchangeVars>>
  BY DEF Callback
<1>2. /\ work # <<>> /\ Head(work).do \in {"on_book_update", "on_trade"} /\ running[s]
      /\ UNCHANGED <<registered, running, position, owner, updates, net>>
  BY DEF Callback, strategyVars
<1>3. s \in Strategy /\ Tail(work) \in Seq(WorkItem(Party))
  BY <1>2, WorkDone
<1>4. proposals \in Seq(Intent)
  BY <1>3, ReturnsTyped
<1>5. work' \in Seq(WorkItem(Party))
  <2>1. Submits(s, proposals) \in Seq(WorkItem(Party))
    BY <1>3, <1>4, SubmitsTyped
  <2> QED BY <1>1, <1>3, <2>1, ConcatProperties
<1> QED BY <1>1, <1>2, <1>3, <1>4, <1>5 DEF exchangeVars

\* Every step keeps the invariant.
LEMMA RuntimeStep == RuntimeInv /\ [Next]_vars => RuntimeInv'
<1> SUFFICES ASSUME RuntimeInv, [Next]_vars PROVE RuntimeInv'
  OBVIOUS
<1> USE DEF strategyVars, exchangeVars
<1>0. /\ registered \in Seq(Strategy) /\ running \in [Strategy -> BOOLEAN]
      /\ position \in [Strategy -> Int] /\ work \in Seq(WorkItem(Party)) /\ Typed
      /\ net \in [Strategy -> Int]
  BY DEF RuntimeInv, Typed, TypeOK
<1>1. ASSUME NEW s \in Strategy, Register(s) \/ CreateMarketMaker(s) \/ StartStrategy(s)
      PROVE  RuntimeInv'
  <2>1. registered' \in Seq(Strategy)
    <3>1. registered' = registered \/ registered' = Append(registered, s)
      BY <1>1 DEF Register, CreateMarketMaker, StartStrategy, AddStrategy
    <3>2. Append(registered, s) \in Seq(Strategy)
      BY <1>0, AppendProperties
    <3> QED BY <1>0, <3>1, <3>2
  <2>2. /\ running' \in [Strategy -> BOOLEAN] /\ \A t \in Strategy : running[t] => running'[t]
        /\ UNCHANGED <<orders, owner, queue, lossy, net, position, work, open>>
    BY <1>0, <1>1 DEF Register, CreateMarketMaker, StartStrategy, Start
  <2> QED BY <1>0, <2>1, <2>2, OwnStepInv
<1>2. ASSUME NEW targets \in SUBSET Strategy, EngageKillSwitch(targets)
      PROVE  RuntimeInv'
  BY <1>0, <1>2, CancelOpenInv DEF EngageKillSwitch, Stop
<1>3. ToSet(registered) \subseteq Strategy
  BY <1>0, ElementOfSeq, LenProperties DEF ToSet
<1>4. CASE ProcessEvent
  <2>1. /\ queue' \in Seq(BusEvent(Party)) /\ Len(queue') <= QueueDepth
        /\ work' \in Seq(WorkItem(Party))
    BY <1>0, <1>4, ProcessEventEffect
  <2>2. UNCHANGED <<registered, running, position, owner, open, orders, lossy, net>>
    BY <1>4 DEF ProcessEvent
  <2>3. Known' = Known /\ Party' = Party /\ \A o \in OrderId : Active(o)' <=> Active(o)
    BY <2>2, OrdersUntouched
  <2>4. Typed'
    BY <1>0, <2>1, <2>2, <2>3 DEF Typed, TypeOK
  <2>5. OpenSound'
    BY <2>2, <2>3 DEF RuntimeInv, OpenSound
  <2> QED BY <2>4, <2>5 DEF RuntimeInv
<1>5. CASE OnFill
  BY <1>5, OnFillInv
<1>6. CASE SkipCallback \/ RiskReject \/ NoMoreIds
  <2>1. /\ work # <<>> /\ work' = Tail(work)
        /\ UNCHANGED <<registered, running, position, owner, open, orders, queue, lossy, net>>
    BY <1>6 DEF SkipCallback, RiskReject, NoMoreIds
  <2>2. work' \in Seq(WorkItem(Party))
    BY <1>0, <2>1, WorkDone
  <2> QED BY <1>0, <2>1, <2>2, OwnStepInv
<1>7. CASE Callback
  <2>1. PICK s \in Strategy, proposals \in Seq(Intent) :
           /\ work' \in Seq(WorkItem(Party))
           /\ CancelOpenOrders({s}) \/ UNCHANGED <<open, orders, queue, lossy>>
    BY <1>0, <1>7, CallbackEffect
  <2>2. UNCHANGED <<registered, running, position, owner, updates, net>>
    BY <1>7 DEF Callback
  <2>3. CASE CancelOpenOrders({s})
    <3>1. {s} \in SUBSET Strategy
      OBVIOUS
    <3> QED BY <2>1, <2>2, <2>3, <3>1, CancelOpenInv
  <2>4. CASE UNCHANGED <<open, orders, queue, lossy>>
    BY <1>0, <2>1, <2>2, <2>4, OwnStepInv
  <2> QED BY <2>1, <2>3, <2>4
<1>8. CASE CallbackFailure
  <2> DEFINE s == Head(work).strategy
  <2>1. /\ work # <<>> /\ work' = Tail(work) /\ Head(work).do \in {"on_book_update", "on_trade"}
        /\ Halt({s}) /\ CancelOpenOrders({s}) /\ UNCHANGED <<registered, position, owner, net>>
    BY <1>8 DEF CallbackFailure, Stop
  <2>2. {s} \in SUBSET Strategy /\ work' \in Seq(WorkItem(Party))
    BY <1>0, <2>1, WorkDone
  <2> HIDE DEF s
  <2> QED BY <2>1, <2>2, CancelOpenInv
<1>9. ASSUME NEW o \in OrderId, SubmitProposal(o) PROVE RuntimeInv'
  BY <1>9, SubmitInv
<1>10. ASSUME NEW o \in OrderId, OutsideCancel(o) PROVE RuntimeInv'
  <2>1. UNCHANGED <<registered, running, position, owner, open, work, net>>
    BY <1>10 DEF OutsideCancel
  <2> QED BY <1>0, <1>10, <2>1, OutsideCancelEffect, ExchangeStepInv
<1>11. ASSUME NEW side \in Side, OutsideTrade(side) PROVE RuntimeInv'
  <2>1. UNCHANGED <<registered, running, position, owner, open, work>>
    BY <1>11 DEF OutsideTrade
  <2> QED BY <1>11, <2>1, OutsideTradeEffect, ExchangeStepInv
<1>12. CASE OutsideUpdate
  <2>1. UNCHANGED <<registered, running, position, owner, open, work, orders, net>> /\ Emit(BookUpdate)
    BY <1>12 DEF OutsideUpdate
  <2>2. BookUpdate \in Seq(BusEvent(Party))
    BY UpdatesTyped
  <2>3. queue' \in Seq(BusEvent(Party)) /\ Len(queue') <= QueueDepth /\ lossy' \in BOOLEAN
    BY <1>0, <2>1, <2>2, EmitTyped DEF Typed, TypeOK
  <2>4. Known' = Known /\ Kept /\ orders' \in [OrderId -> OrderObject \union {None}]
    BY <1>0, <2>1 DEF Known, Kept, Active, Typed, TypeOK
  <2> QED BY <1>0, <2>1, <2>3, <2>4, ExchangeStepInv
<1>13. CASE UNCHANGED vars
  <2>1. UNCHANGED <<registered, running, position, owner, open, orders, queue, lossy, work, net>>
    BY <1>13 DEF vars
  <2> QED BY <1>0, <2>1, OwnStepInv
<1>14. ASSUME NEW s \in Strategy, KillStrategy(s) PROVE RuntimeInv'
  <2>1. {s} \in SUBSET Strategy
    OBVIOUS
  <2> QED BY <1>2, <1>14, <2>1 DEF KillStrategy
<1>15. CASE EngageKillSwitch(ToSet(registered))
  BY <1>2, <1>3, <1>15
<1> QED BY <1>1, <1>4, <1>5, <1>6, <1>7, <1>8, <1>9, <1>10, <1>11, <1>12, <1>13, <1>14, <1>15
        DEF Next

LEMMA RuntimeInvariance == Spec => []RuntimeInv
<1>1. Init => RuntimeInv
  <2> SUFFICES ASSUME Init PROVE RuntimeInv
    OBVIOUS
  <2>1. Known = {} /\ \A o \in OrderId : ~Active(o)
    BY DEF Init, Known, Active
  <2>2. IsFiniteSet(Known)
    BY <2>1, FS_EmptySet
  <2>3. Typed
    <3>1. /\ queue \in Seq(BusEvent(Party)) /\ work \in Seq(WorkItem(Party))
          /\ registered \in Seq(Strategy) /\ Len(queue) = 0
      BY EmptySeq DEF Init
    <3>2. Len(queue) <= QueueDepth
      BY <3>1, DepthAssumption
    <3>3. OwnTyped
      BY <3>1 DEF Init, OwnTyped
    <3>4. orders \in [OrderId -> OrderObject \union {None}] /\ lossy \in BOOLEAN
      BY DEF Init
    <3> QED BY <2>2, <3>1, <3>2, <3>3, <3>4 DEF Typed, TypeOK, OwnTyped
  <2>4. OpenSound
    BY <2>1 DEF Init, OpenSound
  <2> QED BY <2>3, <2>4 DEF RuntimeInv
<1> QED BY <1>1, RuntimeStep, PTL DEF Spec

\* The state of the runtime is always well typed; a position is a number however many
\* trades were summed into it, and the bus queue keeps within its depth.
THEOREM RuntimeTyped == Spec => []TypeOK
<1>1. RuntimeInv => TypeOK
  BY DEF RuntimeInv, Typed
<1> QED BY <1>1, RuntimeInvariance, PTL

\* A strategy that was stopped, killed, or failed has nothing in the book, whatever
\* was on the bus when it was stopped.
THEOREM StoppedNeverQuotes == Spec => []StoppedHasNoQuotes
<1>1. RuntimeInv => StoppedHasNoQuotes
  BY DEF RuntimeInv, OpenSound, StoppedHasNoQuotes
<1> QED BY <1>1, RuntimeInvariance, PTL

-----------------------------------------------------------------------------
(* Cancel/replace.                                                         *)

\* No order becomes active.
NoNewQuote ==
    \A o \in OrderId : Active(o)' => /\ Active(o) /\ orders'[o].side = orders[o].side
                                     /\ owner'[o] = owner[o]

\* An order that becomes active was not known before.
LEMMA KeptNoNewQuote ==
    ASSUME Kept, Known' = Known
    PROVE  NoNewQuote
BY DEF Kept, NoNewQuote, Known, Active

\* Work is done from its front, or is as it was.
LEMMA QuoteInvShift ==
    ASSUME QuoteInv, NoNewQuote, NEW d \in 0..1,
           \A i \in 1..Len(work') : i + d \in 1..Len(work) /\ work'[i] = work[i + d],
           Len(work) \in Nat, Len(work') \in Nat
    PROVE  QuoteInv'
<1>1. SubmitsFirst'
  <2> SUFFICES ASSUME NEW i \in 1..Len(work'), NEW j \in 1..Len(work'),
                      i < j, work'[j].do = "submit"
               PROVE  work'[i].do = "submit"
    BY DEF SubmitsFirst
  <2>1. i + d < j + d /\ work[j + d].do = "submit"
    OBVIOUS
  <2> QED BY <2>1 DEF QuoteInv, SubmitsFirst
<1>2. OneQuotePerSide'
  BY DEF QuoteInv, OneQuotePerSide, NoNewQuote
<1>3. SidesFree'
  <2> SUFFICES ASSUME NEW i \in 1..Len(work'),
                      work'[i].do = "submit", work'[i].strategy \in Replacing
               PROVE  /\ \A o \in OrderId : Active(o)' /\ owner'[o] = work'[i].strategy =>
                            orders'[o].side # work'[i].intent.side
                      /\ \A j \in 1..Len(work') :
                            j # i /\ work'[j].do = "submit" /\ work'[j].strategy = work'[i].strategy =>
                               work'[j].intent.side # work'[i].intent.side
    BY DEF SidesFree
  <2>1. i + d \in 1..Len(work) /\ work'[i] = work[i + d]
    OBVIOUS
  <2>2. /\ \A o \in OrderId : Active(o) /\ owner[o] = work[i + d].strategy =>
              orders[o].side # work[i + d].intent.side
        /\ \A j \in 1..Len(work) :
              j # i + d /\ work[j].do = "submit" /\ work[j].strategy = work[i + d].strategy =>
                 work[j].intent.side # work[i + d].intent.side
    BY <2>1 DEF QuoteInv, SidesFree
  <2>3. \A o \in OrderId : Active(o)' /\ owner'[o] = work'[i].strategy =>
           orders'[o].side # work'[i].intent.side
    BY <2>1, <2>2 DEF NoNewQuote
  <2>4. \A j \in 1..Len(work') : j # i => j + d # i + d
    OBVIOUS
  <2> QED BY <2>1, <2>2, <2>3, <2>4
<1> QED BY <1>1, <1>2, <1>3 DEF QuoteInv

LEMMA QuoteInvTail ==
    ASSUME Typed, QuoteInv, NoNewQuote, work # <<>>, work' = Tail(work)
    PROVE  QuoteInv'
<1>1. Len(work) \in Nat /\ Len(work') = Len(work) - 1 /\ Len(work') \in Nat
      /\ \A i \in 1..Len(work') : work'[i] = work[i + 1]
  BY HeadTailProperties, LenProperties DEF Typed
<1>2. \A i \in 1..Len(work') : i + 1 \in 1..Len(work) /\ work'[i] = work[i + 1]
  BY <1>1
<1> QED BY <1>1, <1>2, QuoteInvShift

LEMMA QuoteInvSame ==
    ASSUME Typed, QuoteInv, NoNewQuote, work' = work
    PROVE  QuoteInv'
<1>1. Len(work) \in Nat /\ Len(work') = Len(work)
  BY LenProperties DEF Typed
<1>2. \A i \in 1..Len(work') : i + 0 \in 1..Len(work) /\ work'[i] = work[i + 0]
  BY <1>1
<1> QED BY <1>1, <1>2, QuoteInvShift

\* Two quotes of one callback, after the old ones are cancelled.
LEMMA CallbackQuoteInv ==
    ASSUME RuntimeInv, QuoteInv, Callback
    PROVE  QuoteInv'
<1> DEFINE s == Head(work).strategy
           cb == Head(work).do
<1>1. /\ work # <<>> /\ cb \in {"on_book_update", "on_trade"} /\ s \in Strategy /\ Typed
      /\ UNCHANGED <<registered, running, position, owner, updates, net>>
  BY CallbackEffect DEF RuntimeInv
<1>2. PICK proposals \in Seq(Intent) :
         /\ proposals \in Returns(s, cb)
         /\ work' = Submits(s, proposals) \o Tail(work)
         /\ IF cb = "on_book_update" /\ Replaces(s, proposals)
            THEN CancelOpenOrders({s}) ELSE UNCHANGED <<open, orders, queue, lossy>>
  BY <1>1, CallbackEffect
<1> DEFINE new == Submits(s, proposals)
           k == Len(proposals)
           rest == Tail(work)
<1>3. \A i \in 1..Len(work) : work[i].do # "submit"
  <2>1. work[1].do # "submit" /\ Len(work) \in Nat
    BY <1>1, WorkDone, LenProperties DEF Typed
  <2> QED BY <2>1 DEF QuoteInv, SubmitsFirst
<1>4. /\ rest \in Seq(WorkItem(Party)) /\ Len(rest) \in Nat
      /\ \A i \in 1..Len(rest) : rest[i].do # "submit"
  <2>1. /\ rest \in Seq(WorkItem(Party)) /\ Len(rest) = Len(work) - 1 /\ Len(rest) \in Nat
        /\ Len(work) \in Nat /\ \A i \in 1..Len(rest) : rest[i] = work[i + 1]
    BY <1>1, HeadTailProperties, LenProperties DEF Typed
  <2> HIDE DEF rest
  <2> QED BY <1>3, <2>1
<1>5. /\ new \in Seq(WorkItem(Party)) /\ Len(new) = k /\ k \in Nat
      /\ \A i \in 1..k : new[i].do = "submit" /\ new[i].strategy = s /\ new[i].intent = proposals[i]
  <2> HIDE DEF s
  <2> QED BY <1>1, SubmitsTyped, LenProperties
<1> HIDE DEF new, rest, k, s, cb
<1>6. /\ Len(work') = k + Len(rest)
      /\ \A i \in 1..k : work'[i] = new[i]
      /\ \A i \in 1..(k + Len(rest)) : i > k => work'[i] = rest[i - k]
  <2>1. work' = new \o rest
    BY <1>2 DEF new, rest
  <2>2. /\ Len(new \o rest) = Len(new) + Len(rest)
        /\ \A i \in 1..(Len(new) + Len(rest)) :
              (new \o rest)[i] = IF i <= Len(new) THEN new[i] ELSE rest[i - Len(new)]
    BY <1>4, <1>5, ConcatProperties
  <2> QED BY <1>4, <1>5, <2>1, <2>2
<1>7. \A i \in 1..Len(work') : work'[i].do = "submit" => i \in 1..k
  <2> SUFFICES ASSUME NEW i \in 1..(k + Len(rest)), i > k PROVE work'[i].do # "submit"
    BY <1>4, <1>5, <1>6
  <2>1. i - k \in 1..Len(rest) /\ work'[i] = rest[i - k]
    BY <1>4, <1>5, <1>6
  <2> QED BY <1>4, <2>1
<1>8. NoNewQuote /\ (s \in Replacing /\ k > 0 => \A o \in OrderId : Active(o)' => owner[o] # s)
  <2>1. CASE cb = "on_book_update" /\ Replaces(s, proposals)
    <3>1. CancelOpenOrders({s}) /\ {s} \in SUBSET Strategy /\ owner' = owner
      BY <1>1, <1>2, <2>1
    <3>2. Known' = Known /\ Kept /\ \A o \in OrderId : Active(o)' => owner[o] \notin {s}
      BY <3>1, CancelOpenEffect
    <3> QED BY <3>2, KeptNoNewQuote
  <2>2. CASE ~(cb = "on_book_update" /\ Replaces(s, proposals))
    <3>1. UNCHANGED <<orders, owner>>
      BY <1>1, <1>2, <2>2
    <3>2. NoNewQuote
      BY <3>1 DEF NoNewQuote, Active
    <3>3. s \in Replacing => proposals = <<>>
      BY <1>1, <1>2, <2>2 DEF Returns, Replaces
    <3>4. proposals = <<>> => k = 0
      BY EmptySeq DEF k
    <3> QED BY <1>5, <3>2, <3>3, <3>4
  <2> QED BY <2>1, <2>2
<1>9. s \in Replacing => \A i, j \in 1..k : proposals[i].side = proposals[j].side => i = j
  <2> SUFFICES ASSUME s \in Replacing
               PROVE  \A i, j \in 1..k : proposals[i].side = proposals[j].side => i = j
    OBVIOUS
  <2>1. proposals = <<>> \/ \E cheap \in Affordable : proposals = Quotes(s, cheap)
    BY <1>1, <1>2 DEF Returns
  <2>2. CASE proposals = <<>>
    BY <2>2, EmptySeq DEF k
  <2>3. ASSUME NEW cheap \in Affordable, proposals = Quotes(s, cheap)
        PROVE  \A i, j \in 1..k : proposals[i].side = proposals[j].side => i = j
    BY <1>1, <2>3, QuotesFacts DEF k
  <2> QED BY <2>1, <2>2, <2>3
<1>10. SubmitsFirst'
  <2> SUFFICES ASSUME NEW i \in 1..Len(work'), NEW j \in 1..Len(work'),
                      i < j, work'[j].do = "submit"
               PROVE  work'[i].do = "submit"
    BY DEF SubmitsFirst
  <2>1. j \in 1..k
    BY <1>7
  <2>2. i \in 1..k
    BY <1>5, <2>1
  <2> QED BY <1>5, <1>6, <2>2
<1>11. OneQuotePerSide'
  BY <1>8 DEF QuoteInv, OneQuotePerSide, NoNewQuote
<1>12. SidesFree'
  <2> SUFFICES ASSUME NEW i \in 1..Len(work'),
                      work'[i].do = "submit", work'[i].strategy \in Replacing
               PROVE  /\ \A o \in OrderId : Active(o)' /\ owner'[o] = work'[i].strategy =>
                            orders'[o].side # work'[i].intent.side
                      /\ \A j \in 1..Len(work') :
                            j # i /\ work'[j].do = "submit" /\ work'[j].strategy = work'[i].strategy =>
                               work'[j].intent.side # work'[i].intent.side
    BY DEF SidesFree
  <2>1. i \in 1..k
    BY <1>7
  <2>2. work'[i].strategy = s /\ work'[i].intent = proposals[i] /\ s \in Replacing /\ k > 0
    BY <1>5, <1>6, <2>1
  <2>3. \A o \in OrderId : Active(o)' => owner'[o] # s
    BY <1>1, <1>8, <2>2
  <2>4. \A j \in 1..Len(work') : work'[j].do = "submit" => j \in 1..k /\ work'[j].intent = proposals[j]
    BY <1>5, <1>6, <1>7
  <2>5. \A j \in 1..Len(work') :
           j # i /\ work'[j].do = "submit" => work'[j].intent.side # work'[i].intent.side
    BY <1>9, <2>1, <2>2, <2>4
  <2> QED BY <2>2, <2>3, <2>5
<1> QED BY <1>10, <1>11, <1>12 DEF QuoteInv

\* A quote enters the book, on a side that was free.
LEMMA SubmitQuoteInv ==
    ASSUME RuntimeInv, QuoteInv, NEW o \in OrderId, SubmitProposal(o)
    PROVE  QuoteInv'
<1> DEFINE s == Head(work).strategy
           intent == Head(work).intent
<1>1. /\ work # <<>> /\ Head(work).do = "submit" /\ work' = Tail(work)
      /\ s \in Strategy /\ orders[o] = None /\ Typed
      /\ owner' = [owner EXCEPT ![o] = s]
      /\ Known' = Known \union {o} /\ Kept
      /\ orders'[o].side = intent.side
  BY SubmitEffect DEF RuntimeInv
<1>2. /\ Len(work) \in Nat /\ Len(work') = Len(work) - 1 /\ Len(work') \in Nat
      /\ \A i \in 1..Len(work') : work'[i] = work[i + 1]
      /\ work[1].do = "submit" /\ work[1].strategy = s /\ work[1].intent = intent
      /\ 1 \in 1..Len(work)
  <2>1. /\ Len(work) \in Nat /\ Len(work') = Len(work) - 1 /\ Len(work') \in Nat
        /\ \A i \in 1..Len(work') : work'[i] = work[i + 1]
    BY <1>1, HeadTailProperties, LenProperties DEF Typed
  <2>2. work[1] = Head(work)
    BY <1>1, WorkDone
  <2> QED BY <1>1, <2>1, <2>2
<1> HIDE DEF s, intent
<1>3. \A i \in 1..Len(work') : i + 1 \in 1..Len(work) /\ work'[i] = work[i + 1] /\ i + 1 # 1
  BY <1>2
<1>4. /\ owner'[o] = s
      /\ \A n \in OrderId \ {o} : Active(n)' =>
            Active(n) /\ orders'[n].side = orders[n].side /\ owner'[n] = owner[n]
  <2>1. owner \in [OrderId -> Strategy \union {None}]
    BY <1>1 DEF Typed, TypeOK
  <2>2. \A n \in OrderId \ {o} : Active(n)' => n \in Known
    BY <1>1 DEF Active, Known
  <2> QED BY <1>1, <2>1, <2>2 DEF Kept
<1>5. s \in Replacing => \A n \in OrderId : Active(n) /\ owner[n] = s => orders[n].side # intent.side
  BY <1>2 DEF QuoteInv, SidesFree
<1>6. SubmitsFirst'
  <2> SUFFICES ASSUME NEW i \in 1..Len(work'), NEW j \in 1..Len(work'),
                      i < j, work'[j].do = "submit"
               PROVE  work'[i].do = "submit"
    BY DEF SubmitsFirst
  <2>1. i + 1 < j + 1 /\ work[j + 1].do = "submit"
    BY <1>2, <1>3
  <2> QED BY <1>3, <2>1 DEF QuoteInv, SubmitsFirst
<1>7. OneQuotePerSide'
  <2> SUFFICES ASSUME NEW m \in OrderId, NEW n \in OrderId, Active(m)', Active(n)',
                      owner'[m] = owner'[n], owner'[m] \in Replacing,
                      orders'[m].side = orders'[n].side
               PROVE  m = n
    BY DEF OneQuotePerSide
  <2>1. CASE m # o /\ n # o
    BY <1>4, <2>1 DEF QuoteInv, OneQuotePerSide
  <2>2. CASE m = o /\ n # o
    BY <1>1, <1>4, <1>5, <2>2
  <2>3. CASE m # o /\ n = o
    BY <1>1, <1>4, <1>5, <2>3
  <2> QED BY <2>1, <2>2, <2>3
<1>8. SidesFree'
  <2> SUFFICES ASSUME NEW i \in 1..Len(work'),
                      work'[i].do = "submit", work'[i].strategy \in Replacing
               PROVE  /\ \A n \in OrderId : Active(n)' /\ owner'[n] = work'[i].strategy =>
                            orders'[n].side # work'[i].intent.side
                      /\ \A j \in 1..Len(work') :
                            j # i /\ work'[j].do = "submit" /\ work'[j].strategy = work'[i].strategy =>
                               work'[j].intent.side # work'[i].intent.side
    BY DEF SidesFree
  <2>1. i + 1 \in 1..Len(work) /\ work'[i] = work[i + 1] /\ i + 1 # 1
    BY <1>3
  <2>2. /\ \A n \in OrderId : Active(n) /\ owner[n] = work[i + 1].strategy =>
              orders[n].side # work[i + 1].intent.side
        /\ \A j \in 1..Len(work) :
              j # i + 1 /\ work[j].do = "submit" /\ work[j].strategy = work[i + 1].strategy =>
                 work[j].intent.side # work[i + 1].intent.side
    BY <2>1 DEF QuoteInv, SidesFree
  <2>3. owner'[o] = work'[i].strategy => orders'[o].side # work'[i].intent.side
    BY <1>1, <1>2, <1>4, <2>1, <2>2
  <2>4. \A n \in OrderId : Active(n)' /\ owner'[n] = work'[i].strategy =>
           orders'[n].side # work'[i].intent.side
    BY <1>4, <2>1, <2>2, <2>3
  <2>5. \A j \in 1..Len(work') : j # i => j + 1 # i + 1
    OBVIOUS
  <2> QED BY <1>3, <2>1, <2>2, <2>4, <2>5
<1> QED BY <1>6, <1>7, <1>8 DEF QuoteInv

LEMMA QuoteStep == RuntimeInv /\ QuoteInv /\ [Next]_vars => QuoteInv'
<1> SUFFICES ASSUME RuntimeInv, QuoteInv, [Next]_vars PROVE QuoteInv'
  OBVIOUS
<1> USE DEF strategyVars, exchangeVars
<1>0. Typed
  BY DEF RuntimeInv
<1>1. ASSUME UNCHANGED <<orders, owner>> PROVE NoNewQuote
  BY <1>1 DEF NoNewQuote, Active
<1>2. ASSUME NEW S \in SUBSET Strategy, CancelOpenOrders(S), owner' = owner PROVE NoNewQuote
  BY <1>2, CancelOpenEffect, KeptNoNewQuote
<1>3. ASSUME NEW s \in Strategy, Register(s) \/ CreateMarketMaker(s) \/ StartStrategy(s)
      PROVE  QuoteInv'
  BY <1>0, <1>1, <1>3, QuoteInvSame DEF Register, CreateMarketMaker, StartStrategy
<1>4. ASSUME NEW targets \in SUBSET Strategy, EngageKillSwitch(targets) PROVE QuoteInv'
  BY <1>0, <1>2, <1>4, QuoteInvSame DEF EngageKillSwitch, Stop
<1>5. CASE ProcessEvent
  <2>1. \A i \in 1..Len(work') : work'[i].do # "submit"
    BY <1>0, <1>5, ProcessEventEffect
  <2>2. NoNewQuote
    BY <1>1, <1>5 DEF ProcessEvent
  <2>3. SubmitsFirst' /\ SidesFree'
    BY <2>1 DEF SubmitsFirst, SidesFree
  <2>4. OneQuotePerSide'
    BY <2>2 DEF QuoteInv, OneQuotePerSide, NoNewQuote
  <2> QED BY <2>3, <2>4 DEF QuoteInv
<1>6. CASE OnFill \/ SkipCallback \/ RiskReject \/ NoMoreIds
  <2>1. work # <<>> /\ work' = Tail(work) /\ UNCHANGED <<orders, owner>>
    BY <1>6 DEF OnFill, SkipCallback, RiskReject, NoMoreIds
  <2> QED BY <1>0, <1>1, <2>1, QuoteInvTail
<1>7. CASE Callback
  BY <1>7, CallbackQuoteInv
<1>8. CASE CallbackFailure
  <2> DEFINE s == Head(work).strategy
  <2>1. /\ work # <<>> /\ work' = Tail(work) /\ Head(work).do \in {"on_book_update", "on_trade"}
        /\ CancelOpenOrders({s}) /\ owner' = owner
    BY <1>8 DEF CallbackFailure, Stop
  <2>2. {s} \in SUBSET Strategy
    BY <1>0, <2>1, WorkDone
  <2> HIDE DEF s
  <2>3. NoNewQuote
    BY <1>2, <2>1, <2>2
  <2> QED BY <1>0, <2>1, <2>3, QuoteInvTail
<1>9. ASSUME NEW o \in OrderId, SubmitProposal(o) PROVE QuoteInv'
  BY <1>9, SubmitQuoteInv
<1>10. ASSUME NEW o \in OrderId, OutsideCancel(o) PROVE QuoteInv'
  <2>1. NoNewQuote
    BY <1>10, OutsideCancelEffect, KeptNoNewQuote
  <2> QED BY <1>0, <1>10, <2>1, QuoteInvSame DEF OutsideCancel
<1>11. ASSUME NEW side \in Side, OutsideTrade(side) PROVE QuoteInv'
  <2>1. NoNewQuote
    BY <1>11, OutsideTradeEffect, KeptNoNewQuote
  <2> QED BY <1>0, <1>11, <2>1, QuoteInvSame DEF OutsideTrade
<1>12. CASE OutsideUpdate \/ UNCHANGED vars
  <2>1. UNCHANGED <<orders, owner, work>>
    BY <1>12 DEF OutsideUpdate, vars
  <2> QED BY <1>0, <1>1, <2>1, QuoteInvSame
<1>13. ToSet(registered) \subseteq Strategy
  BY <1>0, ElementOfSeq, LenProperties DEF ToSet, Typed, TypeOK
<1>14. ASSUME NEW s \in Strategy, KillStrategy(s) PROVE QuoteInv'
  <2>1. {s} \in SUBSET Strategy
    OBVIOUS
  <2> QED BY <1>4, <1>14, <2>1 DEF KillStrategy
<1>15. CASE EngageKillSwitch(ToSet(registered))
  BY <1>4, <1>13, <1>15
<1> QED BY <1>3, <1>5, <1>6, <1>7, <1>8, <1>9, <1>10, <1>11, <1>12, <1>14, <1>15 DEF Next

\* A market maker never has two quotes on one side of the book: cancel/replace
\* misses none, for any number of strategies and orders in flight.
THEOREM QuotesAlwaysReplaced == Spec => []QuotesReplaced
<1>1. Init => QuoteInv
  BY DEF Init, QuoteInv, SubmitsFirst, OneQuotePerSide, SidesFree, Active
<1>2. QuoteInv => QuotesReplaced
  <2> SUFFICES ASSUME QuoteInv, NEW s \in Replacing, NEW side \in Side
               PROVE  Cardinality({o \in OrderId :
                         owner[o] = s /\ Active(o) /\ orders[o].side = side}) <= 1
    BY DEF QuotesReplaced
  <2> DEFINE Q == {o \in OrderId : owner[o] = s /\ Active(o) /\ orders[o].side = side}
  <2>1. \A o, n \in Q : o = n
    BY DEF QuoteInv, OneQuotePerSide
  <2> HIDE DEF Q
  <2>2. Q = {} \/ \E o : Q = {o}
    BY <2>1
  <2>3. Cardinality(Q) = 0 \/ Cardinality(Q) = 1
    BY <2>2, FS_EmptySet, FS_Singleton
  <2>4. Cardinality(Q) <= 1
    BY <2>3
  <2> QED BY <2>4 DEF Q
<1> QED BY <1>1, <1>2, QuoteStep, RuntimeInvariance, PTL DEF Spec

-----------------------------------------------------------------------------
(* The position a strategy believes in.                                    *)

\* FillFor, EventFill and WorkFill as functions of who owns the orders and of the
\* orders themselves, so that one lemma speaks of both sides of a step.
FillIn(own, ord, s, o, q) == IF o # Outside /\ own[o] = s THEN Signed(ord[o].side, q) ELSE 0

EventFillIn(own, ord, s, e) ==
    IF e.type # "TRADE" THEN 0
    ELSE FillIn(own, ord, s, e.of.maker, e.of.quantity)
           + FillIn(own, ord, s, e.of.taker, e.of.quantity)

WorkFillIn(own, ord, s, item) ==
    IF item.do # "on_fill" THEN 0 ELSE FillIn(own, ord, s, item.order, item.quantity)

EventFills(own, ord, s, P) == [e \in BusEvent(P) |-> EventFillIn(own, ord, s, e)]
WorkFills(own, ord, s, P)  == [item \in WorkItem(P) |-> WorkFillIn(own, ord, s, item)]

\* Fills are numbers.
LEMMA FillsTyped ==
    ASSUME NEW own, NEW ord, NEW s, NEW P
    PROVE  /\ EventFills(own, ord, s, P) \in [BusEvent(P) -> Int]
           /\ WorkFills(own, ord, s, P) \in [WorkItem(P) -> Int]
<1>1. \A e \in BusEvent(P) : EventFillIn(own, ord, s, e) \in Int
  BY DEF BusEvent, EventFillIn, FillIn, Signed
<1>2. \A item \in WorkItem(P) : WorkFillIn(own, ord, s, item) \in Int
  BY DEF WorkItem, WorkFillIn, FillIn, Signed
<1> QED BY <1>1, <1>2 DEF EventFills, WorkFills

\* A party that is known is told the same after a step as before.
LEMMA FillsKept ==
    ASSUME NEW own, NEW ord, NEW own2, NEW ord2, NEW s, NEW P,
           \A p \in P : p # Outside => own2[p] = own[p] /\ ord2[p].side = ord[p].side
    PROVE  /\ EventFills(own2, ord2, s, P) = EventFills(own, ord, s, P)
           /\ WorkFills(own2, ord2, s, P) = WorkFills(own, ord, s, P)
<1>1. \A p \in P : \A q : FillIn(own2, ord2, s, p, q) = FillIn(own, ord, s, p, q)
  BY DEF FillIn
<1>2. \A e \in BusEvent(P) : EventFillIn(own2, ord2, s, e) = EventFillIn(own, ord, s, e)
  BY <1>1 DEF BusEvent, EventFillIn
<1>3. \A item \in WorkItem(P) : WorkFillIn(own2, ord2, s, item) = WorkFillIn(own, ord, s, item)
  BY <1>1 DEF WorkItem, WorkFillIn
<1> QED BY <1>2, <1>3 DEF EventFills, WorkFills

\* What is on the bus, and in work, for s.
QueueSum(own, ord, s, q) == SumFunction([i \in 1..Len(q) |-> EventFillIn(own, ord, s, q[i])])
WorkSum(own, ord, s, w)  == SumFunction([i \in 1..Len(w) |-> WorkFillIn(own, ord, s, w[i])])

\* The fills the runtime has yet to hear of, before and after a step.
LEMMA PendingIsSum ==
    ASSUME NEW s
    PROVE  /\ PendingFills(s) = QueueSum(owner, orders, s, queue) + WorkSum(owner, orders, s, work)
           /\ PendingFills(s)' = QueueSum(owner', orders', s, queue') + WorkSum(owner', orders', s, work')
BY DEF PendingFills, QueueSum, WorkSum, EventFillIn, WorkFillIn, FillIn,
       EventFill, WorkFill, FillFor

LEMMA SumsAreMapped ==
    ASSUME NEW own, NEW ord, NEW s, NEW P
    PROVE  /\ \A q \in Seq(BusEvent(P)) :
                 QueueSum(own, ord, s, q) = SumFunction(Mapped(EventFills(own, ord, s, P), q))
           /\ \A w \in Seq(WorkItem(P)) :
                 WorkSum(own, ord, s, w) = SumFunction(Mapped(WorkFills(own, ord, s, P), w))
<1>1. ASSUME NEW q \in Seq(BusEvent(P))
      PROVE  QueueSum(own, ord, s, q) = SumFunction(Mapped(EventFills(own, ord, s, P), q))
  <2>1. \A i \in 1..Len(q) : q[i] \in BusEvent(P)
    BY ElementOfSeq
  <2>2. \A i \in 1..Len(q) : EventFills(own, ord, s, P)[q[i]] = EventFillIn(own, ord, s, q[i])
    BY <2>1 DEF EventFills
  <2> HIDE DEF BusEvent
  <2>3. Mapped(EventFills(own, ord, s, P), q) = [i \in 1..Len(q) |-> EventFillIn(own, ord, s, q[i])]
    BY <2>2 DEF Mapped
  <2> QED BY <2>3 DEF QueueSum
<1>2. ASSUME NEW w \in Seq(WorkItem(P))
      PROVE  WorkSum(own, ord, s, w) = SumFunction(Mapped(WorkFills(own, ord, s, P), w))
  <2>1. \A i \in 1..Len(w) : w[i] \in WorkItem(P)
    BY ElementOfSeq
  <2>2. \A i \in 1..Len(w) : WorkFills(own, ord, s, P)[w[i]] = WorkFillIn(own, ord, s, w[i])
    BY <2>1 DEF WorkFills
  <2>3. Mapped(WorkFills(own, ord, s, P), w) = [i \in 1..Len(w) |-> WorkFillIn(own, ord, s, w[i])]
    BY <2>2 DEF Mapped
  <2> QED BY <2>3 DEF WorkSum
<1> QED BY <1>1, <1>2

\* How the sum over the bus, and over work, comes apart.
LEMMA QueueSumMapped ==
    ASSUME NEW own, NEW ord, NEW s, NEW P
    PROVE  /\ EventFills(own, ord, s, P) \in [BusEvent(P) -> Int]
           /\ \A e \in BusEvent(P) : EventFills(own, ord, s, P)[e] = EventFillIn(own, ord, s, e)
           /\ \A q \in Seq(BusEvent(P)) :
                 /\ QueueSum(own, ord, s, q) = SumFunction(Mapped(EventFills(own, ord, s, P), q))
                 /\ QueueSum(own, ord, s, q) \in Int
<1> DEFINE S == BusEvent(P)
           v == EventFills(own, ord, s, P)
<1>1. v \in [S -> Int] /\ \A e \in S : v[e] = EventFillIn(own, ord, s, e)
  BY FillsTyped DEF EventFills
<1>2. \A q \in Seq(S) : QueueSum(own, ord, s, q) = SumFunction(Mapped(v, q))
  BY SumsAreMapped
<1> HIDE DEF S, v
<1>3. \A q \in Seq(S) : SumFunction(Mapped(v, q)) \in Int
  BY <1>1, MappedTyped
<1> QED BY <1>1, <1>2, <1>3 DEF S, v

LEMMA QueueSumConcat ==
    ASSUME NEW own, NEW ord, NEW s, NEW P, NEW a \in Seq(BusEvent(P)), NEW b \in Seq(BusEvent(P))
    PROVE  QueueSum(own, ord, s, a \o b) = QueueSum(own, ord, s, a) + QueueSum(own, ord, s, b)
<1> DEFINE S == BusEvent(P)
           v == EventFills(own, ord, s, P)
<1>1. v \in [S -> Int] /\ \A q \in Seq(S) : QueueSum(own, ord, s, q) = SumFunction(Mapped(v, q))
  BY QueueSumMapped
<1> HIDE DEF S, v
<1>2. a \in Seq(S) /\ b \in Seq(S)
  BY DEF S
<1>3. a \o b \in Seq(S)
  BY <1>2, ConcatProperties
<1>4. SumFunction(Mapped(v, a \o b)) = SumFunction(Mapped(v, a)) + SumFunction(Mapped(v, b))
  BY <1>1, <1>2, MappedConcat
<1> QED BY <1>1, <1>2, <1>3, <1>4

LEMMA QueueSumTail ==
    ASSUME NEW own, NEW ord, NEW s, NEW P, NEW a \in Seq(BusEvent(P)), a # <<>>
    PROVE  QueueSum(own, ord, s, a) = EventFillIn(own, ord, s, Head(a)) + QueueSum(own, ord, s, Tail(a))
<1> DEFINE S == BusEvent(P)
           v == EventFills(own, ord, s, P)
<1>1. /\ v \in [S -> Int] /\ \A e \in S : v[e] = EventFillIn(own, ord, s, e)
      /\ \A q \in Seq(S) : QueueSum(own, ord, s, q) = SumFunction(Mapped(v, q))
  BY QueueSumMapped
<1> HIDE DEF S, v
<1>2. a \in Seq(S)
  BY DEF S
<1>3. Head(a) \in S /\ Tail(a) \in Seq(S)
  BY <1>2, HeadTailProperties
<1>4. SumFunction(Mapped(v, a)) = v[Head(a)] + SumFunction(Mapped(v, Tail(a)))
  BY <1>1, <1>2, MappedTail
<1> QED BY <1>1, <1>2, <1>3, <1>4

LEMMA QueueSumZero ==
    ASSUME NEW own, NEW ord, NEW s, NEW P, NEW a \in Seq(BusEvent(P)),
           \A i \in 1..Len(a) : a[i].type # "TRADE"
    PROVE  QueueSum(own, ord, s, a) = 0
<1> DEFINE S == BusEvent(P)
           v == EventFills(own, ord, s, P)
<1>1. /\ v \in [S -> Int] /\ \A e \in S : v[e] = EventFillIn(own, ord, s, e)
      /\ \A q \in Seq(S) : QueueSum(own, ord, s, q) = SumFunction(Mapped(v, q))
  BY QueueSumMapped
<1> HIDE DEF S, v
<1>2. a \in Seq(S)
  BY DEF S
<1>3. \A i \in 1..Len(a) : a[i] \in S
  BY <1>2, ElementOfSeq
<1>4. \A i \in 1..Len(a) : v[a[i]] = 0
  BY <1>1, <1>3 DEF EventFillIn
<1> QED BY <1>1, <1>2, <1>4, MappedZero

LEMMA WorkSumMapped ==
    ASSUME NEW own, NEW ord, NEW s, NEW P
    PROVE  /\ WorkFills(own, ord, s, P) \in [WorkItem(P) -> Int]
           /\ \A e \in WorkItem(P) : WorkFills(own, ord, s, P)[e] = WorkFillIn(own, ord, s, e)
           /\ \A q \in Seq(WorkItem(P)) :
                 /\ WorkSum(own, ord, s, q) = SumFunction(Mapped(WorkFills(own, ord, s, P), q))
                 /\ WorkSum(own, ord, s, q) \in Int
<1> DEFINE S == WorkItem(P)
           v == WorkFills(own, ord, s, P)
<1>1. v \in [S -> Int] /\ \A e \in S : v[e] = WorkFillIn(own, ord, s, e)
  BY FillsTyped DEF WorkFills
<1>2. \A q \in Seq(S) : WorkSum(own, ord, s, q) = SumFunction(Mapped(v, q))
  BY SumsAreMapped
<1> HIDE DEF S, v
<1>3. \A q \in Seq(S) : SumFunction(Mapped(v, q)) \in Int
  BY <1>1, MappedTyped
<1> QED BY <1>1, <1>2, <1>3 DEF S, v

LEMMA WorkSumConcat ==
    ASSUME NEW own, NEW ord, NEW s, NEW P, NEW a \in Seq(WorkItem(P)), NEW b \in Seq(WorkItem(P))
    PROVE  WorkSum(own, ord, s, a \o b) = WorkSum(own, ord, s, a) + WorkSum(own, ord, s, b)
<1> DEFINE S == WorkItem(P)
           v == WorkFills(own, ord, s, P)
<1>1. v \in [S -> Int] /\ \A q \in Seq(S) : WorkSum(own, ord, s, q) = SumFunction(Mapped(v, q))
  BY WorkSumMapped
<1> HIDE DEF S, v
<1>2. a \in Seq(S) /\ b \in Seq(S)
  BY DEF S
<1>3. a \o b \in Seq(S)
  BY <1>2, ConcatProperties
<1>4. SumFunction(Mapped(v, a \o b)) = SumFunction(Mapped(v, a)) + SumFunction(Mapped(v, b))
  BY <1>1, <1>2, MappedConcat
<1> QED BY <1>1, <1>2, <1>3, <1>4

LEMMA WorkSumTail ==
    ASSUME NEW own, NEW ord, NEW s, NEW P, NEW a \in Seq(WorkItem(P)), a # <<>>
    PROVE  WorkSum(own, ord, s, a) = WorkFillIn(own, ord, s, Head(a)) + WorkSum(own, ord, s, Tail(a))
<1> DEFINE S == WorkItem(P)
           v == WorkFills(own, ord, s, P)
<1>1. /\ v \in [S -> Int] /\ \A e \in S : v[e] = WorkFillIn(own, ord, s, e)
      /\ \A q \in Seq(S) : WorkSum(own, ord, s, q) = SumFunction(Mapped(v, q))
  BY WorkSumMapped
<1> HIDE DEF S, v
<1>2. a \in Seq(S)
  BY DEF S
<1>3. Head(a) \in S /\ Tail(a) \in Seq(S)
  BY <1>2, HeadTailProperties
<1>4. SumFunction(Mapped(v, a)) = v[Head(a)] + SumFunction(Mapped(v, Tail(a)))
  BY <1>1, <1>2, MappedTail
<1> QED BY <1>1, <1>2, <1>3, <1>4

LEMMA WorkSumZero ==
    ASSUME NEW own, NEW ord, NEW s, NEW P, NEW a \in Seq(WorkItem(P)),
           \A i \in 1..Len(a) : a[i].do # "on_fill"
    PROVE  WorkSum(own, ord, s, a) = 0
<1> DEFINE S == WorkItem(P)
           v == WorkFills(own, ord, s, P)
<1>1. /\ v \in [S -> Int] /\ \A e \in S : v[e] = WorkFillIn(own, ord, s, e)
      /\ \A q \in Seq(S) : WorkSum(own, ord, s, q) = SumFunction(Mapped(v, q))
  BY WorkSumMapped
<1> HIDE DEF S, v
<1>2. a \in Seq(S)
  BY DEF S
<1>3. \A i \in 1..Len(a) : a[i] \in S
  BY <1>2, ElementOfSeq
<1>4. \A i \in 1..Len(a) : v[a[i]] = 0
  BY <1>1, <1>3 DEF WorkFillIn
<1> QED BY <1>1, <1>2, <1>4, MappedZero

\* Over the events of a match: each maker loses on the side of the taker what was
\* taken from it, and the taker is told of all of it.
LEMMA TradeEventsSum ==
    ASSUME NEW own, NEW ord, NEW s, NEW P, NEW side \in Side,
           NEW taken, IsFiniteSet(DOMAIN taken), DOMAIN taken \subseteq P,
           \A m \in DOMAIN taken : taken[m] \in Nat, NEW taker \in P,
           \A m \in DOMAIN taken : m # Outside => ord[m].side = Opposite(side),
           NEW lost, \A m \in DOMAIN taken :
              lost[m] = IF m # Outside /\ own[m] = s THEN Signed(side, taken[m]) ELSE 0
    PROVE  QueueSum(own, ord, s, TradeEvents(taken, taker))
              = FillIn(own, ord, s, taker, SumFunction(taken)) - SumFunctionOnSet(lost, DOMAIN taken)
<1> DEFINE D == DOMAIN taken
           M == {m \in D : taken[m] > 0}
           makers == SetToSeq(M)
           n == Len(makers)
           trade(i) == [type |-> "TRADE", of |-> [maker |-> makers[i], taker |-> taker,
                                                  quantity |-> taken[makers[i]]]]
           trades == [i \in 1..n |-> trade(i)]
           gained == [m \in D |-> FillIn(own, ord, s, m, taken[m])]
           told   == [m \in D |-> FillIn(own, ord, s, taker, taken[m])]
           both   == [m \in D |-> gained[m] + told[m]]
<1>1. IsFiniteSet(D) /\ IsFiniteSet(M) /\ IsFiniteSet(D \ M)
  BY FS_Subset
<1>2. /\ makers \in Seq(M) /\ makers \in Bijection(1..n, M) /\ n \in Nat
      /\ \A i \in 1..n : makers[i] \in M
  <2>1. makers \in Seq(M)
    BY <1>1, SetToSeqFacts
  <2>2. makers \in Bijection(1..n, M)
    BY <1>1, SetToSeqFacts
  <2> HIDE DEF makers, M
  <2> QED BY <2>1, <2>2, ElementOfSeq, LenProperties
<1>3. \A m \in D : /\ gained[m] = FillIn(own, ord, s, m, taken[m]) /\ gained[m] \in Int
                   /\ told[m] = FillIn(own, ord, s, taker, taken[m]) /\ told[m] \in Int
                   /\ both[m] = gained[m] + told[m] /\ both[m] \in Int
                   /\ gained[m] = -lost[m] /\ lost[m] \in Int
                   /\ (m \notin M => both[m] = 0)
  <2> TAKE m \in D
  <2>1. taken[m] \in Nat /\ (m \notin M => taken[m] = 0)
    OBVIOUS
  <2>2. FillIn(own, ord, s, m, taken[m]) = -lost[m] /\ lost[m] \in Int
    BY <2>1 DEF FillIn, Signed, Opposite, Side
  <2>3. FillIn(own, ord, s, taker, taken[m]) \in Int
        /\ (taken[m] = 0 => FillIn(own, ord, s, taker, taken[m]) = 0)
    BY <2>1 DEF FillIn, Signed
  <2>4. taken[m] = 0 => FillIn(own, ord, s, m, taken[m]) = 0
    <3>1. -taken[m] = 0 - taken[m]
      BY <2>1
    <3>2. taken[m] = 0 => -taken[m] = 0
      BY <3>1
    <3> QED BY <3>2 DEF FillIn, Signed
  <2>5. FillIn(own, ord, s, m, taken[m]) \in Int
    BY <2>2
  <2> QED BY <2>1, <2>2, <2>3, <2>4, <2>5
<1> HIDE DEF makers, n, gained, told, both
<1>4. /\ trades \in Seq(BusEvent(P)) /\ Len(trades) = n
      /\ \A i \in 1..n : EventFillIn(own, ord, s, trades[i]) = both[makers[i]]
  <2>1. \A i \in 1..n : /\ trade(i) \in BusEvent(P)
                        /\ EventFillIn(own, ord, s, trade(i)) = both[makers[i]]
    <3> TAKE i \in 1..n
    <3>1. makers[i] \in D /\ makers[i] \in P /\ taken[makers[i]] \in Nat
      BY <1>2
    <3>2. trade(i) \in BusEvent(P)
      BY <3>1 DEF BusEvent
    <3>3. EventFillIn(own, ord, s, trade(i))
             = FillIn(own, ord, s, makers[i], taken[makers[i]])
                 + FillIn(own, ord, s, taker, taken[makers[i]])
      BY DEF EventFillIn
    <3> QED BY <1>3, <3>1, <3>2, <3>3
  <2>2. \A i \in 1..n : trades[i] = trade(i)
    OBVIOUS
  <2> HIDE DEF trade
  <2>3. trades \in Seq(BusEvent(P))
    BY <1>2, <2>1, IsASeq
  <2>4. DOMAIN trades = 1..n /\ DOMAIN trades = 1..Len(trades) /\ Len(trades) \in Nat
    BY <2>3, LenProperties
  <2>5. Len(trades) = n
    BY <1>2, <2>4
  <2> QED BY <2>1, <2>2, <2>3, <2>5
<1>5. TradeEvents(taken, taker) = trades \o BookUpdate
  BY DEF TradeEvents, makers, n
<1> HIDE DEF trades, M, D
<1>6. QueueSum(own, ord, s, trades) = SumFunctionOnSet(both, M)
  <2> DEFINE fills == [i \in 1..n |-> EventFillIn(own, ord, s, trades[i])]
             E == 1..n
  <2>1. QueueSum(own, ord, s, trades) = SumFunctionOnSet(fills, E)
    BY <1>4 DEF QueueSum, SumFunction
  <2>2. IsFiniteSet(E)
    BY <1>2, FS_Interval
  <2>3. makers \in Bijection(E, M)
    BY <1>2
  <2>4. \A i \in E : both[makers[i]] \in Int /\ fills[i] = both[makers[i]]
    BY <1>2, <1>3, <1>4 DEF M
  <2> HIDE DEF fills, E
  <2> QED BY <2>1, <2>2, <2>3, <2>4, SumImage
<1>7. SumFunctionOnSet(both, D) = SumFunctionOnSet(both, M)
  <2>1. M \union (D \ M) = D /\ M \intersect (D \ M) = {}
    BY DEF M
  <2>2. \A m \in M \union (D \ M) : both[m] \in Int
    BY <1>3, <2>1
  <2>3. SumFunctionOnSet(both, M \union (D \ M))
           = SumFunctionOnSet(both, M) + SumFunctionOnSet(both, D \ M)
    BY <1>1, <2>1, <2>2, SumUnion
  <2>4. \A m \in D \ M : both[m] = 0
    BY <1>3
  <2>5. SumFunctionOnSet(both, D \ M) = 0
    BY <1>1, <2>4, SumZero
  <2>6. SumFunctionOnSet(both, M) \in Int
    BY <1>1, <2>2, SumSplit
  <2>7. SumFunctionOnSet(both, D) = SumFunctionOnSet(both, M) + SumFunctionOnSet(both, D \ M)
    BY <2>1, <2>3
  <2> QED BY <2>5, <2>6, <2>7
<1>8. SumFunctionOnSet(both, D) = SumFunctionOnSet(gained, D) + SumFunctionOnSet(told, D)
  BY <1>1, <1>3, SumPlus
<1>9. SumFunctionOnSet(gained, D) = -SumFunctionOnSet(lost, D)
  BY <1>1, <1>3, SumNegate
<1>10. SumFunctionOnSet(told, D) = FillIn(own, ord, s, taker, SumFunction(taken))
  <2>1. SumFunction(taken) = SumFunctionOnSet(taken, D) /\ \A m \in D : taken[m] \in Int
    BY DEF SumFunction, D
  <2>2. CASE ~(taker # Outside /\ own[taker] = s)
    <3>1. \A m \in D : told[m] = 0
      BY <1>3, <2>2 DEF FillIn
    <3> QED BY <1>1, <2>2, <3>1, SumZero DEF FillIn
  <2>3. CASE taker # Outside /\ own[taker] = s /\ ord[taker].side = "BUY"
    <3>1. \A m \in D : told[m] = taken[m]
      BY <1>3, <2>3 DEF FillIn, Signed
    <3>2. SumFunctionOnSet(told, D) = SumFunctionOnSet(taken, D)
      BY <1>1, <2>1, <3>1, SumCongruence
    <3> QED BY <2>1, <2>3, <3>2 DEF FillIn, Signed
  <2>4. CASE taker # Outside /\ own[taker] = s /\ ord[taker].side # "BUY"
    <3>1. \A m \in D : told[m] = -taken[m]
      BY <1>3, <2>4 DEF FillIn, Signed
    <3>2. SumFunctionOnSet(told, D) = -SumFunctionOnSet(taken, D)
      BY <1>1, <2>1, <3>1, SumNegate
    <3> QED BY <2>1, <2>4, <3>2 DEF FillIn, Signed
  <2> QED BY <2>2, <2>3, <2>4
<1>11. QueueSum(own, ord, s, trades \o BookUpdate) = QueueSum(own, ord, s, trades)
  <2>1. BookUpdate \in Seq(BusEvent(P))
    BY UpdatesTyped
  <2>2. \A i \in 1..Len(BookUpdate) : BookUpdate[i].type # "TRADE"
    <3>1. Len(BookUpdate) = 1 /\ BookUpdate[1] = [type |-> "BOOK_UPDATE", of |-> None]
      BY UpdatesTyped
    <3>2. BookUpdate[1].type # "TRADE"
      BY <3>1
    <3> QED BY <3>1, <3>2
  <2>3. trades \in Seq(BusEvent(P))
    BY <1>4
  <2>4. QueueSum(own, ord, s, BookUpdate) = 0
    BY <2>1, <2>2, QueueSumZero
  <2>5. QueueSum(own, ord, s, trades \o BookUpdate)
           = QueueSum(own, ord, s, trades) + QueueSum(own, ord, s, BookUpdate)
    BY <2>1, <2>3, QueueSumConcat
  <2>6. QueueSum(own, ord, s, trades) \in Int
    BY <2>3, QueueSumMapped
  <2> QED BY <2>4, <2>5, <2>6
<1>12. SumFunctionOnSet(lost, D) \in Int /\ SumFunctionOnSet(told, D) \in Int
  BY <1>1, <1>3, SumSplit
<1> QED BY <1>5, <1>6, <1>7, <1>8, <1>9, <1>10, <1>11, <1>12 DEF D

\* A step takes nothing from what is on its way to s.
LEMMA StillTold ==
    ASSUME Kept, NEW s
    PROVE  /\ \A q \in Seq(BusEvent(Party)) :
                 QueueSum(owner', orders', s, q) = QueueSum(owner, orders, s, q)
           /\ \A w \in Seq(WorkItem(Party)) :
                 WorkSum(owner', orders', s, w) = WorkSum(owner, orders, s, w)
<1>1. \A p \in Party : p # Outside => owner'[p] = owner[p] /\ orders'[p].side = orders[p].side
  BY DEF Kept, Party
<1>2. /\ EventFills(owner', orders', s, Party) = EventFills(owner, orders, s, Party)
      /\ WorkFills(owner', orders', s, Party) = WorkFills(owner, orders, s, Party)
  BY <1>1, FillsKept
<1>3. \A q \in Seq(BusEvent(Party)) :
         /\ QueueSum(owner', orders', s, q) = SumFunction(Mapped(EventFills(owner', orders', s, Party), q))
         /\ QueueSum(owner, orders, s, q) = SumFunction(Mapped(EventFills(owner, orders, s, Party), q))
  BY SumsAreMapped
<1>4. \A w \in Seq(WorkItem(Party)) :
         /\ WorkSum(owner', orders', s, w) = SumFunction(Mapped(WorkFills(owner', orders', s, Party), w))
         /\ WorkSum(owner, orders, s, w) = SumFunction(Mapped(WorkFills(owner, orders, s, Party), w))
  BY SumsAreMapped
<1> QED BY <1>2, <1>3, <1>4

\* The bus takes events and drops none.
LEMMA EmitSum ==
    ASSUME RuntimeInv, Kept, NEW R, Party \subseteq R, NEW events \in Seq(BusEvent(R)),
           Emit(events), ~lossy', NEW s
    PROVE  /\ ~lossy
           /\ QueueSum(owner', orders', s, queue')
                 = QueueSum(owner, orders, s, queue) + QueueSum(owner', orders', s, events)
<1>1. /\ queue \in Seq(BusEvent(Party)) /\ Len(queue) <= QueueDepth /\ lossy \in BOOLEAN
      /\ QueueDepth \in Nat
  BY DepthAssumption DEF RuntimeInv, Typed, TypeOK
<1>2. queue \in Seq(BusEvent(R))
  BY <1>1, MorePartiesKnown
<1>3. Shed(queue, events, QueueDepth) \in Nat
  BY <1>1, <1>2, AdmittedType
<1>4. /\ queue' = Admitted(queue, events, QueueDepth)
      /\ lossy' = (lossy \/ Shed(queue, events, QueueDepth) > 0)
  BY DEF Emit
<1>5. ~lossy /\ ~(Shed(queue, events, QueueDepth) > 0)
  BY <1>4
<1>6. Shed(queue, events, QueueDepth) = 0
  BY <1>3, <1>5
<1>7. queue' = queue \o events
  BY <1>1, <1>2, <1>4, <1>6, AdmittedWhole
<1>8. QueueSum(owner', orders', s, queue \o events)
         = QueueSum(owner', orders', s, queue) + QueueSum(owner', orders', s, events)
  BY <1>2, QueueSumConcat
<1>9. QueueSum(owner', orders', s, queue) = QueueSum(owner, orders, s, queue)
  BY <1>1, StillTold
<1> QED BY <1>5, <1>7, <1>8, <1>9

\* Book updates tell of no fill.
LEMMA UpdatesSum ==
    ASSUME NEW own, NEW ord, NEW s, NEW k \in Nat
    PROVE  /\ QueueSum(own, ord, s, [i \in 1..k |-> BookUpdate[1]]) = 0
           /\ QueueSum(own, ord, s, BookUpdate) = 0
<1> DEFINE many == [i \in 1..k |-> BookUpdate[1]]
<1>1. many \in Seq(BusEvent({}))
  BY UpdatesTyped
<1>2. BookUpdate \in Seq(BusEvent({}))
  BY UpdatesTyped
<1>3. BookUpdate[1].type # "TRADE" /\ Len(BookUpdate) = 1
  BY UpdatesTyped
<1>4. \A i \in 1..k : many[i].type # "TRADE"
  BY <1>3
<1>5. DOMAIN many = 1..k
  OBVIOUS
<1> HIDE DEF many
<1>6. Len(many) = k
  <2>1. DOMAIN many = 1..Len(many) /\ Len(many) \in Nat
    BY <1>1, LenProperties
  <2> QED BY <1>5, <2>1
<1>7. QueueSum(own, ord, s, many) = 0
  <2>1. \A i \in 1..Len(many) : many[i].type # "TRADE"
    BY <1>4, <1>6
  <2> QED BY <1>1, <2>1, QueueSumZero
<1>8. QueueSum(own, ord, s, BookUpdate) = 0
  <2>1. \A i \in 1..Len(BookUpdate) : BookUpdate[i].type # "TRADE"
    BY <1>3
  <2> QED BY <1>2, <2>1, QueueSumZero
<1> QED BY <1>7, <1>8 DEF many

\* The head of work is done, and was no fill.
LEMMA TailSum ==
    ASSUME RuntimeInv, Kept, work # <<>>, Head(work).do # "on_fill", NEW s
    PROVE  WorkSum(owner', orders', s, Tail(work)) = WorkSum(owner, orders, s, work)
<1>1. work \in Seq(WorkItem(Party))
  BY DEF RuntimeInv, Typed
<1>2. Tail(work) \in Seq(WorkItem(Party))
  BY WorkDone DEF RuntimeInv
<1>3. WorkSum(owner, orders, s, work)
         = WorkFillIn(owner, orders, s, Head(work)) + WorkSum(owner, orders, s, Tail(work))
  BY <1>1, WorkSumTail
<1>4. WorkFillIn(owner, orders, s, Head(work)) = 0
  BY DEF WorkFillIn
<1>5. WorkSum(owner, orders, s, Tail(work)) \in Int
  BY <1>2, WorkSumMapped
<1>6. WorkSum(owner', orders', s, Tail(work)) = WorkSum(owner, orders, s, Tail(work))
  BY <1>2, StillTold
<1> QED BY <1>3, <1>4, <1>5, <1>6

\* Before a step, in terms of these sums.
LEMMA ExactBefore ==
    ASSUME RuntimeInv, PositionExact, ~lossy, NEW s \in Strategy
    PROVE  /\ position[s] + QueueSum(owner, orders, s, queue) + WorkSum(owner, orders, s, work) = net[s]
           /\ position[s] \in Int /\ net[s] \in Int
           /\ QueueSum(owner, orders, s, queue) \in Int
           /\ WorkSum(owner, orders, s, work) \in Int
<1>1. position[s] \in Int /\ net[s] \in Int
  BY DEF RuntimeInv, Typed, TypeOK
<1>2. queue \in Seq(BusEvent(Party)) /\ work \in Seq(WorkItem(Party))
  BY DEF RuntimeInv, Typed
<1>3. QueueSum(owner, orders, s, queue) \in Int
  BY <1>2, QueueSumMapped
<1>4. WorkSum(owner, orders, s, work) \in Int
  BY <1>2, WorkSumMapped
<1>5. position[s] + PendingFills(s) = net[s]
  BY DEF PositionExact
<1>6. PendingFills(s) = QueueSum(owner, orders, s, queue) + WorkSum(owner, orders, s, work)
  BY PendingIsSum
<1> QED BY <1>1, <1>3, <1>4, <1>5, <1>6

\* After it.
LEMMA ExactAfter ==
    ASSUME RuntimeInv',
           ASSUME ~lossy', NEW s \in Strategy
           PROVE  position'[s] + QueueSum(owner', orders', s, queue')
                     + WorkSum(owner', orders', s, work') = net'[s]
    PROVE  PositionExact'
<1> SUFFICES ASSUME ~lossy', NEW s \in Strategy PROVE position'[s] + PendingFills(s)' = net'[s]
  BY DEF PositionExact
<1>1. position'[s] \in Int
  BY DEF RuntimeInv, Typed, TypeOK
<1>2. queue' \in Seq(BusEvent(Party')) /\ work' \in Seq(WorkItem(Party'))
  BY DEF RuntimeInv, Typed
<1>3. QueueSum(owner', orders', s, queue') \in Int
  BY <1>2, QueueSumMapped
<1>4. WorkSum(owner', orders', s, work') \in Int
  BY <1>2, WorkSumMapped
<1>5. PendingFills(s)' = QueueSum(owner', orders', s, queue') + WorkSum(owner', orders', s, work')
  BY PendingIsSum
<1>6. position'[s] + QueueSum(owner', orders', s, queue') + WorkSum(owner', orders', s, work') = net'[s]
  OBVIOUS
<1> QED BY <1>1, <1>3, <1>4, <1>5, <1>6

\* Steps in which nothing is traded and no fill is booked.
LEMMA QuietStep ==
    ASSUME RuntimeInv, RuntimeInv', PositionExact, Kept, UNCHANGED <<position, net>>,
           \/ UNCHANGED <<queue, lossy>>
           \/ Emit(BookUpdate)
           \/ \E k \in Nat : Emit([i \in 1..k |-> BookUpdate[1]]),
           \A s \in Strategy : WorkSum(owner', orders', s, work') = WorkSum(owner, orders, s, work)
    PROVE  PositionExact'
<1>1. ASSUME ~lossy', NEW s \in Strategy
      PROVE  /\ ~lossy
             /\ QueueSum(owner', orders', s, queue') = QueueSum(owner, orders, s, queue)
  <2>1. queue \in Seq(BusEvent(Party)) /\ QueueSum(owner, orders, s, queue) \in Int
    <3>1. queue \in Seq(BusEvent(Party))
      BY DEF RuntimeInv, Typed
    <3> QED BY <3>1, QueueSumMapped
  <2>2. CASE UNCHANGED <<queue, lossy>>
    BY <1>1, <2>1, <2>2, StillTold
  <2>3. ASSUME NEW events \in Seq(BusEvent(Party)), Emit(events),
               QueueSum(owner', orders', s, events) = 0
        PROVE  /\ ~lossy
               /\ QueueSum(owner', orders', s, queue') = QueueSum(owner, orders, s, queue)
    <3>1. /\ ~lossy
          /\ QueueSum(owner', orders', s, queue')
                = QueueSum(owner, orders, s, queue) + QueueSum(owner', orders', s, events)
      BY <1>1, <2>3, EmitSum
    <3> QED BY <2>1, <2>3, <3>1
  <2>4. CASE Emit(BookUpdate)
    <3>1. BookUpdate \in Seq(BusEvent(Party))
      BY UpdatesTyped
    <3>2. QueueSum(owner', orders', s, BookUpdate) = 0
      BY UpdatesSum
    <3> QED BY <2>3, <2>4, <3>1, <3>2
  <2>5. ASSUME NEW k \in Nat, Emit([i \in 1..k |-> BookUpdate[1]])
        PROVE  /\ ~lossy
               /\ QueueSum(owner', orders', s, queue') = QueueSum(owner, orders, s, queue)
    <3> DEFINE events == [i \in 1..k |-> BookUpdate[1]]
    <3>1. events \in Seq(BusEvent(Party))
      BY UpdatesTyped
    <3>2. QueueSum(owner', orders', s, events) = 0
      BY UpdatesSum
    <3>3. Emit(events)
      BY <2>5
    <3> HIDE DEF events
    <3> QED BY <2>3, <3>1, <3>2, <3>3
  <2> QED BY <2>2, <2>4, <2>5
<1>2. ASSUME ~lossy', NEW s \in Strategy
      PROVE  position'[s] + QueueSum(owner', orders', s, queue')
                + WorkSum(owner', orders', s, work') = net'[s]
  BY <1>1, <1>2, ExactBefore
<1> QED BY <1>2, ExactAfter

\* Another client trades with strategies: what their makers lose is on the bus.
LEMMA OutsideTradeExact ==
    ASSUME RuntimeInv, RuntimeInv', PositionExact, NEW side \in Side, OutsideTrade(side)
    PROVE  PositionExact'
<1>1. PICK taken \in Takings(side) :
         /\ Emit(TradeEvents(taken, Outside))
         /\ net' = [s \in Strategy |-> net[s] - NetOfMakers(taken, side)[s]]
  BY DEF OutsideTrade
<1>2. Typed /\ UNCHANGED <<position, owner, work>> /\ Kept
  BY OutsideTradeEffect DEF RuntimeInv, OutsideTrade
<1>3. /\ DOMAIN taken \subseteq Known /\ IsFiniteSet(DOMAIN taken)
      /\ \A m \in DOMAIN taken : taken[m] \in Nat /\ orders[m].side = Opposite(side)
  BY <1>2, TakingsFacts
<1>4. DOMAIN taken \subseteq Party /\ Outside \in Party
  BY <1>3 DEF Party
<1>5. TradeEvents(taken, Outside) \in Seq(BusEvent(Party))
  BY <1>3, <1>4, TradeEventsTyped
<1>6. \A m \in DOMAIN taken : orders'[m].side = Opposite(side)
  BY <1>2, <1>3 DEF Kept
<1>7. ASSUME ~lossy', NEW s \in Strategy
      PROVE  position'[s] + QueueSum(owner', orders', s, queue')
                + WorkSum(owner', orders', s, work') = net'[s]
  <2> DEFINE lost == [m \in DOMAIN taken |->
                         IF m # Outside /\ owner[m] = s THEN Signed(side, taken[m]) ELSE 0]
             loss == SumFunctionOnSet(lost, DOMAIN taken)
             gain == QueueSum(owner', orders', s, TradeEvents(taken, Outside))
  <2>1. loss = NetOfMakers(taken, side)[s]
    BY DEF NetOfMakers, SumFunction
  <2>2. loss \in Int
    BY <1>3, <2>1, TakenSums
  <2>3. \A m \in DOMAIN taken :
           lost[m] = IF m # Outside /\ owner'[m] = s THEN Signed(side, taken[m]) ELSE 0
    BY <1>2
  <2> HIDE DEF lost
  <2>4. gain = FillIn(owner', orders', s, Outside, SumFunction(taken)) - loss
    BY <1>3, <1>4, <1>6, <2>3, TradeEventsSum
  <2>5. FillIn(owner', orders', s, Outside, SumFunction(taken)) = 0
    BY DEF FillIn
  <2> HIDE DEF loss, gain
  <2>6. /\ ~lossy
        /\ QueueSum(owner', orders', s, queue') = QueueSum(owner, orders, s, queue) + gain
    BY <1>1, <1>2, <1>5, <1>7, EmitSum DEF gain
  <2>7. /\ position[s] + QueueSum(owner, orders, s, queue) + WorkSum(owner, orders, s, work) = net[s]
        /\ position[s] \in Int /\ net[s] \in Int
        /\ QueueSum(owner, orders, s, queue) \in Int
        /\ WorkSum(owner, orders, s, work) \in Int
    BY <2>6, ExactBefore
  <2>8. WorkSum(owner', orders', s, work') = WorkSum(owner, orders, s, work)
    BY <1>2, StillTold DEF Typed
  <2>9. net'[s] = net[s] - loss /\ position'[s] = position[s]
    BY <1>1, <1>2, <2>1
  <2> QED BY <2>2, <2>4, <2>5, <2>6, <2>7, <2>8, <2>9
<1> QED BY <1>7, ExactAfter

\* An order of a strategy is matched, with orders of its own perhaps.
LEMMA SubmitExact ==
    ASSUME RuntimeInv, RuntimeInv', PositionExact, NEW o \in OrderId, SubmitProposal(o)
    PROVE  PositionExact'
<1> DEFINE t == Head(work).strategy
           intent == Head(work).intent
           R == Party \union {o}
<1>1. /\ work # <<>> /\ Head(work).do = "submit" /\ work' = Tail(work)
      /\ t \in Strategy /\ intent \in Intent /\ orders[o] = None
      /\ position' = position /\ owner' = [owner EXCEPT ![o] = t]
      /\ Kept /\ orders'[o].side = intent.side
  BY SubmitEffect
<1>2. GatewayMatch(o, t, intent) \/ GatewayReject(o, intent)
  BY DEF SubmitProposal
<1> HIDE DEF t, intent
<1>3. Typed
  BY DEF RuntimeInv
<1>4. Head(work).do # "on_fill"
  BY <1>1
<1>5. \A s \in Strategy : WorkSum(owner', orders', s, work') = WorkSum(owner, orders, s, work)
  BY <1>1, <1>4, TailSum
<1>6. CASE GatewayReject(o, intent)
  <2>1. UNCHANGED <<queue, lossy, net>>
    BY <1>6 DEF GatewayReject
  <2> QED BY <1>1, <1>5, <2>1, QuietStep
<1>7. CASE GatewayMatch(o, t, intent)
  <2>1. PICK resting, taken : Matched(o, t, intent, resting, taken)
    BY <1>1, <1>3, <1>7, GatewayMatched
  <2>2. /\ Emit(TradeEvents(taken, o))
        /\ net' = [s \in Strategy |-> net[s] - NetOfMakers(taken, intent.side)[s]
                      + (IF s = t THEN Signed(intent.side, SumFunction(taken)) ELSE 0)]
    BY <2>1 DEF Matched
  <2>3. /\ DOMAIN taken \subseteq Party /\ IsFiniteSet(DOMAIN taken)
        /\ \A m \in DOMAIN taken : taken[m] \in Nat
        /\ \A m \in DOMAIN taken : m # Outside => m \in Known /\ orders[m].side = Opposite(intent.side)
        /\ SumFunction(taken) \in Nat
        /\ \A s \in Strategy : NetOfMakers(taken, intent.side)[s] \in Int
    BY <1>1, <1>3, <2>1, MatchedFacts
  <2>4. DOMAIN taken \subseteq R /\ o \in R /\ Party \subseteq R
    BY <2>3
  <2> HIDE DEF R
  <2>5. TradeEvents(taken, o) \in Seq(BusEvent(R))
    BY <2>3, <2>4, TradeEventsTyped
  <2>6. \A m \in DOMAIN taken : m # Outside => /\ orders'[m].side = Opposite(intent.side)
                                               /\ owner'[m] = owner[m]
    BY <1>1, <2>3 DEF Kept
  <2>7. intent.side \in Side /\ o # Outside /\ owner'[o] = t
    <3>1. owner \in [OrderId -> Strategy \union {None}]
      BY <1>3 DEF Typed, TypeOK
    <3>2. intent.side \in Side
      BY <1>1 DEF Intent
    <3> QED BY <1>1, <3>1, <3>2, NamesAssumption
  <2>8. ASSUME ~lossy', NEW s \in Strategy
        PROVE  position'[s] + QueueSum(owner', orders', s, queue')
                  + WorkSum(owner', orders', s, work') = net'[s]
    <3> DEFINE lost == [m \in DOMAIN taken |->
                           IF m # Outside /\ owner[m] = s THEN Signed(intent.side, taken[m]) ELSE 0]
               loss == SumFunctionOnSet(lost, DOMAIN taken)
               gain == QueueSum(owner', orders', s, TradeEvents(taken, o))
               own == FillIn(owner', orders', s, o, SumFunction(taken))
    <3>1. loss = NetOfMakers(taken, intent.side)[s]
      BY DEF NetOfMakers, SumFunction
    <3>2. loss \in Int
      BY <2>3, <3>1
    <3>3. \A m \in DOMAIN taken :
             lost[m] = IF m # Outside /\ owner'[m] = s THEN Signed(intent.side, taken[m]) ELSE 0
      BY <2>6
    <3> HIDE DEF lost
    <3>4. gain = own - loss
      BY <2>3, <2>4, <2>6, <2>7, <3>3, TradeEventsSum
    <3>5. own = (IF s = t THEN Signed(intent.side, SumFunction(taken)) ELSE 0) /\ own \in Int
      BY <1>1, <2>3, <2>7 DEF FillIn, Signed
    <3> HIDE DEF loss, gain, own
    <3>6. /\ ~lossy
          /\ QueueSum(owner', orders', s, queue') = QueueSum(owner, orders, s, queue) + gain
      BY <1>1, <2>2, <2>4, <2>5, <2>8, EmitSum DEF gain
    <3>7. /\ position[s] + QueueSum(owner, orders, s, queue) + WorkSum(owner, orders, s, work) = net[s]
          /\ position[s] \in Int /\ net[s] \in Int
          /\ QueueSum(owner, orders, s, queue) \in Int
          /\ WorkSum(owner, orders, s, work) \in Int
      BY <3>6, ExactBefore
    <3>8. net'[s] = net[s] - loss + own /\ position'[s] = position[s]
      BY <1>1, <2>2, <3>1, <3>5
    <3> QED BY <1>5, <3>2, <3>4, <3>5, <3>6, <3>7, <3>8
  <2> QED BY <2>8, ExactAfter
<1> QED BY <1>2, <1>6, <1>7

\* An event leaves the bus, and its fills are to be booked.
LEMMA ProcessEventExact ==
    ASSUME RuntimeInv, RuntimeInv', PositionExact, ProcessEvent
    PROVE  PositionExact'
<1> DEFINE e == Head(queue)
<1>1. Typed /\ UNCHANGED <<position, owner, orders, lossy, net>>
  BY DEF RuntimeInv, ProcessEvent
<1>2. /\ work = <<>> /\ queue # <<>> /\ queue' = Tail(queue)
      /\ e.type # "TRADE" => work' = Calls("on_book_update")
      /\ e.type = "TRADE" =>
            /\ e.of \in [maker: Party, taker: Party, quantity: Nat]
            /\ work' = FillItems(e.of) \o Calls("on_trade")
  BY <1>1, ProcessEventEffect
<1>3. queue \in Seq(BusEvent(Party)) /\ work \in Seq(WorkItem(Party))
  BY <1>1 DEF Typed
<1>4. Tail(queue) \in Seq(BusEvent(Party))
  BY <1>2, <1>3, HeadTailProperties
<1> HIDE DEF e
<1>5. ASSUME NEW s \in Strategy, NEW callback \in {"on_book_update", "on_trade"}
      PROVE  Calls(callback) \in Seq(WorkItem(Party)) /\ WorkSum(owner, orders, s, Calls(callback)) = 0
  <2>1. Calls(callback) \in Seq(WorkItem(Party))
    BY <1>1, CallsTyped
  <2>2. \A i \in 1..Len(Calls(callback)) : Calls(callback)[i].do = callback
    BY <1>1, CallsTyped
  <2>3. \A i \in 1..Len(Calls(callback)) : Calls(callback)[i].do # "on_fill"
    BY <2>2
  <2> QED BY <2>1, <2>3, WorkSumZero
<1>6. ASSUME NEW s \in Strategy
      PROVE  WorkSum(owner, orders, s, work') = EventFillIn(owner, orders, s, e)
  <2>1. CASE e.type # "TRADE"
    BY <1>2, <1>5, <2>1 DEF EventFillIn
  <2>2. CASE e.type = "TRADE"
    <3> DEFINE fills == FillItems(e.of)
               calls == Calls("on_trade")
    <3>1. /\ fills \in Seq(WorkItem(Party)) /\ Len(fills) = 2
          /\ fills[1] = [do |-> "on_fill", order |-> e.of.maker, quantity |-> e.of.quantity]
          /\ fills[2] = [do |-> "on_fill", order |-> e.of.taker, quantity |-> e.of.quantity]
      BY <1>2, <2>2, FillItemsTyped
    <3>2. calls \in Seq(WorkItem(Party)) /\ WorkSum(owner, orders, s, calls) = 0
      BY <1>5
    <3>3. work' = fills \o calls
      BY <1>2, <2>2
    <3> HIDE DEF fills, calls
    <3>4. fills # <<>> /\ Head(fills) = fills[1]
      BY <3>1, EmptySeq, HeadTailProperties
    <3> DEFINE rest == Tail(fills)
    <3>5. rest \in Seq(WorkItem(Party)) /\ Len(rest) = 1 /\ rest[1] = fills[2]
      <4>1. rest \in Seq(WorkItem(Party)) /\ Len(rest) = Len(fills) - 1
        BY <3>1, <3>4, HeadTailProperties
      <4>2. \A i \in 1..Len(rest) : rest[i] = fills[i + 1]
        BY <3>1, <3>4, HeadTailProperties
      <4> HIDE DEF rest
      <4>3. Len(rest) = 1
        BY <3>1, <4>1
      <4>4. rest[1] = fills[1 + 1]
        BY <4>2, <4>3
      <4>5. 1 + 1 = 2
        OBVIOUS
      <4> QED BY <4>1, <4>3, <4>4, <4>5
    <3>6. WorkSum(owner, orders, s, fills)
             = WorkFillIn(owner, orders, s, fills[1]) + WorkSum(owner, orders, s, rest)
      BY <3>1, <3>4, WorkSumTail
    <3> HIDE DEF rest
    <3>7. rest # <<>> /\ Head(rest) = rest[1]
      BY <3>5, EmptySeq, HeadTailProperties
    <3>8. Tail(rest) \in Seq(WorkItem(Party)) /\ Len(Tail(rest)) = 0
      BY <3>5, <3>7, HeadTailProperties
    <3>9. WorkSum(owner, orders, s, rest)
             = WorkFillIn(owner, orders, s, fills[2]) + WorkSum(owner, orders, s, Tail(rest))
      BY <3>5, <3>7, WorkSumTail
    <3>10. WorkSum(owner, orders, s, Tail(rest)) = 0
      <4> DEFINE none == Tail(rest)
      <4>1. none \in Seq(WorkItem(Party)) /\ Len(none) = 0
        BY <3>8
      <4> HIDE DEF none
      <4>2. \A i \in 1..Len(none) : none[i].do # "on_fill"
        BY <4>1
      <4>3. WorkSum(owner, orders, s, none) = 0
        BY <4>1, <4>2, WorkSumZero
      <4> QED BY <4>3 DEF none
    <3>11. /\ WorkFillIn(owner, orders, s, fills[1]) = FillIn(owner, orders, s, e.of.maker, e.of.quantity)
           /\ WorkFillIn(owner, orders, s, fills[2]) = FillIn(owner, orders, s, e.of.taker, e.of.quantity)
      BY <3>1 DEF WorkFillIn
    <3>12. /\ FillIn(owner, orders, s, e.of.maker, e.of.quantity) \in Int
           /\ FillIn(owner, orders, s, e.of.taker, e.of.quantity) \in Int
      BY <1>2, <2>2 DEF FillIn, Signed
    <3>13. WorkSum(owner, orders, s, fills \o calls)
              = WorkSum(owner, orders, s, fills) + WorkSum(owner, orders, s, calls)
      BY <3>1, <3>2, WorkSumConcat
    <3>14. EventFillIn(owner, orders, s, e)
              = FillIn(owner, orders, s, e.of.maker, e.of.quantity)
                  + FillIn(owner, orders, s, e.of.taker, e.of.quantity)
      BY <2>2 DEF EventFillIn
    <3> QED BY <3>2, <3>3, <3>6, <3>9, <3>10, <3>11, <3>12, <3>13, <3>14
  <2> QED BY <2>1, <2>2
<1>7. ASSUME ~lossy', NEW s \in Strategy
      PROVE  position'[s] + QueueSum(owner', orders', s, queue')
                + WorkSum(owner', orders', s, work') = net'[s]
  <2>1. /\ position[s] + QueueSum(owner, orders, s, queue) + WorkSum(owner, orders, s, work) = net[s]
        /\ position[s] \in Int /\ net[s] \in Int
        /\ WorkSum(owner, orders, s, work) \in Int
    BY <1>1, <1>7, ExactBefore
  <2>2. QueueSum(owner, orders, s, queue)
           = EventFillIn(owner, orders, s, e) + QueueSum(owner, orders, s, Tail(queue))
    BY <1>2, <1>3, QueueSumTail DEF e
  <2>3. QueueSum(owner, orders, s, Tail(queue)) \in Int
    BY <1>4, QueueSumMapped
  <2>4. WorkSum(owner, orders, s, work) = 0
    <3>1. \A i \in 1..Len(work) : work[i].do # "on_fill"
      BY <1>2, EmptySeq
    <3> QED BY <1>3, <3>1, WorkSumZero
  <2>5. EventFillIn(owner, orders, s, e) \in Int
    <3>1. work' \in Seq(WorkItem(Party))
      BY <1>1, ProcessEventEffect
    <3>2. WorkSum(owner, orders, s, work') \in Int
      BY <3>1, WorkSumMapped
    <3> QED BY <1>6, <3>2
  <2> QED BY <1>1, <1>2, <1>6, <2>1, <2>2, <2>3, <2>4, <2>5
<1> QED BY <1>7, ExactAfter

\* A fill is booked, once.
LEMMA OnFillExact ==
    ASSUME RuntimeInv, RuntimeInv', PositionExact, OnFill
    PROVE  PositionExact'
<1> DEFINE item == Head(work)
           o == item.order
<1>1. /\ work # <<>> /\ item.do = "on_fill" /\ work' = Tail(work)
      /\ IF o # Outside /\ owner[o] # None
         THEN position' = [position EXCEPT ![owner[o]] = @ + Signed(orders[o].side, item.quantity)]
         ELSE position' = position
      /\ UNCHANGED <<owner, orders, queue, lossy, net>>
  BY DEF OnFill, exchangeVars
<1>2. /\ Typed /\ work \in Seq(WorkItem(Party)) /\ Tail(work) \in Seq(WorkItem(Party))
      /\ item \in [do: {"on_fill"}, order: Party, quantity: Nat]
      /\ position \in [Strategy -> Int]
  BY <1>1, WorkDone DEF RuntimeInv, Typed, TypeOK
<1>3. ASSUME NEW s \in Strategy
      PROVE  /\ position'[s] = position[s] + WorkFillIn(owner, orders, s, item)
             /\ WorkFillIn(owner, orders, s, item) \in Int
  <2>1. WorkFillIn(owner, orders, s, item) = FillIn(owner, orders, s, o, item.quantity)
    BY <1>1 DEF WorkFillIn
  <2>2. Signed(orders[o].side, item.quantity) \in Int
    BY <1>2 DEF Signed
  <2>3. None \notin Strategy
    BY NamesAssumption
  <2> HIDE DEF item, o
  <2>4. CASE o # Outside /\ owner[o] # None
    <3>1. o \in Known
      BY <1>2, <2>4 DEF Party, o
    <3>2. owner[o] \in Strategy
      BY <3>1 DEF Known, RuntimeInv, OpenSound
    <3>3. position' = [position EXCEPT ![owner[o]] = @ + Signed(orders[o].side, item.quantity)]
      BY <1>1, <2>4 DEF o
    <3>4. CASE owner[o] = s
      BY <1>2, <2>1, <2>2, <2>4, <3>3, <3>4 DEF FillIn
    <3>5. CASE owner[o] # s
      BY <1>2, <2>1, <2>4, <3>2, <3>3, <3>5 DEF FillIn
    <3> QED BY <3>4, <3>5
  <2>5. CASE ~(o # Outside /\ owner[o] # None)
    <3>1. FillIn(owner, orders, s, o, item.quantity) = 0
      BY <2>3, <2>5 DEF FillIn
    <3>2. position' = position
      BY <1>1, <2>5 DEF o
    <3> QED BY <1>2, <2>1, <3>1, <3>2
  <2> QED BY <2>4, <2>5
<1> HIDE DEF item, o
<1>4. ASSUME ~lossy', NEW s \in Strategy
      PROVE  position'[s] + QueueSum(owner', orders', s, queue')
                + WorkSum(owner', orders', s, work') = net'[s]
  <2>1. /\ position[s] + QueueSum(owner, orders, s, queue) + WorkSum(owner, orders, s, work) = net[s]
        /\ position[s] \in Int /\ net[s] \in Int
        /\ QueueSum(owner, orders, s, queue) \in Int
    BY <1>1, <1>4, ExactBefore
  <2>2. WorkSum(owner, orders, s, work)
           = WorkFillIn(owner, orders, s, item) + WorkSum(owner, orders, s, Tail(work))
    BY <1>1, <1>2, WorkSumTail DEF item
  <2>3. WorkSum(owner, orders, s, Tail(work)) \in Int
    BY <1>2, WorkSumMapped
  <2> QED BY <1>1, <1>3, <2>1, <2>2, <2>3
<1> QED BY <1>4, ExactAfter

\* Every step keeps the account.
LEMMA ExactStep == RuntimeInv /\ RuntimeInv' /\ PositionExact /\ [Next]_vars => PositionExact'
<1> SUFFICES ASSUME RuntimeInv, RuntimeInv', PositionExact, [Next]_vars PROVE PositionExact'
  OBVIOUS
<1> USE DEF strategyVars, exchangeVars
<1>0. Typed /\ work \in Seq(WorkItem(Party))
  BY DEF RuntimeInv, Typed
<1>1. ASSUME UNCHANGED <<orders, owner>> PROVE Kept
  BY <1>1 DEF Kept, Known, Active
<1>2. ASSUME Kept, work' = work
      PROVE  \A s \in Strategy : WorkSum(owner', orders', s, work') = WorkSum(owner, orders, s, work)
  BY <1>0, <1>2, StillTold
<1>3. ASSUME Kept, work # <<>>, Head(work).do # "on_fill", work' = Tail(work)
      PROVE  \A s \in Strategy : WorkSum(owner', orders', s, work') = WorkSum(owner, orders, s, work)
  BY <1>3, TailSum
<1>4. ASSUME NEW s \in Strategy, Register(s) \/ CreateMarketMaker(s) \/ StartStrategy(s)
      PROVE  PositionExact'
  <2>1. UNCHANGED <<orders, owner, queue, lossy, net, position, work>>
    BY <1>4 DEF Register, CreateMarketMaker, StartStrategy
  <2> QED BY <1>1, <1>2, <2>1, QuietStep
<1>5. ASSUME NEW targets \in SUBSET Strategy, EngageKillSwitch(targets)
      PROVE  PositionExact'
  <2>1. CancelOpenOrders(targets) /\ UNCHANGED <<owner, position, work, net>>
    BY <1>5 DEF EngageKillSwitch, Stop
  <2>2. Kept /\ \E k \in Nat : Emit([i \in 1..k |-> BookUpdate[1]])
    BY <2>1, CancelOpenEffect
  <2> QED BY <1>2, <2>1, <2>2, QuietStep
<1>6. ToSet(registered) \subseteq Strategy
  BY <1>0, ElementOfSeq, LenProperties DEF ToSet, Typed, TypeOK
<1>7. CASE ProcessEvent
  BY <1>7, ProcessEventExact
<1>8. CASE OnFill
  BY <1>8, OnFillExact
<1>9. CASE SkipCallback \/ RiskReject \/ NoMoreIds
  <2>1. /\ work # <<>> /\ work' = Tail(work) /\ Head(work).do # "on_fill"
        /\ UNCHANGED <<position, owner, orders, queue, lossy, net>>
    BY <1>9 DEF SkipCallback, RiskReject, NoMoreIds
  <2> QED BY <1>1, <1>3, <2>1, QuietStep
<1>10. CASE Callback
  <2> DEFINE s == Head(work).strategy
  <2>1. PICK proposals \in Seq(Intent) :
           /\ work' = Submits(s, proposals) \o Tail(work)
           /\ CancelOpenOrders({s}) \/ UNCHANGED <<open, orders, queue, lossy>>
    BY <1>0, <1>10, CallbackEffect
  <2>2. /\ work # <<>> /\ Head(work).do \in {"on_book_update", "on_trade"} /\ s \in Strategy
        /\ UNCHANGED <<position, owner, net>>
    BY <1>0, <1>10, CallbackEffect
  <2> HIDE DEF s
  <2>3. Head(work).do # "on_fill" /\ {s} \in SUBSET Strategy
    BY <2>2
  <2>4. Kept /\ (\/ UNCHANGED <<queue, lossy>>
                 \/ \E k \in Nat : Emit([i \in 1..k |-> BookUpdate[1]]))
    <3>1. CASE CancelOpenOrders({s})
      BY <2>2, <2>3, <3>1, CancelOpenEffect
    <3>2. CASE UNCHANGED <<open, orders, queue, lossy>>
      BY <1>1, <2>2, <3>2
    <3> QED BY <2>1, <3>1, <3>2
  <2>5. ASSUME NEW t \in Strategy
        PROVE  WorkSum(owner', orders', t, work') = WorkSum(owner, orders, t, work)
    <3> DEFINE new == Submits(s, proposals)
               rest == Tail(work)
    <3>1. new \in Seq(WorkItem(Party))
      BY <2>2, SubmitsTyped
    <3>2. \A i \in 1..Len(new) : new[i].do # "on_fill"
      <4>1. Len(new) = Len(proposals)
        BY <2>2, SubmitsTyped
      <4>2. \A i \in 1..Len(proposals) : new[i].do = "submit"
        BY <2>2, SubmitsTyped
      <4> QED BY <4>1, <4>2
    <3>3. rest \in Seq(WorkItem(Party))
      BY <1>0, <2>2, WorkDone
    <3>4. WorkSum(owner', orders', t, rest) = WorkSum(owner, orders, t, work)
      BY <2>2, <2>3, <2>4, TailSum
    <3> HIDE DEF new, rest
    <3>5. WorkSum(owner', orders', t, new) = 0
      BY <3>1, <3>2, WorkSumZero
    <3>6. WorkSum(owner', orders', t, new \o rest)
             = WorkSum(owner', orders', t, new) + WorkSum(owner', orders', t, rest)
      BY <3>1, <3>3, WorkSumConcat
    <3>7. WorkSum(owner', orders', t, rest) \in Int
      BY <3>3, WorkSumMapped
    <3>8. work' = new \o rest
      BY <2>1 DEF new, rest
    <3> QED BY <3>4, <3>5, <3>6, <3>7, <3>8
  <2> QED BY <2>2, <2>4, <2>5, QuietStep
<1>11. CASE CallbackFailure
  <2> DEFINE s == Head(work).strategy
  <2>1. /\ work # <<>> /\ work' = Tail(work) /\ Head(work).do \in {"on_book_update", "on_trade"}
        /\ CancelOpenOrders({s}) /\ UNCHANGED <<position, owner, net>>
    BY <1>11 DEF CallbackFailure, Stop
  <2>2. {s} \in SUBSET Strategy /\ Head(work).do # "on_fill"
    BY <1>0, <2>1, WorkDone
  <2> HIDE DEF s
  <2>3. Kept /\ \E k \in Nat : Emit([i \in 1..k |-> BookUpdate[1]])
    BY <2>1, <2>2, CancelOpenEffect
  <2> QED BY <1>3, <2>1, <2>2, <2>3, QuietStep
<1>12. ASSUME NEW o \in OrderId, SubmitProposal(o) PROVE PositionExact'
  BY <1>12, SubmitExact
<1>13. ASSUME NEW o \in OrderId, OutsideCancel(o) PROVE PositionExact'
  <2>1. UNCHANGED <<position, work, net>>
    BY <1>13 DEF OutsideCancel
  <2>2. Kept /\ Emit(BookUpdate)
    BY <1>13, OutsideCancelEffect
  <2> QED BY <1>2, <2>1, <2>2, QuietStep
<1>14. ASSUME NEW side \in Side, OutsideTrade(side) PROVE PositionExact'
  BY <1>14, OutsideTradeExact
<1>15. CASE OutsideUpdate
  <2>1. UNCHANGED <<position, owner, work, orders, net>> /\ Emit(BookUpdate)
    BY <1>15 DEF OutsideUpdate
  <2> QED BY <1>1, <1>2, <2>1, QuietStep
<1>16. CASE UNCHANGED vars
  <2>1. UNCHANGED <<position, owner, orders, queue, lossy, work, net>>
    BY <1>16 DEF vars
  <2> QED BY <1>1, <1>2, <2>1, QuietStep
<1>17. ASSUME NEW s \in Strategy, KillStrategy(s) PROVE PositionExact'
  <2>1. {s} \in SUBSET Strategy
    OBVIOUS
  <2> QED BY <1>5, <1>17, <2>1 DEF KillStrategy
<1>18. CASE EngageKillSwitch(ToSet(registered))
  BY <1>5, <1>6, <1>18
<1> QED BY <1>4, <1>7, <1>8, <1>9, <1>10, <1>11, <1>12, <1>13, <1>14, <1>15, <1>16, <1>17, <1>18
        DEF Next

\* As long as the bus drops nothing, the position a strategy believes in and the
\* fills still on their way to it add up to what it has traded: no fill is booked
\* twice, on the wrong side or for the wrong strategy, whatever is in flight.
THEOREM PositionAlwaysExact == Spec => []PositionExact
<1>1. Init => PositionExact
  <2> SUFFICES ASSUME Init, NEW s \in Strategy PROVE position[s] + PendingFills(s) = net[s]
    BY DEF PositionExact
  <2>1. queue \in Seq(BusEvent(Party)) /\ work \in Seq(WorkItem(Party))
    BY EmptySeq DEF Init
  <2>2. /\ \A i \in 1..Len(queue) : queue[i].type # "TRADE"
        /\ \A i \in 1..Len(work) : work[i].do # "on_fill"
    BY EmptySeq DEF Init
  <2>3. QueueSum(owner, orders, s, queue) = 0
    BY <2>1, <2>2, QueueSumZero
  <2>4. WorkSum(owner, orders, s, work) = 0
    BY <2>1, <2>2, WorkSumZero
  <2>5. PendingFills(s) = QueueSum(owner, orders, s, queue) + WorkSum(owner, orders, s, work)
    BY PendingIsSum
  <2>6. position[s] = 0 /\ net[s] = 0
    BY DEF Init
  <2> QED BY <2>3, <2>4, <2>5, <2>6
<1> QED BY <1>1, ExactStep, RuntimeInvariance, PTL DEF Spec
=============================================================================
