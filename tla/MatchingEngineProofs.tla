------------------------ MODULE MatchingEngineProofs ------------------------
(***************************************************************************)
(* Proofs about OrderBook, for every set of ids, prices, quantities and    *)
(* requests; and, at the end, about MatchingEngine: what holds of the book *)
(* holds of the engine that drives it, and the engine's own records agree  *)
(* with the book.                                                          *)
(***************************************************************************)
EXTENDS MatchingEngine, SharedFacts

\* The order in flight was validated, is new to the book, has not been given
\* more than it asked for, and came after every other order.
TakerSound ==
    taker # None =>
        /\ req[taker] \in ValidRequest
        /\ cancel_map[taker] = None
        /\ filled[taker] <= req[taker].quantity
        /\ stamp[taker] = sequence
        /\ \A o \in OrderId : o # taker => stamp[o] < sequence

StampsBounded == \A o \in OrderId : stamp[o] <= sequence

\* The inductive invariant.
IInv ==
    /\ TypeOK
    /\ LevelsInhabited
    /\ CancelMapExact
    /\ FifoByArrival
    /\ RestingIsLive
    /\ BookNotCrossed
    /\ TakerSound
    /\ StampsBounded

-----------------------------------------------------------------------------
(* The initial states and the entry of submit.                             *)

\* The empty book satisfies the invariant.
LEMMA InitIInv == Init => IInv
<1> SUFFICES ASSUME Init PROVE IInv
  OBVIOUS
<1> USE DEF Init
<1>1. TypeOK BY EmptySeq DEF TypeOK, OrderStatus, Side, Trade
<1>2. LevelsInhabited BY DEF LevelsInhabited
<1>3. CancelMapExact
  <2>1. \A s \in Side, p \in Price : Len(queue[s][p]) = 0 BY EmptySeq
  <2>2. \A o \in OrderId, s \in Side, p \in Price : cancel_map[o] # <<s, p>>
    BY NoneAssumption
  <2> QED BY <2>1, <2>2 DEF CancelMapExact
<1>4. FifoByArrival BY EmptySeq DEF FifoByArrival
<1>5. RestingIsLive BY DEF RestingIsLive, Resting
<1>6. BookNotCrossed BY DEF BookNotCrossed, Side
<1>7. TakerSound BY DEF TakerSound
<1>8. StampsBounded BY DEF StampsBounded
<1> QED BY <1>1, <1>2, <1>3, <1>4, <1>5, <1>6, <1>7, <1>8 DEF IInv

\* A place in the book is never None, so an entry of the cancel map is one or the other.
LEMMA PlaceNotNone ==
    \A s \in Side, p \in Price : <<s, p>> # None
BY NoneAssumption

\* What the invariant says of an order o that waits at s, p.
RestsAt(o, s, p) ==
    /\ o \in OrderId /\ o # None /\ o # taker
    /\ cancel_map[o] = <<s, p>> /\ o \in Resting
    /\ req[o] \in Request /\ req[o].side = s /\ req[o].price = p
    /\ filled[o] \in Nat /\ req[o].quantity \in Nat
    /\ filled[o] < req[o].quantity

\* The parts of RestsAt that do not mention the place.
LEMMA RestingFacts ==
    ASSUME NEW o, NEW s, NEW p, RestsAt(o, s, p)
    PROVE  /\ o \in OrderId /\ o # taker /\ o \in Resting
           /\ req[o].side = s /\ req[o].price = p /\ Remaining(o) \in Nat
<1>1. /\ o \in OrderId /\ o # taker /\ o \in Resting
      /\ req[o].side = s /\ req[o].price = p
  BY DEF RestsAt
<1>2. filled[o] \in Nat /\ req[o].quantity \in Nat /\ filled[o] < req[o].quantity
  BY DEF RestsAt
<1>3. Remaining(o) \in Nat
  BY <1>2 DEF Remaining
<1> QED BY <1>1, <1>3

\* Every order in a level queue is one that rests there.
LEMMA Queued ==
    IInv => \A s \in Side, p \in Price : \A i \in 1..Len(queue[s][p]) :
                RestsAt(queue[s][p][i], s, p)
<1> SUFFICES ASSUME IInv, NEW s \in Side, NEW p \in Price,
                    NEW i \in 1..Len(queue[s][p])
             PROVE  RestsAt(queue[s][p][i], s, p)
  OBVIOUS
<1> DEFINE o == queue[s][p][i]
<1>1. o \in OrderId /\ o # None
  <2>1. queue[s][p] \in Seq(OrderId) BY DEF IInv, TypeOK
  <2> QED BY <2>1, ElementOfSeq, NoneAssumption
<1>2. cancel_map[o] = <<s, p>>
  BY <1>1 DEF IInv, CancelMapExact
<1>3. o \in Resting
  BY <1>1, <1>2, PlaceNotNone DEF Resting
<1>4. /\ req[o] # None /\ cancel_map[o] = <<req[o].side, req[o].price>>
      /\ filled[o] < req[o].quantity
  BY <1>3 DEF IInv, RestingIsLive
<1>5. req[o] \in Request /\ filled[o] \in Nat
  BY <1>1, <1>4 DEF IInv, TypeOK
<1>6. req[o].quantity \in Nat
  BY <1>5, QuantityAssumption DEF Request
<1>7. req[o].side = s /\ req[o].price = p
  BY <1>2, <1>4
<1>8. o # taker
  BY <1>1, <1>2, PlaceNotNone DEF IInv, TakerSound
<1> QED BY <1>1, <1>2, <1>3, <1>4, <1>5, <1>6, <1>7, <1>8 DEF RestsAt

\* The entry of submit preserves the invariant: the new order gets the newest stamp.
LEMMA SubmitIInv ==
    ASSUME IInv, NEW o \in OrderId, SubmitNew(o)
    PROVE  IInv'
<1>1. PICK r \in ValidRequest : Submit(o, r)
  BY DEF SubmitNew
<1>2. r \in Request /\ r # None /\ o # None /\ r.quantity \in Nat
  BY RequestsAssumption, NoneAssumption, QuantityAssumption DEF ValidRequest, Request
<1>3. cancel_map[o] = None /\ req[o] = None
  BY DEF IInv, RestingIsLive, Resting, SubmitNew
<1>4. /\ taker = None /\ taker' = o
      /\ req' = [req EXCEPT ![o] = r]
      /\ filled' = [filled EXCEPT ![o] = 0]
      /\ status' = [status EXCEPT ![o] = "PENDING"]
      /\ sequence' = sequence + 1
      /\ stamp' = [stamp EXCEPT ![o] = sequence + 1]
      /\ UNCHANGED <<levels, queue, total, cancel_map, trades>>
  BY <1>1 DEF Submit
<1>5. TypeOK'
  BY <1>2, <1>4 DEF IInv, TypeOK, OrderStatus
<1>6. LevelsInhabited'
  BY <1>4 DEF IInv, LevelsInhabited
<1>7. CancelMapExact'
  BY <1>4 DEF IInv, CancelMapExact
<1>8. FifoByArrival'
  <2> SUFFICES ASSUME NEW s \in Side, NEW p \in Price,
                      NEW i \in 1..Len(queue[s][p]), NEW j \in 1..Len(queue[s][p]),
                      i < j
               PROVE  stamp'[queue[s][p][i]] < stamp'[queue[s][p][j]]
    BY <1>4 DEF FifoByArrival
  <2>1. queue[s][p][i] # o /\ queue[s][p][j] # o
    <3>1. RestsAt(queue[s][p][i], s, p) /\ RestsAt(queue[s][p][j], s, p)
      BY Queued
    <3> QED BY <3>1, <1>3, PlaceNotNone DEF RestsAt
  <2>2. stamp[queue[s][p][i]] < stamp[queue[s][p][j]]
    BY DEF IInv, FifoByArrival
  <2> QED BY <2>1, <2>2, <1>4 DEF IInv, TypeOK
<1>9. RestingIsLive'
  <2> SUFFICES ASSUME NEW x \in OrderId, cancel_map[x] # None
               PROVE  /\ req'[x] = req[x] /\ filled'[x] = filled[x]
                      /\ status'[x] = status[x]
    BY <1>4 DEF IInv, RestingIsLive, Resting
  <2> QED BY <1>3, <1>4 DEF IInv, TypeOK
<1>10. BookNotCrossed'
  BY <1>4 DEF IInv, BookNotCrossed
<1>11. TakerSound'
  BY <1>2, <1>3, <1>4 DEF IInv, TypeOK, TakerSound, StampsBounded
<1>12. StampsBounded'
  BY <1>4 DEF IInv, TypeOK, StampsBounded
<1> QED BY <1>5, <1>6, <1>7, <1>8, <1>9, <1>10, <1>11, <1>12 DEF IInv

-----------------------------------------------------------------------------
(* The end of submit.                                                      *)

\* The order in flight.
LEMMA TakerFacts ==
    ASSUME IInv, taker # None
    PROVE  /\ taker \in OrderId /\ req[taker] \in Request /\ req[taker] # None
           /\ req[taker].order_type = "LIMIT" => req[taker].price \in Price
           /\ req[taker].side \in Side
           /\ req[taker].quantity \in Nat /\ filled[taker] \in Nat
           /\ Remaining(taker) \in Nat
           /\ cancel_map[taker] = None /\ taker \notin Resting
<1>1. taker \in OrderId /\ filled[taker] \in Nat
  BY DEF IInv, TypeOK
<1>2. req[taker] \in ValidRequest /\ filled[taker] <= req[taker].quantity
      /\ cancel_map[taker] = None
  BY DEF IInv, TakerSound
<1>3. req[taker] \in Request /\ (req[taker].order_type = "LIMIT" => req[taker].price # None)
  BY <1>2, RequestsAssumption DEF ValidRequest
<1>4. req[taker] # None
  BY <1>3, NoneAssumption
<1>5. req[taker].side \in Side /\ req[taker].quantity \in Nat
      /\ req[taker].price \in Price \union {None}
  BY <1>3, QuantityAssumption DEF Request
<1>6. Remaining(taker) \in Nat
  BY <1>1, <1>2, <1>5 DEF Remaining
<1> QED BY <1>1, <1>2, <1>3, <1>4, <1>5, <1>6 DEF Resting

\* submit returns without resting the order: the book itself does not change.
LEMMA ReturnIInv ==
    ASSUME IInv, taker # None, NEW st \in OrderStatus, Return(st)
    PROVE  IInv'
<1> USE DEF Return
<1>1. TypeOK' BY TakerFacts DEF IInv, TypeOK
<1>2. LevelsInhabited' BY DEF IInv, LevelsInhabited
<1>3. CancelMapExact' BY DEF IInv, CancelMapExact
<1>4. FifoByArrival' BY DEF IInv, FifoByArrival
<1>5. RestingIsLive'
  <2> SUFFICES ASSUME NEW x \in Resting PROVE status'[x] = status[x]
    BY DEF IInv, RestingIsLive, Resting
  <2> QED BY TakerFacts DEF IInv, TypeOK, Resting
<1>6. BookNotCrossed' BY DEF IInv, BookNotCrossed
<1>7. TakerSound' BY DEF TakerSound
<1>8. StampsBounded' BY DEF IInv, StampsBounded
<1> QED BY <1>1, <1>2, <1>3, <1>4, <1>5, <1>6, <1>7, <1>8 DEF IInv

\* The residual rests behind every order already at its price.
LEMMA RestIInv ==
    ASSUME IInv, FinishRest
    PROVE  IInv'
<1> DEFINE s0 == req[taker].side
           p0 == req[taker].price
<1>1. /\ taker # None /\ taker' = None /\ Remaining(taker) > 0
      /\ req[taker].order_type = "LIMIT"
      /\ req[taker].time_in_force \in {"GTC", "GTD"}
      /\ RestOrder(taker, s0, p0)
      /\ UNCHANGED <<req, filled, sequence, trades, stamp>>
  BY DEF FinishRest, LoopDone
<1>2. /\ taker \in OrderId /\ req[taker] \in Request /\ req[taker] # None
      /\ p0 \in Price /\ s0 \in Side
      /\ Remaining(taker) \in Nat
      /\ filled[taker] < req[taker].quantity /\ cancel_map[taker] = None
  <2>1. filled[taker] < req[taker].quantity
    BY <1>1, TakerFacts DEF Remaining
  <2> QED BY <2>1, <1>1, TakerFacts
<1>3. LevelOrders(s0, p0) = queue[s0][p0]
  BY <1>2 DEF IInv, LevelsInhabited, LevelOrders
<1>4. /\ levels' = [levels EXCEPT ![s0] = @ \union {p0}]
      /\ queue' = [queue EXCEPT ![s0][p0] = Append(queue[s0][p0], taker)]
      /\ cancel_map' = [cancel_map EXCEPT ![taker] = <<s0, p0>>]
      /\ status' = [status EXCEPT ![taker] =
                       IF filled[taker] = 0 THEN "OPEN" ELSE "PARTIALLY_FILLED"]
      /\ total' = [total EXCEPT ![s0][p0] = LevelTotal(s0, p0) + Remaining(taker)]
  BY <1>1, <1>3 DEF RestOrder, Enqueue, RestingStatus
<1> HIDE DEF s0, p0
<1>5. queue[s0][p0] \in Seq(OrderId)
  BY <1>2 DEF IInv, TypeOK
<1> DEFINE q == queue[s0][p0]
           r == Append(q, taker)
<1>6. /\ r \in Seq(OrderId) /\ r # <<>> /\ Len(r) = Len(q) + 1 /\ Len(q) \in Nat
      /\ \A i \in 1..Len(q) : r[i] = q[i]
      /\ r[Len(q) + 1] = taker
  BY <1>2, <1>5, AppendProperties, LenProperties
<1>7. \A s \in Side, p \in Price :
         queue'[s][p] = IF s = s0 /\ p = p0 THEN r ELSE queue[s][p]
  BY <1>2, <1>4 DEF IInv, TypeOK
<1> HIDE DEF r
<1>8. TypeOK'
  <2>1. LevelTotal(s0, p0) \in Int
    BY <1>2 DEF IInv, TypeOK, LevelTotal
  <2>2. total' \in [Side -> [Price -> Int]]
    BY <2>1, <1>2, <1>4 DEF IInv, TypeOK
  <2>3. queue' \in [Side -> [Price -> Seq(OrderId)]]
    BY <1>2, <1>4, <1>6 DEF IInv, TypeOK, r
  <2>4. cancel_map' \in [OrderId -> (Side \X Price) \union {None}]
    BY <1>2, <1>4 DEF IInv, TypeOK
  <2>5. levels' \in [Side -> SUBSET Price]
    BY <1>2, <1>4 DEF IInv, TypeOK
  <2>6. status' \in [OrderId -> OrderStatus]
    BY <1>2, <1>4 DEF IInv, TypeOK, OrderStatus
  <2> QED BY <2>2, <2>3, <2>4, <2>5, <2>6, <1>1 DEF IInv, TypeOK
<1>9. LevelsInhabited'
  BY <1>2, <1>4, <1>6, <1>7 DEF IInv, TypeOK, LevelsInhabited
<1>10. \A i \in 1..Len(q) : q[i] # taker
  BY Queued, <1>2 DEF RestsAt
<1>11. CancelMapExact'
  <2> SUFFICES ASSUME NEW o \in OrderId, NEW s \in Side, NEW p \in Price
               PROVE  cancel_map'[o] = <<s, p>> <=>
                         \E i \in 1..Len(queue'[s][p]) : queue'[s][p][i] = o
    BY DEF CancelMapExact
  <2>1. cancel_map[o] = <<s, p>> <=>
           \E i \in 1..Len(queue[s][p]) : queue[s][p][i] = o
    BY DEF IInv, CancelMapExact
  <2>2. CASE s = s0 /\ p = p0
    <3>1. CASE o = taker
      <4>1. cancel_map'[o] = <<s, p>> BY <3>1, <2>2, <1>2, <1>4 DEF IInv, TypeOK
      <4>2. Len(q) + 1 \in 1..Len(r) /\ r[Len(q) + 1] = o BY <3>1, <1>6
      <4> QED BY <4>1, <4>2, <2>2, <1>7
    <3>2. CASE o # taker
      <4>1. cancel_map'[o] = cancel_map[o]
        BY <3>2, <1>2, <1>4 DEF IInv, TypeOK
      <4>2. (\E i \in 1..Len(q) : q[i] = o) <=> \E i \in 1..Len(r) : r[i] = o
        BY <3>2, <1>6
      <4> QED BY <4>1, <4>2, <2>1, <2>2, <1>7
    <3> QED BY <3>1, <3>2
  <2>3. CASE ~(s = s0 /\ p = p0)
    <3>1. queue'[s][p] = queue[s][p] BY <2>3, <1>7
    <3>2. CASE o = taker
      <4>1. cancel_map'[o] = <<s0, p0>> BY <3>2, <1>2, <1>4 DEF IInv, TypeOK
      <4>2. cancel_map'[o] # <<s, p>> BY <4>1, <2>3
      <4>3. cancel_map[o] # <<s, p>> BY <3>2, <1>2, PlaceNotNone
      <4> QED BY <4>2, <4>3, <3>1, <2>1
    <3>3. CASE o # taker
      <4>1. cancel_map'[o] = cancel_map[o]
        BY <3>3, <1>2, <1>4 DEF IInv, TypeOK
      <4> QED BY <4>1, <3>1, <2>1
    <3> QED BY <3>2, <3>3
  <2> QED BY <2>2, <2>3
<1>12. FifoByArrival'
  <2> SUFFICES ASSUME NEW s \in Side, NEW p \in Price,
                      NEW i \in 1..Len(queue'[s][p]),
                      NEW j \in 1..Len(queue'[s][p]), i < j
               PROVE  stamp[queue'[s][p][i]] < stamp[queue'[s][p][j]]
    BY <1>1 DEF FifoByArrival
  <2>1. \A a, b \in 1..Len(queue[s][p]) :
           a < b => stamp[queue[s][p][a]] < stamp[queue[s][p][b]]
    BY DEF IInv, FifoByArrival
  <2>2. CASE s = s0 /\ p = p0
    <3>1. i \in 1..Len(q) /\ r[i] = q[i]
      BY <2>2, <1>6, <1>7
    <3>2. CASE j \in 1..Len(q)
      <4>1. r[j] = q[j]
        BY <3>2, <1>6
      <4>2. queue[s][p] = q /\ queue'[s][p] = r
        BY <2>2, <1>7
      <4>3. stamp[q[i]] < stamp[q[j]]
        BY <3>1, <3>2, <2>1, <4>2
      <4> QED BY <3>1, <4>1, <4>2, <4>3
    <3>3. CASE j = Len(q) + 1
      <4>1. q[i] \in OrderId /\ q[i] # taker
        BY <3>1, <1>5, <1>10, ElementOfSeq
      <4>2. stamp[q[i]] < stamp[taker]
        BY <4>1, <1>1 DEF IInv, TakerSound
      <4> QED BY <4>2, <3>1, <3>3, <2>2, <1>6, <1>7
    <3> QED BY <3>2, <3>3, <2>2, <1>6, <1>7
  <2>3. CASE ~(s = s0 /\ p = p0)
    BY <2>1, <2>3, <1>7
  <2> QED BY <2>2, <2>3
<1>13. RestingIsLive'
  <2> SUFFICES ASSUME NEW o \in OrderId, cancel_map'[o] # None
               PROVE  /\ req[o] # None
                      /\ req[o].order_type = "LIMIT"
                      /\ req[o].time_in_force \in {"GTC", "GTD"}
                      /\ cancel_map'[o] = <<req[o].side, req[o].price>>
                      /\ filled[o] < req[o].quantity
                      /\ status'[o] = IF filled[o] = 0 THEN "OPEN" ELSE "PARTIALLY_FILLED"
    BY <1>1 DEF RestingIsLive, Resting
  <2>1. CASE o = taker
    BY <2>1, <1>1, <1>2, <1>4 DEF IInv, TypeOK, s0, p0
  <2>2. CASE o # taker
    <3>1. cancel_map'[o] = cancel_map[o] /\ status'[o] = status[o]
      BY <2>2, <1>2, <1>4 DEF IInv, TypeOK
    <3> QED BY <3>1 DEF IInv, RestingIsLive, Resting
  <2> QED BY <2>1, <2>2
<1>14. BookNotCrossed'
  <2>1. \A a \in levels[Opposite(s0)] :
           IF s0 = "BUY" THEN p0 < a ELSE a < p0
    <3> SUFFICES ASSUME NEW a \in levels[Opposite(s0)]
                 PROVE  IF s0 = "BUY" THEN p0 < a ELSE a < p0
      OBVIOUS
    <3>1. p0 # None
      BY <1>2, NoneAssumption
    <3>2. PICK best \in Price :
             IsBest(Opposite(s0), best) /\ ~Crosses(s0, p0, best)
      BY <1>1 DEF FinishRest, LoopDone, s0, p0
    <3>3. a \in Int /\ best \in Int /\ p0 \in Int
      BY <1>2, PriceAssumption DEF IInv, TypeOK, Opposite, Side
    <3>4. CASE s0 = "BUY"
      BY <3>1, <3>2, <3>3, <3>4 DEF IsBest, Crosses, Better, Opposite
    <3>5. CASE s0 = "SELL"
      BY <3>1, <3>2, <3>3, <3>5 DEF IsBest, Crosses, Better, Opposite
    <3> QED BY <3>4, <3>5, <1>2 DEF Side
  <2>2. CASE s0 = "BUY"
    BY <2>1, <2>2, <1>4 DEF IInv, TypeOK, BookNotCrossed, Opposite, Side
  <2>3. CASE s0 = "SELL"
    BY <2>1, <2>3, <1>4 DEF IInv, TypeOK, BookNotCrossed, Opposite, Side
  <2> QED BY <2>2, <2>3, <1>2 DEF Side
<1>15. TakerSound'
  BY <1>1 DEF TakerSound
<1>16. StampsBounded'
  BY <1>1 DEF IInv, StampsBounded
<1> QED BY <1>8, <1>9, <1>11, <1>12, <1>13, <1>14, <1>15, <1>16 DEF IInv

-----------------------------------------------------------------------------
(* Orders leave the book: the front of a queue when it is filled, any      *)
(* place of it when it is cancelled.                                       *)

\* Taking the order at place k out of the queue at s0, p0, out of the cancel
\* map, and the level out of the book with its last order, keeps the indexes
\* of the book in agreement.
LEMMA RemovalKeepsIndexes ==
    ASSUME IInv, NEW s0 \in Side, NEW p0 \in Price,
           NEW k \in 1..Len(queue[s0][p0]), NEW r \in Seq(OrderId),
           Len(r) = Len(queue[s0][p0]) - 1,
           \A j \in 1..Len(queue[s0][p0]) - 1 :
               r[j] = IF j < k THEN queue[s0][p0][j] ELSE queue[s0][p0][j + 1],
           queue' = [queue EXCEPT ![s0][p0] = r],
           cancel_map' = [cancel_map EXCEPT ![queue[s0][p0][k]] = None],
           levels' = IF Len(queue[s0][p0]) = 1
                     THEN [levels EXCEPT ![s0] = @ \ {p0}] ELSE levels,
           stamp' = stamp
    PROVE  /\ queue' \in [Side -> [Price -> Seq(OrderId)]]
           /\ cancel_map' \in [OrderId -> (Side \X Price) \union {None}]
           /\ levels' \in [Side -> SUBSET Price]
           /\ LevelsInhabited' /\ CancelMapExact' /\ FifoByArrival'
           /\ BookNotCrossed'
<1> DEFINE q == queue[s0][p0]
           m == q[k]
<1>1. q \in Seq(OrderId) /\ Len(q) \in Nat
  BY LenProperties DEF IInv, TypeOK
<1>2. m \in OrderId /\ cancel_map[m] = <<s0, p0>>
  <2>1. RestsAt(m, s0, p0) BY Queued
  <2> QED BY <2>1 DEF RestsAt
<1>3. \A s \in Side, p \in Price :
         queue'[s][p] = IF s = s0 /\ p = p0 THEN r ELSE queue[s][p]
  BY DEF IInv, TypeOK
<1>4. \A o \in OrderId : cancel_map'[o] = IF o = m THEN None ELSE cancel_map[o]
  BY <1>2 DEF IInv, TypeOK
<1>5. \A s \in Side : levels'[s] =
         IF s = s0 /\ Len(q) = 1 THEN levels[s] \ {p0} ELSE levels[s]
  BY DEF IInv, TypeOK
<1>6. queue' \in [Side -> [Price -> Seq(OrderId)]]
  BY DEF IInv, TypeOK
<1>7. cancel_map' \in [OrderId -> (Side \X Price) \union {None}]
  BY <1>2 DEF IInv, TypeOK
<1>8. levels' \in [Side -> SUBSET Price]
  BY DEF IInv, TypeOK
<1>9. \A a, b \in 1..Len(q) : a < b => stamp[q[a]] < stamp[q[b]]
  BY DEF IInv, FifoByArrival
<1>10. \A o \in OrderId : stamp[o] \in Nat
  BY DEF IInv, TypeOK
<1>11. \A a \in 1..Len(q) : q[a] \in OrderId
  BY <1>1, ElementOfSeq
<1> HIDE DEF q
<1>12. \A a \in 1..Len(q) : a # k => q[a] # m
  <2>1. k \in 1..Len(q) BY DEF q
  <2>2. \A a \in 1..Len(q) : stamp[q[a]] \in Nat BY <1>10, <1>11
  <2>3. ASSUME NEW a \in 1..Len(q), a # k PROVE stamp[q[a]] # stamp[q[k]]
    BY <2>1, <2>2, <2>3, <1>1, <1>9
  <2> QED BY <2>3
<1>13. Len(r) = Len(q) - 1 /\ \A j \in 1..Len(q) - 1 :
          r[j] = IF j < k THEN q[j] ELSE q[j + 1]
  BY DEF q
<1>14. k \in 1..Len(q)
  BY DEF q
<1> HIDE DEF m
<1>15. LevelsInhabited'
  <2> SUFFICES ASSUME NEW s \in Side, NEW p \in Price
               PROVE  p \in levels'[s] <=> queue'[s][p] # <<>>
    BY DEF LevelsInhabited
  <2>1. p \in levels[s] <=> queue[s][p] # <<>>
    BY DEF IInv, LevelsInhabited
  <2>2. CASE s = s0 /\ p = p0
    <3>1. queue[s][p] # <<>>
      BY <2>2, <1>1, <1>14, EmptySeq DEF q
    <3>2. r # <<>> <=> Len(q) # 1
      BY <1>1, <1>13, <1>14, EmptySeq
    <3>3. queue'[s][p] = r BY <2>2, <1>3
    <3>4. p \in levels'[s] <=> Len(q) # 1
      <4>1. p \in levels[s] BY <3>1, <2>1
      <4>2. levels'[s] = IF Len(q) = 1 THEN levels[s] \ {p} ELSE levels[s]
        BY <2>2, <1>5
      <4> QED BY <4>1, <4>2
    <3> QED BY <3>2, <3>3, <3>4
  <2>3. CASE ~(s = s0 /\ p = p0)
    BY <2>1, <2>3, <1>3, <1>5
  <2> QED BY <2>2, <2>3
<1>16. CancelMapExact'
  <2> SUFFICES ASSUME NEW o \in OrderId, NEW s \in Side, NEW p \in Price
               PROVE  cancel_map'[o] = <<s, p>> <=>
                         \E i \in 1..Len(queue'[s][p]) : queue'[s][p][i] = o
    BY DEF CancelMapExact
  <2>1. cancel_map[o] = <<s, p>> <=>
           \E i \in 1..Len(queue[s][p]) : queue[s][p][i] = o
    BY DEF IInv, CancelMapExact
  <2>2. CASE s = s0 /\ p = p0
    <3>1. CASE o = m
      <4>1. cancel_map'[o] # <<s, p>>
        BY <3>1, <1>4, PlaceNotNone
      <4>2. ASSUME NEW i \in 1..Len(r) PROVE r[i] # m
        <5>1. i \in 1..Len(q) - 1 BY <1>1, <1>13
        <5>2. CASE i < k
          <6>1. i \in 1..Len(q) /\ i # k BY <5>1, <5>2, <1>1, <1>14
          <6> QED BY <6>1, <5>1, <5>2, <1>12, <1>13
        <5>3. CASE ~(i < k)
          <6>1. i + 1 \in 1..Len(q) /\ i + 1 # k BY <5>1, <5>3, <1>1, <1>14
          <6> QED BY <6>1, <5>1, <5>3, <1>12, <1>13
        <5> QED BY <5>2, <5>3
      <4> QED BY <4>1, <4>2, <3>1, <2>2, <1>3
    <3>2. CASE o # m
      <4>1. ASSUME NEW i \in 1..Len(q), q[i] = o
            PROVE  \E j \in 1..Len(r) : r[j] = o
        <5>1. i # k BY <4>1, <3>2 DEF m
        <5>2. CASE i < k
          <6>1. i \in 1..Len(r) /\ r[i] = o BY <5>2, <4>1, <1>1, <1>13, <1>14
          <6> QED BY <6>1
        <5>3. CASE i > k
          <6>1. Len(q) \in Nat BY <1>1
          <6>2. i - 1 \in 1..Len(q) - 1 BY <6>1, <5>3, <1>14
          <6>3. ~(i - 1 < k) /\ (i - 1) + 1 = i BY <6>1, <5>3, <1>14
          <6>4. r[i - 1] = q[(i - 1) + 1] BY <6>2, <6>3, <1>13
          <6>5. r[i - 1] = o BY <6>3, <6>4, <4>1
          <6>6. i - 1 \in 1..Len(r) BY <6>2, <1>13
          <6> QED BY <6>5, <6>6
        <5> QED BY <5>1, <5>2, <5>3, <1>1, <1>14
      <4>2. ASSUME NEW j \in 1..Len(r), r[j] = o
            PROVE  \E i \in 1..Len(q) : q[i] = o
        <5>1. CASE j < k
          <6>1. j \in 1..Len(q) /\ q[j] = o BY <5>1, <4>2, <1>1, <1>13, <1>14
          <6> QED BY <6>1
        <5>2. CASE ~(j < k)
          <6>1. j + 1 \in 1..Len(q) /\ q[j + 1] = o
            BY <5>2, <4>2, <1>1, <1>13, <1>14
          <6> QED BY <6>1
        <5> QED BY <5>1, <5>2
      <4>3. cancel_map'[o] = cancel_map[o]
        BY <3>2, <1>4
      <4>4. queue'[s][p] = r /\ queue[s][p] = q
        BY <2>2, <1>3 DEF q
      <4> QED BY <4>1, <4>2, <4>3, <4>4, <2>1
    <3> QED BY <3>1, <3>2
  <2>3. CASE ~(s = s0 /\ p = p0)
    <3>1. queue'[s][p] = queue[s][p]
      BY <2>3, <1>3
    <3>2. CASE o = m
      <4>1. cancel_map[o] # <<s, p>> BY <3>2, <2>3, <1>2
      <4>2. cancel_map'[o] # <<s, p>> BY <3>2, <1>4, PlaceNotNone
      <4> QED BY <4>1, <4>2, <3>1, <2>1
    <3>3. CASE o # m
      BY <3>1, <3>3, <2>1, <1>4
    <3> QED BY <3>2, <3>3
  <2> QED BY <2>2, <2>3
<1>17. FifoByArrival'
  <2> SUFFICES ASSUME NEW s \in Side, NEW p \in Price,
                      NEW i \in 1..Len(queue'[s][p]),
                      NEW j \in 1..Len(queue'[s][p]), i < j
               PROVE  stamp[queue'[s][p][i]] < stamp[queue'[s][p][j]]
    BY DEF FifoByArrival
  <2>1. CASE s = s0 /\ p = p0
    <3>1. i \in 1..Len(q) - 1 /\ j \in 1..Len(q) - 1
      BY <2>1, <1>1, <1>3, <1>13
    <3> DEFINE a == IF i < k THEN i ELSE i + 1
               b == IF j < k THEN j ELSE j + 1
    <3>2. a \in 1..Len(q) /\ b \in 1..Len(q) /\ a < b
      BY <3>1, <1>1, <1>14
    <3>3. r[i] = q[a] /\ r[j] = q[b]
      BY <3>1, <1>13
    <3> HIDE DEF a, b
    <3> QED BY <3>2, <3>3, <2>1, <1>3, <1>9
  <2>2. CASE ~(s = s0 /\ p = p0)
    BY <2>2, <1>3 DEF IInv, FifoByArrival
  <2> QED BY <2>1, <2>2
<1>18. BookNotCrossed'
  BY <1>5 DEF IInv, BookNotCrossed, Side
<1> QED BY <1>6, <1>7, <1>8, <1>15, <1>16, <1>17, <1>18

\* cancel preserves the invariant, from whatever position of a level it removes.
LEMMA CancelIInv ==
    ASSUME IInv, NEW o \in OrderId, CancelResting(o)
    PROVE  IInv'
<1> DEFINE s0 == req[o].side
           p0 == req[o].price
<1>1. /\ taker = None /\ cancel_map[o] # None
      /\ cancel_map' = [cancel_map EXCEPT ![o] = None]
      /\ UNCHANGED <<req, filled, sequence, taker, trades, stamp>>
  BY DEF CancelResting, Forget
<1>2. cancel_map[o] = <<s0, p0>> /\ cancel_map[o] \in Side \X Price
  BY <1>1 DEF IInv, TypeOK, RestingIsLive, Resting
<1>3. s0 \in Side /\ p0 \in Price
  BY <1>2
<1>4. \E i \in 1..Len(queue[s0][p0]) : queue[s0][p0][i] = o
  BY <1>2, <1>3 DEF IInv, CancelMapExact
<1>5. p0 \in levels[s0]
  <2>1. queue[s0][p0] # <<>> BY <1>4, EmptySeq
  <2> QED BY <2>1, <1>3 DEF IInv, LevelsInhabited
<1>6. PICK k \in 1..Len(queue[s0][p0]) :
         queue[s0][p0][k] = o /\ RemoveResting(o, s0, p0, k)
  BY <1>2, <1>4, <1>5 DEF CancelResting, Contains
<1> HIDE DEF s0, p0
<1> DEFINE r == RemoveAt(queue[s0][p0], k)
<1>7. queue[s0][p0] \in Seq(OrderId)
  BY <1>3 DEF IInv, TypeOK
<1>8. /\ r \in Seq(OrderId)
      /\ Len(r) = Len(queue[s0][p0]) - 1
      /\ \A j \in 1..Len(queue[s0][p0]) - 1 :
            r[j] = IF j < k THEN queue[s0][p0][j] ELSE queue[s0][p0][j + 1]
  BY <1>7, RemoveAtProperties
<1>9. /\ queue' = [queue EXCEPT ![s0][p0] = r]
      /\ total' = [total EXCEPT ![s0][p0] = total[s0][p0] - Remaining(o)]
      /\ levels' = IF Len(queue[s0][p0]) = 1
                   THEN [levels EXCEPT ![s0] = @ \ {p0}] ELSE levels
      /\ status' = [status EXCEPT ![o] = "CANCELLED"]
  BY <1>6 DEF RemoveResting, LevelsAfterRemoval, TotalWithout
<1> HIDE DEF r
<1>10. /\ queue' \in [Side -> [Price -> Seq(OrderId)]]
       /\ cancel_map' \in [OrderId -> (Side \X Price) \union {None}]
       /\ levels' \in [Side -> SUBSET Price]
       /\ LevelsInhabited' /\ CancelMapExact' /\ FifoByArrival'
       /\ BookNotCrossed'
  BY <1>1, <1>3, <1>6, <1>8, <1>9, RemovalKeepsIndexes
<1>11. TypeOK'
  <2>1. Remaining(o) \in Int
    BY <1>3, <1>6, Queued DEF RestsAt, Remaining
  <2>2. total' \in [Side -> [Price -> Int]]
    BY <2>1, <1>3, <1>9 DEF IInv, TypeOK
  <2>3. status' \in [OrderId -> OrderStatus]
    BY <1>9 DEF IInv, TypeOK, OrderStatus
  <2> QED BY <2>2, <2>3, <1>1, <1>10 DEF IInv, TypeOK
<1>12. RestingIsLive'
  <2> SUFFICES ASSUME NEW x \in OrderId, cancel_map'[x] # None
               PROVE  /\ cancel_map'[x] = cancel_map[x]
                      /\ status'[x] = status[x]
    BY <1>1 DEF IInv, RestingIsLive, Resting
  <2> QED BY <1>1, <1>9 DEF IInv, TypeOK
<1>13. TakerSound'
  BY <1>1 DEF TakerSound
<1>14. StampsBounded'
  BY <1>1 DEF IInv, StampsBounded
<1> QED BY <1>10, <1>11, <1>12, <1>13, <1>14 DEF IInv

\* One iteration of the matching loop.
LEMMA FillIInv ==
    ASSUME IInv, Fill
    PROVE  IInv'
<1> DEFINE s0 == Opposite(req[taker].side)
<1>1. taker # None /\ Remaining(taker) > 0
  BY DEF Fill
<1>2. /\ taker \in OrderId /\ req[taker] \in Request
      /\ req[taker].side \in Side /\ s0 \in Side
      /\ req[taker].quantity \in Nat /\ filled[taker] \in Nat
      /\ Remaining(taker) \in Nat /\ cancel_map[taker] = None
  BY <1>1, TakerFacts DEF Opposite, Side
<1>3. PICK p0 \in Price :
         /\ IsBest(s0, p0)
         /\ queue[s0][p0] # <<>>
         /\ FillAt(p0, Head(queue[s0][p0]))
  BY DEF Fill
<1> DEFINE q   == queue[s0][p0]
           m   == Head(q)
           qty == Least(Remaining(taker), Remaining(m))
<1>4. q \in Seq(OrderId) /\ Len(q) \in Nat /\ 1 \in 1..Len(q) /\ m = q[1]
  <2>1. q \in Seq(OrderId) BY <1>2 DEF IInv, TypeOK
  <2> QED BY <2>1, <1>3, LenProperties, EmptySeq
<1>5. RestsAt(m, s0, p0)
  BY <1>2, <1>4, Queued
<1>6. /\ filled' = [filled EXCEPT ![taker] = @ + qty, ![m] = @ + qty]
      /\ total' = [total EXCEPT ![s0][p0] = @ - qty]
      /\ trades' = Append(trades, [maker |-> m, taker |-> taker,
                                   price |-> req[m].price, quantity |-> qty])
      /\ status' = [status EXCEPT ![m] =
                       IF Remaining(m) = qty THEN "FILLED" ELSE "PARTIALLY_FILLED"]
      /\ queue' = IF Remaining(m) = qty
                  THEN [queue EXCEPT ![s0][p0] = Tail(q)] ELSE queue
      /\ cancel_map' = IF Remaining(m) = qty
                       THEN [cancel_map EXCEPT ![m] = None] ELSE cancel_map
      /\ levels' = IF Remaining(m) = qty /\ Len(q) = 1
                   THEN [levels EXCEPT ![s0] = @ \ {p0}] ELSE levels
      /\ UNCHANGED <<req, sequence, taker, stamp>>
  BY <1>2, <1>3 DEF FillAt, TradePrice, Forget, LevelsAfterRemoval, IInv, TypeOK
<1> HIDE DEF s0, q, m
<1>7. /\ m \in OrderId /\ m # taker /\ req[m].quantity \in Nat
      /\ filled[m] \in Nat /\ filled[m] < req[m].quantity
      /\ req[m].price = p0 /\ cancel_map[m] = <<s0, p0>>
      /\ m \in Resting
  BY <1>5 DEF RestsAt
<1>8. /\ qty \in Nat \ {0}
      /\ qty <= Remaining(taker) /\ qty <= Remaining(m)
      /\ Remaining(m) = req[m].quantity - filled[m]
  BY <1>1, <1>2, <1>7 DEF Least, Remaining
<1> HIDE DEF qty
<1>9. \A o \in OrderId : filled'[o] =
         IF o = taker \/ o = m THEN filled[o] + qty ELSE filled[o]
  BY <1>2, <1>6, <1>7 DEF IInv, TypeOK
<1>10. \A o \in OrderId : o # m => status'[o] = status[o]
  BY <1>6, <1>7 DEF IInv, TypeOK
<1>11. /\ queue' \in [Side -> [Price -> Seq(OrderId)]]
       /\ cancel_map' \in [OrderId -> (Side \X Price) \union {None}]
       /\ levels' \in [Side -> SUBSET Price]
       /\ LevelsInhabited' /\ CancelMapExact' /\ FifoByArrival'
       /\ BookNotCrossed'
  <2>1. CASE Remaining(m) = qty
    <3>1. /\ Tail(q) \in Seq(OrderId) /\ Len(Tail(q)) = Len(q) - 1
          /\ \A j \in 1..Len(q) - 1 : Tail(q)[j] = q[j + 1]
      BY <1>3, <1>4, HeadTailProperties DEF q
    <3>2. \A j \in 1..Len(q) - 1 :
             Tail(q)[j] = IF j < 1 THEN q[j] ELSE q[j + 1]
      BY <3>1, <1>4
    <3> DEFINE r == Tail(q)
    <3>3. /\ r \in Seq(OrderId) /\ Len(r) = Len(queue[s0][p0]) - 1
          /\ \A j \in 1..Len(queue[s0][p0]) - 1 :
                r[j] = IF j < 1 THEN queue[s0][p0][j] ELSE queue[s0][p0][j + 1]
          /\ 1 \in 1..Len(queue[s0][p0])
      BY <3>1, <3>2, <1>4 DEF q
    <3>4. /\ queue' = [queue EXCEPT ![s0][p0] = r]
          /\ cancel_map' = [cancel_map EXCEPT ![queue[s0][p0][1]] = None]
          /\ levels' = IF Len(queue[s0][p0]) = 1
                       THEN [levels EXCEPT ![s0] = @ \ {p0}] ELSE levels
          /\ stamp' = stamp
      BY <2>1, <1>4, <1>6 DEF q
    <3> HIDE DEF r
    <3> QED BY <3>3, <3>4, <1>2, RemovalKeepsIndexes DEF s0
  <2>2. CASE Remaining(m) # qty
    <3>1. UNCHANGED <<queue, cancel_map, levels, stamp>>
      BY <2>2, <1>6
    <3>2. LevelsInhabited' /\ FifoByArrival' /\ BookNotCrossed'
      BY <3>1 DEF IInv, LevelsInhabited, FifoByArrival, BookNotCrossed
    <3>3. CancelMapExact'
      BY <3>1 DEF IInv, CancelMapExact
    <3> QED BY <3>1, <3>2, <3>3 DEF IInv, TypeOK
  <2> QED BY <2>1, <2>2
<1>12. TypeOK'
  <2>1. filled' \in [OrderId -> Nat]
    <3>1. filled' = [filled EXCEPT ![taker] = @ + qty, ![m] = @ + qty] BY <1>6
    <3>2. filled \in [OrderId -> Nat] BY DEF IInv, TypeOK
    <3>3. qty \in Nat BY <1>8
    <3> QED BY <3>1, <3>2, <3>3, <1>2, <1>7
  <2>2. total' \in [Side -> [Price -> Int]]
    <3>1. total' = [total EXCEPT ![s0][p0] = @ - qty] BY <1>6
    <3>2. total \in [Side -> [Price -> Int]] BY DEF IInv, TypeOK
    <3>3. qty \in Int /\ s0 \in Side BY <1>2, <1>8 DEF s0
    <3> QED BY <3>1, <3>2, <3>3
  <2>3. status' \in [OrderId -> OrderStatus]
    BY <1>6, <1>7 DEF IInv, TypeOK, OrderStatus
  <2>4. trades' \in Seq(Trade)
    <3>1. [maker |-> m, taker |-> taker, price |-> req[m].price,
           quantity |-> qty] \in Trade
      BY <1>2, <1>7, <1>8 DEF Trade
    <3> QED BY <3>1, <1>6, AppendProperties DEF IInv, TypeOK
  <2> QED BY <2>1, <2>2, <2>3, <2>4, <1>6, <1>11 DEF IInv, TypeOK
<1>13. RestingIsLive'
  <2> SUFFICES ASSUME NEW o \in OrderId, cancel_map'[o] # None
               PROVE  /\ req[o] # None
                      /\ req[o].order_type = "LIMIT"
                      /\ req[o].time_in_force \in {"GTC", "GTD"}
                      /\ cancel_map'[o] = <<req[o].side, req[o].price>>
                      /\ filled'[o] < req[o].quantity
                      /\ status'[o] = IF filled'[o] = 0 THEN "OPEN" ELSE "PARTIALLY_FILLED"
    BY <1>6 DEF RestingIsLive, Resting
  <2>1. cancel_map'[o] = cancel_map[o]
    BY <1>6, <1>7 DEF IInv, TypeOK
  <2>2. /\ req[o] # None
        /\ req[o].order_type = "LIMIT"
        /\ req[o].time_in_force \in {"GTC", "GTD"}
        /\ cancel_map[o] = <<req[o].side, req[o].price>>
        /\ filled[o] < req[o].quantity
        /\ status[o] = IF filled[o] = 0 THEN "OPEN" ELSE "PARTIALLY_FILLED"
    BY <2>1 DEF IInv, RestingIsLive, Resting
  <2>3. o # taker
    BY <2>1, <1>2
  <2>4. CASE o = m
    <3>1. Remaining(m) # qty
      BY <2>4, <1>6, <1>7 DEF IInv, TypeOK
    <3>2. filled'[m] = filled[m] + qty /\ filled'[m] < req[m].quantity
      BY <3>1, <1>7, <1>8, <1>9
    <3>3. filled'[m] # 0
      BY <3>2, <1>7, <1>8
    <3>4. status'[m] = "PARTIALLY_FILLED"
      BY <3>1, <1>6, <1>7 DEF IInv, TypeOK
    <3> QED BY <3>2, <3>3, <3>4, <2>1, <2>2, <2>4
  <2>5. CASE o # m
    <3>1. filled'[o] = filled[o] /\ status'[o] = status[o]
      BY <2>3, <2>5, <1>9, <1>10
    <3> QED BY <3>1, <2>1, <2>2
  <2> QED BY <2>4, <2>5
<1>14. TakerSound'
  <2>1. cancel_map'[taker] = None
    BY <1>2, <1>6, <1>7 DEF IInv, TypeOK
  <2>2. filled'[taker] <= req[taker].quantity
    BY <1>2, <1>8, <1>9 DEF Remaining
  <2> QED BY <2>1, <2>2, <1>6 DEF IInv, TakerSound
<1>15. StampsBounded'
  BY <1>6 DEF IInv, StampsBounded
<1> QED BY <1>11, <1>12, <1>13, <1>14, <1>15 DEF IInv

-----------------------------------------------------------------------------
(* The inductive invariant and what follows from it.                       *)

\* Every step of the book preserves the invariant.
LEMMA NextIInv == IInv /\ [Next]_vars => IInv'
<1> SUFFICES ASSUME IInv, [Next]_vars PROVE IInv'
  OBVIOUS
<1>1. ASSUME NEW o \in OrderId, SubmitNew(o) PROVE IInv'
  BY <1>1, SubmitIInv
<1>2. ASSUME NEW o \in OrderId, CancelResting(o) PROVE IInv'
  BY <1>2, CancelIInv
<1>3. CASE Fill
  BY <1>3, FillIInv
<1>4. CASE FinishFilled
  BY <1>4, ReturnIInv DEF FinishFilled, LoopDone, OrderStatus
<1>5. CASE FinishMarket
  <2> DEFINE st == IF filled[taker] > 0 THEN "PARTIALLY_FILLED" ELSE status[taker]
  <2>1. taker # None /\ Return(st)
    BY <1>5 DEF FinishMarket, LoopDone
  <2>2. st \in OrderStatus
    BY <2>1, TakerFacts DEF IInv, TypeOK, OrderStatus
  <2> HIDE DEF st
  <2> QED BY <2>1, <2>2, ReturnIInv
<1>6. CASE FinishKill
  BY <1>6, ReturnIInv DEF FinishKill, LoopDone, OrderStatus
<1>7. CASE FinishRest
  BY <1>7, RestIInv
<1>8. CASE UNCHANGED vars
  BY <1>8 DEF vars, IInv, TypeOK, LevelsInhabited, CancelMapExact, FifoByArrival,
      RestingIsLive, Resting, BookNotCrossed, TakerSound, StampsBounded
<1> QED BY <1>1, <1>2, <1>3, <1>4, <1>5, <1>6, <1>7, <1>8
       DEF Next, Finish, Cancel, CancelUnknown

\* Every reachable state of the book, between the iterations of its matching
\* loop too, satisfies the inductive invariant.
LEMMA SafetyInvariant == Safety => []IInv
<1>1. Init => IInv
  BY InitIInv
<1>2. IInv /\ [Next]_vars => IInv'
  BY NextIInv
<1> QED BY <1>1, <1>2, PTL DEF Safety

\* The same of the full specification.
THEOREM BookInvariant == Spec => []IInv
BY SafetyInvariant, PTL DEF Spec

\* The state of the book is always well typed.
THEOREM BookTyped == Spec => []TypeOK
BY BookInvariant, PTL DEF IInv

\* The book is never crossed or locked, even inside a submit.
THEOREM NeverCrossed == Spec => []BookNotCrossed
<1>1. IInv => BookNotCrossed BY DEF IInv
<1> QED BY <1>1, BookInvariant, PTL

\* The cancel map and the level queues always name the same orders.
THEOREM CancelMapAgrees == Spec => []CancelMapExact
<1>1. IInv => CancelMapExact BY DEF IInv
<1> QED BY <1>1, BookInvariant, PTL

\* No queue is ever out of arrival order.
THEOREM AlwaysFifo == Spec => []FifoByArrival
<1>1. IInv => FifoByArrival BY DEF IInv
<1> QED BY <1>1, BookInvariant, PTL

\* No price level is kept empty or lost.
THEOREM LevelsAlwaysInhabited == Spec => []LevelsInhabited
<1>1. IInv => LevelsInhabited BY DEF IInv
<1> QED BY <1>1, BookInvariant, PTL

\* Only live residuals rest.
THEOREM AlwaysLive == Spec => []RestingIsLive
<1>1. IInv => RestingIsLive BY DEF IInv
<1> QED BY <1>1, BookInvariant, PTL

-----------------------------------------------------------------------------
(* Priority.                                                               *)

\* A resting order is in a queue, at one of the levels of its side.
LEMMA RestingPlace ==
    ASSUME IInv, NEW n \in Resting
    PROVE  /\ n \in OrderId /\ req[n].side \in Side /\ req[n].price \in Price
           /\ req[n].price \in levels[req[n].side]
           /\ \E i \in 1..Len(queue[req[n].side][req[n].price]) :
                 queue[req[n].side][req[n].price][i] = n
<1>1. n \in OrderId /\ cancel_map[n] # None
  BY DEF Resting
<1>2. cancel_map[n] = <<req[n].side, req[n].price>>
  BY DEF IInv, RestingIsLive
<1>3. cancel_map[n] \in Side \X Price
  BY <1>1 DEF IInv, TypeOK
<1>4. req[n].side \in Side /\ req[n].price \in Price
  BY <1>2, <1>3
<1>5. \E i \in 1..Len(queue[req[n].side][req[n].price]) :
         queue[req[n].side][req[n].price][i] = n
  BY <1>1, <1>2, <1>4 DEF IInv, CancelMapExact
<1>6. queue[req[n].side][req[n].price] # <<>>
  BY <1>5, EmptySeq
<1> QED BY <1>1, <1>4, <1>5, <1>6 DEF IInv, LevelsInhabited

\* What one iteration of the matching loop does, without the queues.
FillOf(m) ==
    LET qty == Least(Remaining(taker), Remaining(m))
    IN  /\ m \in Resting /\ m # taker /\ taker # None
        /\ Remaining(taker) > 0 /\ Remaining(taker) \in Nat /\ Remaining(m) \in Nat
        /\ req[m].side = Opposite(req[taker].side)
        /\ Crosses(req[taker].side, req[taker].price, req[m].price)
        /\ \A n \in Resting \ {m} : req[n].side = req[m].side => Precedes(m, n)
        /\ filled' = [filled EXCEPT ![taker] = @ + qty, ![m] = @ + qty]
        /\ trades' = Append(trades, [maker |-> m, taker |-> taker,
                                     price |-> req[m].price, quantity |-> qty])
        /\ status' = [status EXCEPT ![m] =
              IF Remaining(m) = qty THEN "FILLED" ELSE "PARTIALLY_FILLED"]
        /\ Resting' = IF Remaining(m) = qty THEN Resting \ {m} ELSE Resting
        /\ UNCHANGED <<req, sequence, taker, stamp>>
        /\ total' = [total EXCEPT ![req[m].side][req[m].price] = @ - qty]
        /\ cancel_map' = IF Remaining(m) = qty
                         THEN [cancel_map EXCEPT ![m] = None] ELSE cancel_map
        /\ Remaining(m) # qty => levels' = levels
        /\ \A s \in Side : levels'[s] \subseteq levels[s]

\* The order one iteration of the loop trades with precedes all others on its side.
LEMMA FillHasPriority ==
    ASSUME IInv, Fill
    PROVE  \E m \in OrderId : FillOf(m)
<1> DEFINE s0 == Opposite(req[taker].side)
<1>1. taker # None /\ Remaining(taker) > 0
  BY DEF Fill
<1>2. /\ taker \in OrderId /\ req[taker].side \in Side /\ s0 \in Side
      /\ Remaining(taker) \in Nat
  BY <1>1, TakerFacts DEF Opposite, Side
<1>3. PICK p0 \in Price :
         /\ IsBest(s0, p0)
         /\ Crosses(req[taker].side, req[taker].price, p0)
         /\ queue[s0][p0] # <<>>
         /\ FillAt(p0, Head(queue[s0][p0]))
  BY DEF Fill
<1> DEFINE q == queue[s0][p0]
           m == Head(q)
<1>4. q \in Seq(OrderId) /\ Len(q) \in Nat /\ 1 \in 1..Len(q) /\ m = q[1]
  <2>1. q \in Seq(OrderId) BY <1>2 DEF IInv, TypeOK
  <2> QED BY <2>1, <1>3, LenProperties, EmptySeq
<1>5. RestsAt(m, s0, p0)
  BY <1>2, <1>4, Queued
<1>6. /\ m \in OrderId /\ m # taker /\ m \in Resting
      /\ req[m].side = s0 /\ req[m].price = p0 /\ Remaining(m) \in Nat
  BY <1>5, RestingFacts
<1>7. \A n \in Resting \ {m} : req[n].side = req[m].side => Precedes(m, n)
  <2> SUFFICES ASSUME NEW n \in Resting, n # m, req[n].side = s0
               PROVE  Precedes(m, n)
    BY <1>6
  <2>1. /\ n \in OrderId /\ req[n].price \in levels[s0]
        /\ \E i \in 1..Len(queue[s0][req[n].price]) :
              queue[s0][req[n].price][i] = n
    BY RestingPlace
  <2>2. CASE req[n].price = p0
    <3>1. PICK i \in 1..Len(q) : q[i] = n
      BY <2>1, <2>2
    <3>2. 1 < i
      BY <3>1, <1>4
    <3>3. stamp[q[1]] < stamp[q[i]]
      BY <3>1, <3>2, <1>2, <1>4 DEF IInv, FifoByArrival
    <3> QED BY <3>1, <3>3, <2>2, <1>4, <1>6 DEF Precedes
  <2>3. CASE req[n].price # p0
    BY <2>1, <2>3, <1>3, <1>6 DEF IsBest, Precedes
  <2> QED BY <2>2, <2>3
<1>8. Resting' = IF Remaining(m) = Least(Remaining(taker), Remaining(m))
                 THEN Resting \ {m} ELSE Resting
  <2>1. cancel_map' = IF Remaining(m) = Least(Remaining(taker), Remaining(m))
                      THEN [cancel_map EXCEPT ![m] = None] ELSE cancel_map
    BY <1>3 DEF FillAt, Forget
  <2> HIDE DEF m
  <2> QED BY <2>1, <1>6 DEF IInv, TypeOK, Resting
<1>9. /\ total' = [total EXCEPT ![req[m].side][req[m].price] =
                       @ - Least(Remaining(taker), Remaining(m))]
      /\ cancel_map' = IF Remaining(m) = Least(Remaining(taker), Remaining(m))
                       THEN [cancel_map EXCEPT ![m] = None] ELSE cancel_map
      /\ Remaining(m) # Least(Remaining(taker), Remaining(m)) => levels' = levels
  BY <1>3, <1>6 DEF FillAt, Forget
<1>10. \A s \in Side : levels'[s] \subseteq levels[s]
  <2>1. levels' = levels \/ levels' = [levels EXCEPT ![s0] = @ \ {p0}]
    BY <1>3 DEF FillAt, LevelsAfterRemoval
  <2> QED BY <2>1 DEF IInv, TypeOK
<1>11. FillOf(m)
  BY <1>1, <1>2, <1>3, <1>6, <1>7, <1>8, <1>9, <1>10 DEF FillAt, TradePrice, FillOf
<1> QED BY <1>6, <1>11

\* Only an iteration of the matching loop adds a trade.
LEMMA TradesOnlyFill ==
    ASSUME [Next]_vars, trades' # trades
    PROVE  Fill
BY DEF Next, vars, SubmitNew, Submit, Cancel, CancelResting, CancelUnknown,
       Finish, FinishFilled, FinishMarket, FinishKill, FinishRest, Return

\* Every trade serves the resting order that comes first in price-time
\* priority, at its price and within the taker's limit.
THEOREM PriorityAlways == Spec => PriorityRespected
<1>1. ASSUME IInv, [Next]_vars, trades' # trades
      PROVE  LET t == Last(trades')
             IN  /\ t.maker \in Resting
                 /\ req[t.maker].side = Opposite(req[t.taker].side)
                 /\ t.price = req[t.maker].price
                 /\ Crosses(req[t.taker].side, req[t.taker].price, t.price)
                 /\ \A n \in Resting \ {t.maker} :
                       req[n].side = req[t.maker].side => Precedes(t.maker, n)
  <2>1. PICK m \in OrderId : FillOf(m)
    BY <1>1, TradesOnlyFill, FillHasPriority
  <2> DEFINE t == [maker |-> m, taker |-> taker, price |-> req[m].price,
                   quantity |-> Least(Remaining(taker), Remaining(m))]
  <2>2. trades' = Append(trades, t)
    BY <2>1 DEF FillOf
  <2>3. trades \in Seq(Trade) /\ t \in Trade
    <3>1. taker \in OrderId /\ m \in Resting /\ Remaining(m) \in Nat
          /\ Remaining(taker) \in Nat /\ Remaining(taker) > 0
      BY <1>1, <2>1, TakerFacts DEF FillOf
    <3>2. req[m].price \in Price
      BY <1>1, <3>1, RestingPlace
    <3>3. Remaining(m) > 0
      <4>1. filled[m] < req[m].quantity /\ req[m] # None
        BY <1>1, <3>1 DEF IInv, RestingIsLive
      <4>2. req[m].quantity \in Nat /\ filled[m] \in Nat
        BY <1>1, <4>1, QuantityAssumption DEF IInv, TypeOK, Request
      <4> QED BY <4>1, <4>2 DEF Remaining
    <3> QED BY <1>1, <3>1, <3>2, <3>3 DEF IInv, TypeOK, Trade, Least
  <2>4. Last(trades') = t
    <3> HIDE DEF t
    <3> QED BY <2>2, <2>3, AppendProperties DEF Last
  <2>5. t.maker = m /\ t.taker = taker /\ t.price = req[m].price
    OBVIOUS
  <2> HIDE DEF t
  <2> QED BY <2>1, <2>4, <2>5 DEF FillOf
<1> QED BY <1>1, BookInvariant, PTL DEF Spec, Safety, PriorityRespected

\* When the matching loop stops with quantity left, nothing that rests on the
\* other side crosses the taker, at the best level or behind it.
LEMMA LoopDoneExhausts ==
    ASSUME IInv, LoopDone, Remaining(taker) > 0,
           NEW n \in Resting, req[n].side = Opposite(req[taker].side)
    PROVE  ~Crosses(req[taker].side, req[taker].price, req[n].price)
<1> DEFINE s0 == Opposite(req[taker].side)
<1>1. taker # None /\ Remaining(taker) \in Nat
  BY TakerFacts DEF LoopDone
<1>2. req[n].price \in levels[s0] /\ req[n].price \in Price
  BY RestingPlace
<1>3. PICK best \in Price :
         IsBest(s0, best) /\ ~Crosses(req[taker].side, req[taker].price, best)
  BY <1>1, <1>2 DEF LoopDone
<1>4. req[n].price = best \/ Better(s0, best, req[n].price)
  BY <1>2, <1>3 DEF IsBest
<1>5. req[taker].side \in Side /\ req[taker].price \in Price \union {None}
  BY <1>1, TakerFacts DEF Request
<1>6. req[taker].price # None
  BY <1>3 DEF Crosses
<1>7. req[taker].price \in Int /\ best \in Int /\ req[n].price \in Int
  BY <1>2, <1>5, <1>6, PriceAssumption
<1>8. CASE req[taker].side = "BUY"
  BY <1>3, <1>4, <1>6, <1>7, <1>8 DEF Crosses, Better, Opposite
<1>9. CASE req[taker].side = "SELL"
  BY <1>3, <1>4, <1>6, <1>7, <1>9 DEF Crosses, Better, Opposite
<1> QED BY <1>5, <1>8, <1>9 DEF Side

\* submit returns only by way of its time-in-force policy.
LEMMA TakerLeavesOnlyByFinish ==
    ASSUME [Next]_vars, taker # None, taker' = None
    PROVE  Finish
BY DEF Next, vars, SubmitNew, Submit, Cancel, CancelResting, CancelUnknown,
       Fill, FillAt

\* No submit ever gives up on quantity that a resting order would still take.
THEOREM NeverMissesMatch == Spec => NoMissedMatch
<1>1. ASSUME IInv, [Next]_vars, taker # None, taker' = None, Remaining(taker) > 0
      PROVE  \A n \in Resting : req[n].side = Opposite(req[taker].side) =>
                ~Crosses(req[taker].side, req[taker].price, req[n].price)
  <2>1. LoopDone
    BY <1>1, TakerLeavesOnlyByFinish
       DEF Finish, FinishFilled, FinishMarket, FinishKill, FinishRest
  <2> QED BY <1>1, <2>1, LoopDoneExhausts
<1> QED BY <1>1, BookInvariant, PTL DEF Spec, Safety, NoMissedMatch

-----------------------------------------------------------------------------
(* The life of an order.                                                   *)

\* What the status of an order tells: nothing before its submit is through, and
\* after it, for a limit order, whether the order is in the book.
StatusSound ==
    /\ \A o \in OrderId : req[o] = None => status[o] = "PENDING"
    /\ taker # None => status[taker] = "PENDING"
    /\ \A o \in OrderId :
         (req[o] # None /\ o # taker /\ req[o].order_type = "LIMIT") =>
             (o \in Resting <=> status[o] \in {"OPEN", "PARTIALLY_FILLED"})

\* What a cancel does to the order, wherever in its level it waits.
LEMMA CancelEffect ==
    ASSUME IInv, NEW o \in OrderId, CancelResting(o)
    PROVE  /\ taker = None /\ o \in Resting /\ req[o] # None
           /\ Resting' = Resting \ {o}
           /\ status' = [status EXCEPT ![o] = "CANCELLED"]
           /\ UNCHANGED <<req, filled, sequence, taker, trades, stamp>>
           /\ cancel_map' = [cancel_map EXCEPT ![o] = None]
           /\ total' = [total EXCEPT ![req[o].side][req[o].price] = @ - Remaining(o)]
           /\ \A s \in Side : levels'[s] \subseteq levels[s]
<1> DEFINE s0 == req[o].side
           p0 == req[o].price
<1>1. /\ taker = None /\ cancel_map[o] # None
      /\ cancel_map' = [cancel_map EXCEPT ![o] = None]
      /\ UNCHANGED <<req, filled, sequence, taker, trades, stamp>>
  BY DEF CancelResting, Forget
<1>2. o \in Resting /\ req[o] # None /\ cancel_map[o] = <<s0, p0>>
  BY <1>1 DEF IInv, RestingIsLive, Resting
<1>3. /\ p0 \in levels[s0]
      /\ \E i \in 1..Len(queue[s0][p0]) : queue[s0][p0][i] = o
  BY <1>2, RestingPlace
<1>4. PICK k \in 1..Len(queue[s0][p0]) : RemoveResting(o, s0, p0, k)
  BY <1>2, <1>3 DEF CancelResting, Contains
<1>5. status' = [status EXCEPT ![o] = "CANCELLED"]
  BY <1>4 DEF RemoveResting
<1>6. Resting' = Resting \ {o}
  BY <1>1 DEF IInv, TypeOK, Resting
<1>7. total' = [total EXCEPT ![s0][p0] = @ - Remaining(o)]
  BY <1>4 DEF RemoveResting, TotalWithout
<1>8. \A s \in Side : levels'[s] \subseteq levels[s]
  <2>1. levels' = levels \/ levels' = [levels EXCEPT ![s0] = @ \ {p0}]
    BY <1>4 DEF RemoveResting, LevelsAfterRemoval
  <2> QED BY <2>1 DEF IInv, TypeOK
<1> QED BY <1>1, <1>2, <1>5, <1>6, <1>7, <1>8

\* What the end of a submit does to its order.
LEMMA FinishEffect ==
    ASSUME IInv, Finish
    PROVE  /\ taker # None /\ taker \in OrderId /\ req[taker] # None
           /\ taker \notin Resting /\ taker' = None
           /\ UNCHANGED <<req, filled, sequence, trades, stamp>>
           /\ status'[taker] \in OrderStatus
           /\ status' = [status EXCEPT ![taker] = status'[taker]]
           /\ Resting' = IF FinishRest THEN Resting \union {taker} ELSE Resting
           /\ FinishRest => status'[taker] \in {"OPEN", "PARTIALLY_FILLED"}
           /\ FinishFilled \/ FinishKill => status'[taker] \in {"FILLED", "CANCELLED"}
           /\ FinishMarket => req[taker].order_type = "MARKET"
<1>1. taker # None
  BY DEF Finish, FinishFilled, FinishMarket, FinishKill, FinishRest, LoopDone
<1>2. /\ taker \in OrderId /\ req[taker] # None /\ taker \notin Resting
      /\ req[taker].side \in Side /\ req[taker].quantity \in Nat /\ filled[taker] \in Nat
      /\ req[taker].order_type = "LIMIT" => req[taker].price \in Price
  BY <1>1, TakerFacts
<1>3. status \in [OrderId -> OrderStatus] /\ cancel_map \in [OrderId -> (Side \X Price) \union {None}]
  BY DEF IInv, TypeOK
<1>4. ASSUME NEW st \in OrderStatus, Return(st), ~FinishRest
      PROVE  /\ taker' = None /\ UNCHANGED <<req, filled, sequence, trades, stamp>>
             /\ status'[taker] = st /\ status' = [status EXCEPT ![taker] = status'[taker]]
             /\ Resting' = Resting
  BY <1>2, <1>3, <1>4 DEF Return, Resting
<1>5. CASE FinishFilled
  <2>1. ~FinishRest /\ ~FinishMarket /\ Return("FILLED") /\ "FILLED" \in OrderStatus
    BY <1>5, <1>2 DEF FinishFilled, FinishRest, FinishMarket, Remaining, OrderStatus
  <2> QED BY <1>1, <1>2, <1>4, <2>1
<1>6. CASE FinishMarket
  <2> DEFINE st == IF filled[taker] > 0 THEN "PARTIALLY_FILLED" ELSE status[taker]
  <2>1. /\ ~FinishRest /\ ~FinishFilled /\ ~FinishKill
        /\ Return(st) /\ st \in OrderStatus /\ req[taker].order_type = "MARKET"
    BY <1>6, <1>2, <1>3 DEF FinishFilled, FinishRest, FinishMarket, FinishKill, OrderStatus
  <2> HIDE DEF st
  <2> QED BY <1>1, <1>2, <1>4, <2>1
<1>7. CASE FinishKill
  <2>1. ~FinishRest /\ ~FinishMarket /\ Return("CANCELLED") /\ "CANCELLED" \in OrderStatus
    BY <1>7 DEF FinishKill, FinishRest, FinishMarket, OrderStatus
  <2> QED BY <1>1, <1>2, <1>4, <2>1
<1>8. CASE FinishRest
  <2>1. /\ ~FinishFilled /\ ~FinishKill /\ ~FinishMarket
    BY <1>8, <1>2 DEF FinishKill, FinishRest, FinishMarket, FinishFilled, Remaining
  <2>2. /\ taker' = None /\ UNCHANGED <<req, filled, sequence, trades, stamp>>
        /\ cancel_map' = [cancel_map EXCEPT ![taker] = <<req[taker].side, req[taker].price>>]
        /\ status' = [status EXCEPT ![taker] = RestingStatus(taker)]
        /\ req[taker].order_type = "LIMIT"
    BY <1>8 DEF FinishRest, RestOrder
  <2>3. <<req[taker].side, req[taker].price>> # None
    BY <1>2, <2>2, PlaceNotNone
  <2>4. Resting' = Resting \union {taker}
    BY <1>2, <1>3, <2>2, <2>3 DEF Resting
  <2>5. /\ status'[taker] \in {"OPEN", "PARTIALLY_FILLED"}
        /\ status' = [status EXCEPT ![taker] = status'[taker]]
    BY <1>2, <1>3, <2>2 DEF RestingStatus
  <2> QED BY <1>1, <1>2, <1>8, <2>1, <2>2, <2>4, <2>5 DEF OrderStatus
<1> QED BY <1>5, <1>6, <1>7, <1>8 DEF Finish

\* What a step may do to the life of an order.
LifeStep ==
    \A o \in OrderId :
        /\ status[o] \in {"FILLED", "CANCELLED"} => status'[o] = status[o]
        /\ (o \in Resting' /\ o \notin Resting) => o = taker

\* Every step of the book keeps StatusSound and the lives of its orders in order.
LEMMA StatusStep == IInv /\ StatusSound /\ [Next]_vars => StatusSound' /\ LifeStep
<1> SUFFICES ASSUME IInv, StatusSound, [Next]_vars PROVE StatusSound' /\ LifeStep
  OBVIOUS
<1>0. /\ status \in [OrderId -> OrderStatus] /\ req \in [OrderId -> Request \union {None}]
      /\ None \notin OrderId
  BY NoneAssumption DEF IInv, TypeOK
<1>1. ASSUME NEW o \in OrderId, SubmitNew(o) PROVE StatusSound' /\ LifeStep
  <2>1. PICK r \in ValidRequest : Submit(o, r)
    BY <1>1 DEF SubmitNew
  <2>2. /\ req[o] = None /\ taker = None /\ taker' = o /\ Resting' = Resting
        /\ req' = [req EXCEPT ![o] = r] /\ status' = [status EXCEPT ![o] = "PENDING"]
    BY <1>1, <2>1 DEF SubmitNew, Submit, Resting
  <2> QED BY <1>0, <2>2 DEF StatusSound, LifeStep
<1>2. ASSUME NEW o \in OrderId, CancelResting(o) PROVE StatusSound' /\ LifeStep
  <2>1. /\ o \in Resting /\ req[o] # None /\ Resting' = Resting \ {o} /\ taker = None
        /\ status' = [status EXCEPT ![o] = "CANCELLED"] /\ UNCHANGED <<req, taker>>
    BY <1>2, CancelEffect
  <2>2. status[o] \notin {"FILLED", "CANCELLED"}
    BY <2>1 DEF IInv, RestingIsLive
  <2> QED BY <1>0, <2>1, <2>2 DEF StatusSound, LifeStep
<1>3. CASE Fill
  <2>1. PICK m \in OrderId : FillOf(m)
    BY <1>3, FillHasPriority
  <2> DEFINE done == Remaining(m) = Least(Remaining(taker), Remaining(m))
  <2>2. /\ m \in Resting /\ m # taker /\ UNCHANGED <<req, taker>>
        /\ status' = [status EXCEPT ![m] = IF done THEN "FILLED" ELSE "PARTIALLY_FILLED"]
        /\ Resting' = IF done THEN Resting \ {m} ELSE Resting
    BY <2>1 DEF FillOf
  <2>3. req[m] # None /\ status[m] \notin {"FILLED", "CANCELLED"}
    BY <2>2 DEF IInv, RestingIsLive
  <2>4. taker \in OrderId \union {None}
    BY DEF IInv, TypeOK
  <2> HIDE DEF done
  <2> QED BY <1>0, <2>2, <2>3, <2>4 DEF StatusSound, LifeStep
<1>4. CASE Finish
  <2>1. /\ taker # None /\ taker \in OrderId /\ req[taker] # None /\ taker' = None
        /\ taker \notin Resting
        /\ status' = [status EXCEPT ![taker] = status'[taker]] /\ req' = req
        /\ Resting' = IF FinishRest THEN Resting \union {taker} ELSE Resting
        /\ FinishRest => status'[taker] \in {"OPEN", "PARTIALLY_FILLED"}
        /\ FinishFilled \/ FinishKill => status'[taker] \in {"FILLED", "CANCELLED"}
        /\ FinishMarket => req[taker].order_type = "MARKET"
    BY <1>4, FinishEffect
  <2>2. \A o \in OrderId \ {taker} : status'[o] = status[o] /\ (o \in Resting' <=> o \in Resting)
    BY <1>0, <2>1
  <2>3. status[taker] = "PENDING"
    BY <2>1 DEF StatusSound
  <2>4. LifeStep
    BY <2>2, <2>3 DEF LifeStep
  <2>5. req[taker].order_type = "LIMIT" =>
           (taker \in Resting' <=> status'[taker] \in {"OPEN", "PARTIALLY_FILLED"})
    BY <1>4, <2>1 DEF Finish
  <2> QED BY <2>1, <2>2, <2>4, <2>5 DEF StatusSound
<1>5. CASE UNCHANGED vars
  BY <1>5 DEF vars, StatusSound, LifeStep, Resting
<1> QED BY <1>1, <1>2, <1>3, <1>4, <1>5 DEF Next, Cancel, CancelUnknown

\* Between submits a status is what the client may rely on: final when it is
\* FILLED or CANCELLED, and no order comes back to the book.
THEOREM AlwaysFinal == Spec => TerminalIsFinal
<1>1. Init => StatusSound
  BY NoneAssumption DEF Init, StatusSound
<1>2. LifeStep <=> \A o \in OrderId :
        /\ status[o] \in {"FILLED", "CANCELLED"} => status'[o] = status[o]
        /\ (o \in Resting' /\ o \notin Resting) => o = taker
  BY DEF LifeStep
<1> QED BY <1>1, <1>2, StatusStep, BookInvariant, PTL DEF Spec, Safety, TerminalIsFinal

-----------------------------------------------------------------------------
(* The running sums.                                                       *)

\* The orders the cancel map has at a place.
At(s, p) == {o \in OrderId : cancel_map[o] = <<s, p>>}

\* What every order still wants.
Wants == [o \in OrderId |-> Remaining(o)]

\* A queue holds the orders of its place, finitely many, that want something.
PlacesSound ==
    \A s \in Side, p \in Price :
        /\ ToSet(queue[s][p]) = At(s, p)
        /\ IsFiniteSet(At(s, p))
        /\ \A o \in At(s, p) : /\ o \in Resting /\ o # taker /\ req[o] # None
                               /\ req[o].side = s /\ req[o].price = p
                               /\ Remaining(o) \in Nat

\* A sequence has finitely many elements.
LEMMA ToSetFinite ==
    ASSUME NEW S, NEW q \in Seq(S)
    PROVE  IsFiniteSet(ToSet(q))
<1>1. Len(q) \in Nat /\ q \in [1..Len(q) -> ToSet(q)] /\ DOMAIN q = 1..Len(q)
  BY LenProperties DEF ToSet
<1>2. q \in Surjection(1..Len(q), ToSet(q))
  BY <1>1 DEF Surjection, ToSet
<1>3. IsFiniteSet(1..Len(q))
  BY <1>1, FS_Interval
<1> QED BY <1>2, <1>3, FS_Surjection

\* The index and the queues tell the same story of every place.
LEMMA IInvPlaces == IInv => PlacesSound
<1> SUFFICES ASSUME IInv, NEW s \in Side, NEW p \in Price
             PROVE  /\ ToSet(queue[s][p]) = At(s, p)
                    /\ IsFiniteSet(At(s, p))
                    /\ \A o \in At(s, p) : /\ o \in Resting /\ o # taker /\ req[o] # None
                                           /\ req[o].side = s /\ req[o].price = p
                                           /\ Remaining(o) \in Nat
  BY DEF PlacesSound
<1>1. queue[s][p] \in Seq(OrderId) /\ DOMAIN queue[s][p] = 1..Len(queue[s][p])
  <2>1. queue[s][p] \in Seq(OrderId)
    BY DEF IInv, TypeOK
  <2> QED BY <2>1, LenProperties
<1>2. ToSet(queue[s][p]) = At(s, p)
  <2>1. \A i \in 1..Len(queue[s][p]) : queue[s][p][i] \in OrderId
    BY <1>1, ElementOfSeq
  <2>2. \A o \in OrderId : cancel_map[o] = <<s, p>> <=>
            \E i \in 1..Len(queue[s][p]) : queue[s][p][i] = o
    BY DEF IInv, CancelMapExact
  <2> QED BY <1>1, <2>1, <2>2 DEF At, ToSet
<1>3. IsFiniteSet(At(s, p))
  BY <1>1, <1>2, ToSetFinite
<1>4. ASSUME NEW o \in At(s, p)
      PROVE  /\ o \in Resting /\ o # taker /\ req[o] # None
             /\ req[o].side = s /\ req[o].price = p
             /\ Remaining(o) \in Nat
  <2>1. PICK i \in 1..Len(queue[s][p]) : queue[s][p][i] = o
    BY <1>1, <1>2 DEF ToSet
  <2>2. RestsAt(o, s, p)
    BY <2>1, Queued
  <2>3. req[o] # None
    BY <2>2 DEF RestsAt, IInv, RestingIsLive
  <2> QED BY <2>2, <2>3, RestingFacts
<1> QED BY <1>2, <1>3, <1>4

\* The totals, said of the places instead of the queues.
TotalsAt ==
    \A s \in Side : \A p \in levels[s] : total[s][p] = SumFunctionOnSet(Wants, At(s, p))

\* The two ways to say it agree.
LEMMA TotalsAgree == IInv => (LevelTotalsExact <=> TotalsAt)
<1> SUFFICES ASSUME IInv, NEW s \in Side, NEW p \in levels[s]
             PROVE  SumFunction([o \in ToSet(queue[s][p]) |-> Remaining(o)])
                       = SumFunctionOnSet(Wants, At(s, p))
  BY DEF LevelTotalsExact, TotalsAt
<1> DEFINE f == [o \in At(s, p) |-> Remaining(o)]
<1>1. p \in Price
  BY DEF IInv, TypeOK
<1>2. /\ ToSet(queue[s][p]) = At(s, p) /\ IsFiniteSet(At(s, p))
      /\ \A o \in At(s, p) : Remaining(o) \in Int
  BY <1>1, IInvPlaces DEF PlacesSound
<1>3. /\ \A o \in At(s, p) : Wants[o] \in Int
      /\ \A o \in At(s, p) : f[o] = Wants[o]
  BY <1>2 DEF Wants, At
<1>4. SumFunctionOnSet(f, At(s, p)) = SumFunctionOnSet(Wants, At(s, p))
  <2> HIDE DEF f
  <2> QED BY <1>2, <1>3, SumCongruence
<1>5. DOMAIN f = At(s, p)
  OBVIOUS
<1> QED BY <1>2, <1>4, <1>5 DEF SumFunction

\* Trades name orders that were submitted.
TradesKnown ==
    \A i \in 1..Len(trades) :
        /\ trades[i] \in Trade
        /\ req[trades[i].maker] # None /\ req[trades[i].taker] # None

\* The trades that name an order.
FillsOf(o) == {i \in 1..Len(trades) : o \in {trades[i].maker, trades[i].taker}}

\* The invariant of the sums, on top of IInv.
SumInv == TotalsAt /\ FillsReconcile /\ TradesKnown

\* A step that leaves levels, totals and the cancel map alone, and what the
\* orders of the book want, keeps the totals.
LEMMA TotalsUntouched ==
    ASSUME IInv, IInv', TotalsAt, UNCHANGED <<levels, total, cancel_map>>,
           \A o \in Resting : Remaining(o)' = Remaining(o)
    PROVE  TotalsAt'
<1> SUFFICES ASSUME NEW s \in Side, NEW p \in levels[s]
             PROVE  SumFunctionOnSet(Wants', At(s, p)) = SumFunctionOnSet(Wants, At(s, p))
  BY DEF TotalsAt, At
<1>1. p \in Price
  BY DEF IInv, TypeOK
<1>2. /\ IsFiniteSet(At(s, p)) /\ \A o \in At(s, p) : Remaining(o) \in Int /\ o \in Resting
  BY <1>1, IInvPlaces DEF PlacesSound
<1>3. /\ \A o \in At(s, p) : Wants[o] \in Int
      /\ \A o \in At(s, p) : Wants'[o] = Wants[o]
  BY <1>2 DEF Wants, At
<1> QED BY <1>2, <1>3, SumCongruence

\* An order leaves a place, what it wanted leaves the total, and what the others
\* want does not change.
LEMMA TotalsAfterRemoval ==
    ASSUME IInv, IInv', TotalsAt, NEW o \in Resting,
           cancel_map' = [cancel_map EXCEPT ![o] = None],
           total' = [total EXCEPT ![req[o].side][req[o].price] = @ - Remaining(o)],
           \A s \in Side : levels'[s] \subseteq levels[s],
           \A n \in Resting \ {o} : Remaining(n)' = Remaining(n)
    PROVE  TotalsAt'
<1> SUFFICES ASSUME NEW s \in Side, NEW p \in levels'[s]
             PROVE  total'[s][p] = SumFunctionOnSet(Wants', At(s, p)')
  BY DEF TotalsAt, At
<1>1. /\ p \in Price /\ p \in levels[s] /\ o \in OrderId
      /\ total \in [Side -> [Price -> Int]]
      /\ cancel_map \in [OrderId -> (Side \X Price) \union {None}]
  BY DEF IInv, TypeOK, Resting
<1>2. /\ IsFiniteSet(At(s, p)) /\ \A n \in At(s, p) : Remaining(n) \in Int /\ n \in Resting
  BY <1>1, IInvPlaces DEF PlacesSound
<1>3. total[s][p] = SumFunctionOnSet(Wants, At(s, p))
  BY <1>1 DEF TotalsAt
<1>4. At(s, p)' = At(s, p) \ {o}
  BY <1>1, PlaceNotNone DEF At
<1>5. /\ \A n \in At(s, p) : Wants[n] \in Int
      /\ \A n \in At(s, p) \ {o} : Wants'[n] = Wants[n]
  BY <1>2 DEF Wants, At
<1>6. IsFiniteSet(At(s, p) \ {o})
  BY <1>2, FS_RemoveElement
<1>7. SumFunctionOnSet(Wants', At(s, p) \ {o}) = SumFunctionOnSet(Wants, At(s, p) \ {o})
  BY <1>5, <1>6, SumCongruence
<1>8. cancel_map[o] = <<req[o].side, req[o].price>> /\ req[o].side \in Side /\ req[o].price \in Price
  BY RestingPlace DEF IInv, RestingIsLive
<1>9. CASE o \in At(s, p)
  <2>1. s = req[o].side /\ p = req[o].price
    BY <1>8, <1>9 DEF At
  <2>2. total'[s][p] = total[s][p] - Remaining(o)
    BY <1>1, <2>1
  <2>3. /\ SumFunctionOnSet(Wants, At(s, p)) = Wants[o] + SumFunctionOnSet(Wants, At(s, p) \ {o})
        /\ SumFunctionOnSet(Wants, At(s, p) \ {o}) \in Int
    BY <1>2, <1>5, <1>9, SumSplit
  <2>4. Wants[o] = Remaining(o) /\ Remaining(o) \in Int
    BY <1>1, <1>2, <1>9 DEF Wants
  <2> QED BY <1>3, <1>4, <1>7, <2>2, <2>3, <2>4
<1>10. CASE o \notin At(s, p)
  <2>1. s # req[o].side \/ p # req[o].price
    BY <1>1, <1>8, <1>10 DEF At
  <2>2. total'[s][p] = total[s][p]
    BY <1>1, <2>1
  <2>3. At(s, p) \ {o} = At(s, p)
    BY <1>10
  <2> QED BY <1>3, <1>4, <1>7, <2>2, <2>3
<1> QED BY <1>9, <1>10

\* An order of the book is filled in part: its level's total moves with it.
LEMMA TotalsAfterPartialFill ==
    ASSUME IInv, IInv', TotalsAt, NEW o \in Resting, NEW qty \in Int,
           UNCHANGED <<levels, cancel_map>>,
           total' = [total EXCEPT ![req[o].side][req[o].price] = @ - qty],
           Remaining(o)' = Remaining(o) - qty,
           \A n \in Resting \ {o} : Remaining(n)' = Remaining(n)
    PROVE  TotalsAt'
<1> SUFFICES ASSUME NEW s \in Side, NEW p \in levels[s]
             PROVE  total'[s][p] = SumFunctionOnSet(Wants', At(s, p))
  BY DEF TotalsAt, At
<1>1. /\ p \in Price /\ o \in OrderId /\ total \in [Side -> [Price -> Int]]
  BY DEF IInv, TypeOK, Resting
<1>2. /\ IsFiniteSet(At(s, p)) /\ \A n \in At(s, p) : Remaining(n) \in Int /\ n \in Resting
  BY <1>1, IInvPlaces DEF PlacesSound
<1>3. total[s][p] = SumFunctionOnSet(Wants, At(s, p))
  BY DEF TotalsAt
<1>4. /\ \A n \in At(s, p) : Wants[n] \in Int
      /\ \A n \in At(s, p) \ {o} : Wants'[n] = Wants[n]
  BY <1>2 DEF Wants, At
<1>5. cancel_map[o] = <<req[o].side, req[o].price>> /\ req[o].side \in Side /\ req[o].price \in Price
  BY RestingPlace DEF IInv, RestingIsLive
<1>6. CASE o \in At(s, p)
  <2>1. s = req[o].side /\ p = req[o].price
    BY <1>5, <1>6 DEF At
  <2>2. total'[s][p] = total[s][p] - qty
    BY <1>1, <2>1
  <2>3. /\ Wants[o] = Remaining(o) /\ Wants'[o] = Remaining(o) - qty /\ Remaining(o) \in Int
        /\ Wants'[o] \in Int
    BY <1>1, <1>2, <1>6 DEF Wants
  <2>4. SumFunctionOnSet(Wants', At(s, p)) = SumFunctionOnSet(Wants, At(s, p)) - Wants[o] + Wants'[o]
    BY <1>2, <1>4, <1>6, <2>3, SumUpdate
  <2>5. SumFunctionOnSet(Wants, At(s, p)) \in Int
    BY <1>2, <1>4, SumSplit
  <2> QED BY <1>3, <2>2, <2>3, <2>4, <2>5
<1>7. CASE o \notin At(s, p)
  <2>1. s # req[o].side \/ p # req[o].price
    BY <1>1, <1>5, <1>7 DEF At
  <2>2. total'[s][p] = total[s][p]
    BY <1>1, <2>1
  <2>3. \A n \in At(s, p) : Wants'[n] = Wants[n]
    BY <1>4, <1>7
  <2>4. SumFunctionOnSet(Wants', At(s, p)) = SumFunctionOnSet(Wants, At(s, p))
    BY <1>2, <1>4, <2>3, SumCongruence
  <2> QED BY <1>3, <2>2, <2>4
<1> QED BY <1>6, <1>7

\* A residual rests: a level that was not there starts from nothing.
LEMMA TotalsAfterRest ==
    ASSUME IInv, IInv', TotalsAt, FinishRest
    PROVE  TotalsAt'
<1> DEFINE s0 == req[taker].side
           p0 == req[taker].price
<1>1. taker # None /\ req[taker].order_type = "LIMIT" /\ RestOrder(taker, s0, p0)
      /\ UNCHANGED <<req, filled>>
  BY DEF FinishRest, LoopDone
<1>2. /\ taker \in OrderId /\ s0 \in Side /\ p0 \in Price /\ Remaining(taker) \in Nat
      /\ cancel_map[taker] = None
  BY <1>1, TakerFacts
<1> HIDE DEF s0, p0
<1>3. /\ levels' = [levels EXCEPT ![s0] = @ \union {p0}]
      /\ total' = [total EXCEPT ![s0][p0] = LevelTotal(s0, p0) + Remaining(taker)]
      /\ cancel_map' = [cancel_map EXCEPT ![taker] = <<s0, p0>>]
  BY <1>1 DEF RestOrder
<1>4. /\ total \in [Side -> [Price -> Int]] /\ levels \in [Side -> SUBSET Price]
      /\ cancel_map \in [OrderId -> (Side \X Price) \union {None}]
  BY DEF IInv, TypeOK
<1>5. Wants' = Wants
  BY <1>1 DEF Wants, Remaining
<1> SUFFICES ASSUME NEW s \in Side, NEW p \in levels'[s]
             PROVE  total'[s][p] = SumFunctionOnSet(Wants, At(s, p)')
  BY <1>5 DEF TotalsAt
<1>6. p \in Price
  BY DEF IInv, TypeOK
<1>7. /\ IsFiniteSet(At(s, p)) /\ taker \notin At(s, p)
      /\ \A n \in At(s, p) : Wants[n] \in Int
  <2>1. /\ IsFiniteSet(At(s, p))
        /\ \A n \in At(s, p) : n # taker /\ Remaining(n) \in Nat
    BY <1>6, IInvPlaces DEF PlacesSound
  <2>2. \A n \in At(s, p) : n \in OrderId
    BY DEF At
  <2>3. \A n \in At(s, p) : Wants[n] = Remaining(n)
    BY <2>2 DEF Wants
  <2> QED BY <2>1, <2>3
<1>8. CASE s = s0 /\ p = p0
  <2>1. At(s, p)' = At(s, p) \union {taker}
    BY <1>2, <1>3, <1>4, <1>8 DEF At
  <2>2. total'[s][p] = LevelTotal(s, p) + Remaining(taker)
    BY <1>2, <1>3, <1>4, <1>8
  <2>3. LevelTotal(s, p) = SumFunctionOnSet(Wants, At(s, p))
    <3>1. CASE p \in levels[s]
      BY <3>1 DEF LevelTotal, TotalsAt
    <3>2. CASE p \notin levels[s]
      <4>1. queue[s][p] = <<>>
        BY <1>6, <3>2 DEF IInv, LevelsInhabited
      <4>2. ToSet(queue[s][p]) = {}
        BY <4>1 DEF ToSet
      <4>3. At(s, p) = {}
        BY <1>6, <4>2, IInvPlaces DEF PlacesSound
      <4> QED BY <3>2, <4>3, SumEmpty DEF LevelTotal
    <3> QED BY <3>1, <3>2
  <2>4. Wants[taker] = Remaining(taker)
    BY <1>2 DEF Wants
  <2>5. SumFunctionOnSet(Wants, At(s, p) \union {taker})
           = Wants[taker] + SumFunctionOnSet(Wants, At(s, p))
    BY <1>2, <1>7, <2>4, SumAdd
  <2>6. SumFunctionOnSet(Wants, At(s, p)) \in Int
    BY <1>7, SumSplit
  <2> QED BY <1>2, <2>1, <2>2, <2>3, <2>4, <2>5, <2>6
<1>9. CASE ~(s = s0 /\ p = p0)
  <2>1. At(s, p)' = At(s, p)
    BY <1>2, <1>3, <1>4, <1>9, PlaceNotNone, <1>6 DEF At
  <2>2. total'[s][p] = total[s][p] /\ p \in levels[s]
    BY <1>2, <1>3, <1>4, <1>6, <1>9
  <2> QED BY <2>1, <2>2 DEF TotalsAt
<1> QED BY <1>8, <1>9

\* The trades of every order before and after one more trade.
LEMMA FillsAfterTrade ==
    ASSUME TradesKnown, trades \in Seq(Trade), NEW t \in Trade,
           trades' = Append(trades, t), NEW o \in OrderId
    PROVE  /\ IsFiniteSet(FillsOf(o))
           /\ SumFunctionOnSet(TradeSizes, FillsOf(o)) \in Int
           /\ SumFunctionOnSet(TradeSizes', FillsOf(o)') =
                SumFunctionOnSet(TradeSizes, FillsOf(o))
                  + (IF o \in {t.maker, t.taker} THEN t.quantity ELSE 0)
<1> DEFINE n == Len(trades)
<1>1. /\ n \in Nat /\ Len(trades') = n + 1 /\ trades'[n + 1] = t
      /\ \A i \in 1..n : trades'[i] = trades[i]
  BY AppendProperties, LenProperties
<1> HIDE DEF n
<1>2. FillsOf(o) \subseteq 1..n /\ n + 1 \notin FillsOf(o)
  BY <1>1 DEF FillsOf, n
<1>3. IsFiniteSet(FillsOf(o))
  <2>1. IsFiniteSet(1..n)
    BY <1>1, FS_Interval
  <2>2. FillsOf(o) \in SUBSET (1..n)
    BY <1>2
  <2> QED BY <2>1, <2>2, FS_Subset
<1>4. FillsOf(o)' = IF o \in {t.maker, t.taker} THEN FillsOf(o) \union {n + 1} ELSE FillsOf(o)
  BY <1>1 DEF FillsOf, n
<1>5. /\ \A i \in 1..n : TradeSizes[i] \in Int /\ TradeSizes'[i] = TradeSizes[i]
      /\ TradeSizes'[n + 1] = t.quantity /\ t.quantity \in Int
  BY <1>1 DEF TradeSizes, TradesKnown, Trade, n
<1>6. \A i \in FillsOf(o) : TradeSizes[i] \in Int /\ TradeSizes'[i] = TradeSizes[i]
  BY <1>2, <1>5
<1>7. SumFunctionOnSet(TradeSizes', FillsOf(o)) = SumFunctionOnSet(TradeSizes, FillsOf(o))
  BY <1>3, <1>6, SumCongruence
<1>8. SumFunctionOnSet(TradeSizes, FillsOf(o)) \in Int
  BY <1>3, <1>6, SumSplit
<1>9. SumFunctionOnSet(TradeSizes', FillsOf(o) \union {n + 1})
         = TradeSizes'[n + 1] + SumFunctionOnSet(TradeSizes', FillsOf(o))
  BY <1>2, <1>3, <1>5, <1>6, SumAdd
<1> QED BY <1>3, <1>4, <1>5, <1>7, <1>8, <1>9

\* One iteration of the matching loop keeps all sums.
LEMMA FillSumInv ==
    ASSUME IInv, IInv', SumInv, Fill
    PROVE  SumInv'
<1>1. PICK m \in OrderId : FillOf(m)
  BY FillHasPriority
<1> DEFINE qty == Least(Remaining(taker), Remaining(m))
           t == [maker |-> m, taker |-> taker, price |-> req[m].price, quantity |-> qty]
<1>2. /\ m \in Resting /\ m # taker /\ taker # None
      /\ Remaining(taker) > 0 /\ Remaining(taker) \in Nat /\ Remaining(m) \in Nat
      /\ filled' = [filled EXCEPT ![taker] = @ + qty, ![m] = @ + qty]
      /\ trades' = Append(trades, t) /\ req' = req
      /\ total' = [total EXCEPT ![req[m].side][req[m].price] = @ - qty]
      /\ cancel_map' = IF Remaining(m) = qty THEN [cancel_map EXCEPT ![m] = None] ELSE cancel_map
      /\ Remaining(m) # qty => levels' = levels
      /\ \A s \in Side : levels'[s] \subseteq levels[s]
  BY <1>1 DEF FillOf
<1>3. /\ taker \in OrderId /\ req[taker] # None /\ req[taker].quantity \in Nat
      /\ taker \notin Resting
  BY <1>2, TakerFacts
<1>4. /\ req[m] # None /\ req[m].quantity \in Nat /\ req[m].price \in Price
      /\ filled[m] < req[m].quantity
  <2> DEFINE s == req[m].side
             p == req[m].price
  <2>1. s \in Side /\ p \in Price
    BY <1>2, RestingPlace
  <2>2. \E i \in 1..Len(queue[s][p]) : queue[s][p][i] = m
    BY <1>2, RestingPlace
  <2> HIDE DEF s, p
  <2>3. RestsAt(m, s, p)
    BY <2>1, <2>2, Queued
  <2> USE DEF s, p
  <2> QED BY <2>1, <2>3, <1>2 DEF RestsAt, IInv, RestingIsLive
<1>5. filled \in [OrderId -> Nat] /\ trades \in Seq(Trade)
  BY DEF IInv, TypeOK
<1>6. qty \in Nat /\ qty > 0 /\ qty <= Remaining(taker) /\ qty <= Remaining(m)
  BY <1>2, <1>4, <1>5 DEF Least, Remaining
<1> HIDE DEF qty
<1>7. /\ filled'[m] = filled[m] + qty /\ filled'[taker] = filled[taker] + qty
      /\ \A o \in OrderId \ {m, taker} : filled'[o] = filled[o]
  BY <1>2, <1>3, <1>5, <1>6
<1>8. TotalsAt'
  <2>1. \A n \in Resting \ {m} : Remaining(n)' = Remaining(n)
    BY <1>2, <1>3, <1>7 DEF Remaining, Resting
  <2>2. Remaining(m)' = Remaining(m) - qty
    BY <1>2, <1>4, <1>5, <1>6, <1>7 DEF Remaining
  <2>3. CASE Remaining(m) = qty
    <3>1. /\ cancel_map' = [cancel_map EXCEPT ![m] = None]
          /\ total' = [total EXCEPT ![req[m].side][req[m].price] = @ - Remaining(m)]
      BY <1>2, <2>3
    <3> QED BY <1>2, <2>1, <3>1, TotalsAfterRemoval DEF SumInv
  <2>4. CASE Remaining(m) # qty
    <3>1. UNCHANGED <<levels, cancel_map>>
      BY <1>2, <2>4
    <3>2. TotalsAt /\ qty \in Int /\ m \in Resting
      BY <1>2, <1>6 DEF SumInv
    <3>3. total' = [total EXCEPT ![req[m].side][req[m].price] = @ - qty]
      BY <1>2
    <3> QED BY <2>1, <2>2, <3>1, <3>2, <3>3, TotalsAfterPartialFill
  <2> QED BY <2>3, <2>4
<1>9. t \in Trade /\ t.maker = m /\ t.taker = taker /\ t.quantity = qty
  BY <1>3, <1>4, <1>6 DEF Trade
<1> HIDE DEF t
<1>10. FillsReconcile'
  <2> SUFFICES ASSUME NEW o \in OrderId, req[o] # None
               PROVE  /\ filled'[o] <= req[o].quantity
                      /\ filled'[o] = SumFunctionOnSet(TradeSizes', FillsOf(o)')
    BY <1>2 DEF FillsReconcile, FillsOf
  <2>1. /\ filled[o] <= req[o].quantity
        /\ filled[o] = SumFunctionOnSet(TradeSizes, FillsOf(o))
    BY DEF SumInv, FillsReconcile, FillsOf
  <2>2. SumFunctionOnSet(TradeSizes', FillsOf(o)') =
          SumFunctionOnSet(TradeSizes, FillsOf(o)) + (IF o \in {m, taker} THEN qty ELSE 0)
    BY <1>2, <1>5, <1>9, FillsAfterTrade DEF SumInv
  <2>3. filled[o] \in Nat
    BY <1>5
  <2>4. filled'[o] = filled[o] + (IF o \in {m, taker} THEN qty ELSE 0)
    BY <1>6, <1>7, <2>3
  <2>5. o \in {m, taker} => filled[o] + qty <= req[o].quantity
    BY <1>3, <1>4, <1>5, <1>6 DEF Remaining
  <2> QED BY <2>1, <2>2, <2>3, <2>4, <2>5
<1>11. TradesKnown'
  <2>1. /\ Len(trades) \in Nat /\ Len(trades') = Len(trades) + 1
        /\ \A i \in 1..Len(trades) : trades'[i] = trades[i]
        /\ trades'[Len(trades) + 1] = t
    BY <1>2, <1>5, <1>9, AppendProperties, LenProperties
  <2> SUFFICES ASSUME NEW i \in 1..Len(trades) + 1
               PROVE  /\ trades'[i] \in Trade
                      /\ req[trades'[i].maker] # None /\ req[trades'[i].taker] # None
    BY <1>2, <2>1 DEF TradesKnown
  <2>2. CASE i = Len(trades) + 1
    BY <1>3, <1>4, <1>9, <2>1, <2>2
  <2>3. CASE i \in 1..Len(trades)
    BY <2>1, <2>3 DEF SumInv, TradesKnown
  <2>4. i = Len(trades) + 1 \/ i \in 1..Len(trades)
    BY <2>1
  <2> QED BY <2>2, <2>3, <2>4
<1> QED BY <1>8, <1>10, <1>11 DEF SumInv

\* A step that trades nothing and touches what one order was filled only when the
\* order is new keeps the fills reconciled.
LEMMA FillsUntouched ==
    ASSUME SumInv, UNCHANGED <<req, filled, trades>>
    PROVE  FillsReconcile' /\ TradesKnown'
BY DEF SumInv, FillsReconcile, TradesKnown, TradeSizes

\* The entry of submit: no trade names a new order.
LEMMA SubmitSumInv ==
    ASSUME IInv, IInv', SumInv, NEW o \in OrderId, SubmitNew(o)
    PROVE  SumInv'
<1>1. PICK r \in ValidRequest : Submit(o, r)
  BY DEF SubmitNew
<1>2. /\ req[o] = None /\ req' = [req EXCEPT ![o] = r] /\ filled' = [filled EXCEPT ![o] = 0]
      /\ UNCHANGED <<levels, queue, total, cancel_map, trades>>
  BY <1>1 DEF SubmitNew, Submit
<1>3. /\ filled \in [OrderId -> Nat] /\ req \in [OrderId -> Request \union {None}]
      /\ trades \in Seq(Trade)
  BY DEF IInv, TypeOK
<1>4. r # None /\ r.quantity \in Nat
  BY RequestsAssumption, NoneAssumption, QuantityAssumption DEF ValidRequest, Request
<1>5. \A n \in OrderId \ {o} : req'[n] = req[n] /\ filled'[n] = filled[n]
  BY <1>2, <1>3
<1>6. TotalsAt'
  <2>1. \A n \in Resting : n \in OrderId \ {o}
    BY <1>2 DEF Resting, IInv, RestingIsLive
  <2>2. \A n \in Resting : Remaining(n)' = Remaining(n)
    BY <1>5, <2>1 DEF Remaining
  <2> QED BY <1>2, <2>2, TotalsUntouched DEF SumInv
<1>7. TradesKnown'
  <2>1. \A i \in 1..Len(trades) : trades[i].maker \in OrderId /\ trades[i].taker \in OrderId
    BY DEF SumInv, TradesKnown, Trade
  <2> QED BY <1>2, <1>3, <1>4, <2>1 DEF SumInv, TradesKnown
<1>8. FillsReconcile'
  <2> SUFFICES ASSUME NEW n \in OrderId, req'[n] # None
               PROVE  /\ filled'[n] <= req'[n].quantity
                      /\ filled'[n] = SumFunctionOnSet(TradeSizes, FillsOf(n))
    BY <1>2 DEF FillsReconcile, FillsOf, TradeSizes
  <2>1. CASE n = o
    <3>1. FillsOf(o) = {}
      BY <1>2 DEF SumInv, TradesKnown, FillsOf
    <3>2. filled'[o] = 0 /\ req'[o] = r
      BY <1>2, <1>3
    <3> QED BY <1>4, <2>1, <3>1, <3>2, SumEmpty
  <2>2. CASE n # o
    BY <1>5, <2>2 DEF SumInv, FillsReconcile, FillsOf
  <2> QED BY <2>1, <2>2
<1> QED BY <1>6, <1>7, <1>8 DEF SumInv

\* Every step of the book keeps its running sums exact.
LEMMA NextSumInv == IInv /\ IInv' /\ SumInv /\ [Next]_vars => SumInv'
<1> SUFFICES ASSUME IInv, IInv', SumInv, [Next]_vars PROVE SumInv'
  OBVIOUS
<1>1. ASSUME NEW o \in OrderId, CancelResting(o) PROVE SumInv'
  <2>1. /\ o \in Resting /\ UNCHANGED <<req, filled, trades>>
        /\ cancel_map' = [cancel_map EXCEPT ![o] = None]
        /\ total' = [total EXCEPT ![req[o].side][req[o].price] = @ - Remaining(o)]
        /\ \A s \in Side : levels'[s] \subseteq levels[s]
    BY <1>1, CancelEffect
  <2>2. \A n \in Resting \ {o} : Remaining(n)' = Remaining(n)
    BY <2>1 DEF Remaining
  <2> QED BY <2>1, <2>2, TotalsAfterRemoval, FillsUntouched DEF SumInv
<1>2. CASE FinishRest
  BY <1>2, TotalsAfterRest, FillsUntouched DEF FinishRest, SumInv
<1>3. CASE FinishFilled \/ FinishMarket \/ FinishKill \/ UNCHANGED vars
  <2>1. UNCHANGED <<req, filled, trades>> /\ UNCHANGED <<levels, total, cancel_map>>
    BY <1>3 DEF FinishFilled, FinishMarket, FinishKill, Return, vars
  <2>2. \A n \in Resting : Remaining(n)' = Remaining(n)
    BY <2>1 DEF Remaining
  <2> QED BY <2>1, <2>2, TotalsUntouched, FillsUntouched DEF SumInv
<1> QED BY <1>1, <1>2, <1>3, SubmitSumInv, FillSumInv DEF Next, Finish, Cancel, CancelUnknown

\* An empty book has no totals and no trades.
LEMMA InitSumInv == Init => SumInv
BY EmptySeq DEF Init, SumInv, TotalsAt, FillsReconcile, TradesKnown

\* PriceLevel.total_quantity and Order.filled_quantity, which add, remove and the
\* matching loop adjust separately, are exact for any number of orders and trades.
THEOREM SumsAlwaysExact == Spec => []QuantitiesReconcile
<1>1. IInv /\ SumInv => QuantitiesReconcile
  BY TotalsAgree DEF SumInv, QuantitiesReconcile
<1> QED BY <1>1, InitSumInv, NextSumInv, BookInvariant, PTL DEF Spec, Safety

-----------------------------------------------------------------------------
(* The book implements the abstract market.                                *)

\* The end of submit is the end of an order in the abstract market.
LEMMA SettleStep ==
    ASSUME IInv, Finish
    PROVE  Market!Settle
<1>1. LoopDone /\ taker # None /\ taker' = None
  BY DEF Finish, FinishFilled, FinishMarket, FinishKill, FinishRest, Return, LoopDone
<1>2. UNCHANGED <<req, filled, stamp, sequence, trades>>
  BY DEF Finish, FinishFilled, FinishMarket, FinishKill, FinishRest, Return
<1>3. taker \in OrderId /\ Remaining(taker) \in Nat /\ req[taker] \in Request
      /\ req[taker].side \in Side
  BY <1>1, TakerFacts
<1>4. Remaining(taker) = 0 \/ Market!Counterparties = {}
  <2> SUFFICES ASSUME Remaining(taker) > 0, NEW n \in Resting,
                      Market!Opposed(n, taker), Market!Accepts(taker, req[n].price)
               PROVE  FALSE
    BY <1>3 DEF Market!Counterparties
  <2>1. req[n].side = Opposite(req[taker].side)
    BY <1>3, RestingPlace DEF Market!Opposed, Opposite, Side
  <2>2. ~Crosses(req[taker].side, req[taker].price, req[n].price)
    BY <2>1, <1>1, LoopDoneExhausts
  <2>3. CASE req[taker].price = None
    BY <2>2, <2>3 DEF Crosses
  <2>4. CASE req[taker].price # None
    <3>1. req[taker].price \in Int /\ req[n].price \in Int
      BY <2>4, <1>3, RestingPlace, PriceAssumption DEF Request
    <3> QED BY <3>1, <2>2, <2>4 DEF Crosses, Market!Accepts
  <2> QED BY <2>3, <2>4
<1>5. Resting' = IF Remaining(taker) > 0 /\ Market!Rests(taker)
                 THEN Resting \union {taker} ELSE Resting
  <2>1. CASE FinishRest
    <3>1. cancel_map' = [cancel_map EXCEPT ![taker] =
                            <<req[taker].side, req[taker].price>>]
      BY <2>1 DEF FinishRest, RestOrder
    <3>2. Remaining(taker) > 0 /\ Market!Rests(taker)
          /\ <<req[taker].side, req[taker].price>> # None
      BY <2>1, <1>1, TakerFacts, PlaceNotNone DEF FinishRest, Market!Rests
    <3> QED BY <3>1, <3>2, <1>3 DEF IInv, TypeOK, Resting
  <2>2. CASE FinishFilled \/ FinishMarket \/ FinishKill
    <3>1. cancel_map' = cancel_map
      BY <2>2 DEF FinishFilled, FinishMarket, FinishKill, Return
    <3>2. ~(Remaining(taker) > 0 /\ Market!Rests(taker))
      BY <2>2, <1>3 DEF FinishFilled, FinishMarket, FinishKill, Market!Rests
    <3> QED BY <3>1, <3>2 DEF Resting
  <2> QED BY <2>1, <2>2 DEF Finish
<1> QED BY <1>1, <1>2, <1>4, <1>5 DEF Market!Settle, Market!Wanted, Remaining

\* An iteration of the loop is an execution in the abstract market.
LEMMA ExecuteStep ==
    ASSUME IInv, Fill
    PROVE  \E m \in OrderId : Market!Execute(m)
<1>1. PICK m \in OrderId : FillOf(m)
  BY FillHasPriority
<1>2. taker # None /\ taker \in OrderId /\ req[taker] \in Request
      /\ req[taker].side \in Side
  BY <1>1, TakerFacts DEF FillOf
<1> DEFINE qty == Least(Remaining(taker), Remaining(m))
<1>3. /\ m \in Resting /\ Remaining(taker) > 0
      /\ Remaining(taker) \in Nat /\ Remaining(m) \in Nat
      /\ req[m].side = Opposite(req[taker].side)
      /\ Crosses(req[taker].side, req[taker].price, req[m].price)
      /\ \A n \in Resting \ {m} : req[n].side = req[m].side => Precedes(m, n)
      /\ filled' = [filled EXCEPT ![taker] = @ + qty, ![m] = @ + qty]
      /\ trades' = Append(trades, [maker |-> m, taker |-> taker,
                                   price |-> req[m].price, quantity |-> qty])
      /\ Resting' = IF Remaining(m) = qty THEN Resting \ {m} ELSE Resting
      /\ UNCHANGED <<req, sequence, taker, stamp>>
  BY <1>1 DEF FillOf
<1>4. /\ qty \in {Remaining(taker), Remaining(m)}
      /\ qty <= Remaining(taker) /\ qty <= Remaining(m)
  BY <1>3 DEF Least
<1> HIDE DEF qty
<1>5. m \in Market!Counterparties
  <2>1. Market!Opposed(m, taker)
    BY <1>2, <1>3 DEF Market!Opposed, Opposite, Side
  <2>2. Market!Accepts(taker, req[m].price)
    <3>1. CASE req[taker].price = None
      BY <3>1 DEF Market!Accepts
    <3>2. CASE req[taker].price # None
      <4>1. req[taker].price \in Int /\ req[m].price \in Int
        BY <3>2, <1>2, <1>3, RestingPlace, PriceAssumption DEF Request
      <4> QED BY <4>1, <3>2, <1>3 DEF Crosses, Market!Accepts
    <3> QED BY <3>1, <3>2
  <2> QED BY <2>1, <2>2, <1>3 DEF Market!Counterparties
<1>6. \A n \in Resting \ {m} : Market!Opposed(n, taker) => Market!Before(m, n)
  <2> SUFFICES ASSUME NEW n \in Resting \ {m}, Market!Opposed(n, taker)
               PROVE  Market!Before(m, n)
    OBVIOUS
  <2>1. req[n].side = req[m].side
    BY <1>2, <1>3, RestingPlace DEF Market!Opposed, Opposite, Side
  <2>2. Precedes(m, n)
    BY <2>1, <1>3
  <2> QED BY <2>2 DEF Precedes, Better, Market!Before
<1>7. Market!Execute(m)
  BY <1>2, <1>3, <1>4, <1>5, <1>6 DEF Market!Execute, Market!Wanted, Remaining
<1> QED BY <1>7

\* The safety part of the refinement: whatever the book does to its levels,
\* queues and cancel map, it behaves as a set of orders served in price-time
\* priority.
LEMMA SafetyImplementsMarket == Safety => Market!Safety
<1>1. Init => Market!Init
  BY DEF Init, Market!Init, Resting
<1>2. ASSUME IInv, [Next]_vars
      PROVE  [Market!Next]_(Market!vars)
  <2>1. ASSUME NEW o \in OrderId, SubmitNew(o) PROVE Market!Next
    <3>1. PICK r \in ValidRequest : Submit(o, r) /\ req[o] = None
      BY <2>1 DEF SubmitNew
    <3>2. Resting' = Resting
      BY <3>1 DEF Submit, Resting
    <3>3. r \in Requests /\ (r.order_type = "LIMIT" => r.price # None)
      BY DEF ValidRequest
    <3>4. Market!Arrive(o, r)
      BY <3>1, <3>2, <3>3 DEF Submit, Market!Arrive
    <3> QED BY <3>3, <3>4 DEF Market!Next
  <2>2. ASSUME NEW o \in OrderId, CancelResting(o) PROVE Market!Next
    <3>1. o \in Resting /\ Resting' = Resting \ {o}
      BY <1>2, <2>2 DEF CancelResting, Forget, IInv, TypeOK, Resting
    <3>2. Market!Withdraw(o)
      BY <2>2, <3>1 DEF CancelResting, Market!Withdraw
    <3> QED BY <3>2 DEF Market!Next
  <2>3. CASE Fill
    BY <1>2, <2>3, ExecuteStep DEF Market!Next
  <2>4. CASE Finish
    BY <1>2, <2>4, SettleStep DEF Market!Next
  <2>5. CASE UNCHANGED vars
    BY <2>5 DEF vars, Market!vars, Resting
  <2> QED BY <1>2, <2>1, <2>2, <2>3, <2>4, <2>5 DEF Next, Cancel, CancelUnknown
<1> QED BY <1>1, <1>2, SafetyInvariant, PTL DEF Safety, Market!Safety

\* What submit and cancel do to _bids, _asks and _cancel_map implements the
\* abstract market in price-time priority.
THEOREM BookImplementsMarket == Spec => Market!Safety
BY SafetyImplementsMarket, PTL DEF Spec

-----------------------------------------------------------------------------
(* MatchingEngine: the inductive invariant.                                *)

\* _order_map remembers exactly the orders whose submit has been through the
\* book; the one being matched is not in it yet.
OrderMapExact ==
    /\ order_map \subseteq OrderId
    /\ \A o \in OrderId : req[o] # None <=> (o \in order_map \/ o = taker)
    /\ taker # None => taker \notin order_map

EngineInv ==
    /\ IInv
    /\ SumInv
    /\ StatusSound
    /\ OrderMapExact
    /\ FeedIsCurrent

-----------------------------------------------------------------------------
(* The engine and its book.                                                *)

\* An order that passes _validate is new to the book and one it may see.
LEMMA AcceptIsSubmitNew ==
    ASSUME EngineInv, NEW o \in OrderId, NEW symbol \in Symbols,
           NEW r \in Submissions, AcceptOrder(o, symbol, r)
    PROVE  /\ SubmitNew(o) /\ taker = None /\ taker' = o
           /\ req'[o] # None /\ \A n \in OrderId \ {o} : req'[n] = req[n]
           /\ o \notin order_map
<1>1. /\ Validate(o, symbol, r) = None /\ Submit(o, r) /\ taker = None
  BY DEF AcceptOrder, Submit
<1>2. o \notin order_map /\ ~(r.quantity <= 0) /\ ~BadPrice(r)
  BY <1>1, ReasonAssumption DEF Validate, RejectReason
<1>3. req[o] = None
  BY <1>1, <1>2, NoneAssumption DEF EngineInv, OrderMapExact
<1>4. r \in ValidRequest
  <2>1. r.quantity \in Int /\ r.price \in Int \union {None}
    BY SubmissionsAssumption
  <2>2. r.quantity > 0
    BY <1>2, <2>1
  <2>3. r.order_type = "LIMIT" => (r.price # None /\ IF r.price = None THEN FALSE ELSE r.price > 0)
    BY <1>2, <2>1 DEF BadPrice
  <2>4. r \in Requests
    BY <2>2, <2>3, SubmissionsAssumption
  <2> QED BY <2>3, <2>4 DEF ValidRequest
<1>5. SubmitNew(o)
  BY <1>1, <1>3, <1>4 DEF SubmitNew
<1>6. r # None
  BY <1>4, RequestsAssumption, NoneAssumption DEF ValidRequest
<1> QED BY <1>1, <1>2, <1>5, <1>6 DEF Submit, EngineInv, IInv, TypeOK

\* Every step of the engine is a step of the book or none for it.
LEMMA EngineStepIsBookStep ==
    ASSUME EngineInv, [EngineNext]_engineVars
    PROVE  [Next]_vars
<1>1. ASSUME NEW o \in OrderId, NEW symbol \in Symbols, NEW r \in Submissions,
             RejectOrder(o, symbol, r) \/ AcceptOrder(o, symbol, r)
      PROVE  [Next]_vars
  <2>1. CASE RejectOrder(o, symbol, r)
    BY <2>1 DEF RejectOrder
  <2>2. CASE AcceptOrder(o, symbol, r)
    BY <2>2, AcceptIsSubmitNew DEF Next
  <2> QED BY <1>1, <2>1, <2>2
<1>2. ASSUME NEW o \in OrderId, CancelOrder(o) PROVE [Next]_vars
  BY <1>2 DEF CancelOrder, Next, Cancel, engineVars
<1> QED BY <1>1, <1>2 DEF EngineNext, RegisterSymbol, MatchOrder, AckOrder, Next, engineVars

-----------------------------------------------------------------------------
(* The engine's own records.                                               *)

\* No step of the engine forgets an order or remembers one twice.
LEMMA OrderMapStep ==
    ASSUME EngineInv, [EngineNext]_engineVars
    PROVE  OrderMapExact'
<1> USE DEF OrderMapExact
<1>1. ASSUME UNCHANGED <<req, taker, order_map>> PROVE OrderMapExact'
  BY <1>1 DEF EngineInv
<1>2. ASSUME NEW o \in OrderId, NEW symbol \in Symbols, NEW r \in Submissions,
             AcceptOrder(o, symbol, r)
      PROVE  OrderMapExact'
  <2>1. order_map' = order_map
    BY <1>2 DEF AcceptOrder
  <2> QED BY <1>2, <2>1, AcceptIsSubmitNew, NoneAssumption DEF EngineInv
<1>3. CASE AckOrder
  <2>1. /\ taker \in OrderId /\ taker # None /\ taker' = None /\ req' = req
        /\ order_map' = order_map \union {taker}
    BY <1>3, FinishEffect DEF AckOrder, EngineInv
  <2> QED BY <2>1, NoneAssumption DEF EngineInv
<1>4. CASE MatchOrder
  BY <1>1, <1>4 DEF MatchOrder, Fill, FillAt
<1>5. ASSUME NEW o \in OrderId, CancelOrder(o) PROVE OrderMapExact'
  BY <1>1, <1>5 DEF CancelOrder, CancelResting, CancelUnknown, engineVars, vars
<1>6. ASSUME NEW o \in OrderId, NEW symbol \in Symbols, NEW r \in Submissions,
             RejectOrder(o, symbol, r)
      PROVE  OrderMapExact'
  BY <1>1, <1>6 DEF RejectOrder, vars
<1>7. CASE RegisterSymbol \/ UNCHANGED engineVars
  BY <1>1, <1>7 DEF RegisterSymbol, engineVars, vars
<1> QED BY <1>2, <1>3, <1>4, <1>5, <1>6, <1>7 DEF EngineNext

\* An event is emitted after every change of the book, and by nothing else.
LEMMA FeedStep ==
    ASSUME EngineInv, [EngineNext]_engineVars
    PROVE  FeedIsCurrent'
<1>1. ASSUME UNCHANGED <<vars, feed>> PROVE FeedIsCurrent'
  <2>1. Snapshot' = Snapshot
    BY <1>1 DEF Snapshot, TopLevels, Better, vars
  <2> QED BY <1>1, <2>1 DEF FeedIsCurrent, EngineInv, vars
<1>2. ASSUME Publish PROVE FeedIsCurrent'
  BY <1>2 DEF Publish, FeedIsCurrent
<1>3. ASSUME taker' # None PROVE FeedIsCurrent'
  BY <1>3 DEF FeedIsCurrent
<1>4. ASSUME NEW o \in OrderId, NEW symbol \in Symbols, NEW r \in Submissions,
             AcceptOrder(o, symbol, r)
      PROVE  FeedIsCurrent'
  BY <1>3, <1>4, NoneAssumption DEF AcceptOrder, Submit
<1>5. ASSUME NEW o \in OrderId, NEW symbol \in Symbols, NEW r \in Submissions,
             RejectOrder(o, symbol, r)
      PROVE  FeedIsCurrent'
  BY <1>1, <1>5 DEF RejectOrder
<1>6. CASE MatchOrder
  BY <1>3, <1>6 DEF MatchOrder, Fill, FillAt
<1>7. CASE AckOrder
  BY <1>2, <1>7 DEF AckOrder
<1>8. ASSUME NEW o \in OrderId, CancelOrder(o) PROVE FeedIsCurrent'
  BY <1>1, <1>2, <1>8 DEF CancelOrder, CancelUnknown, engineVars
<1>9. CASE RegisterSymbol \/ UNCHANGED engineVars
  BY <1>1, <1>9 DEF RegisterSymbol, engineVars
<1> QED BY <1>4, <1>5, <1>6, <1>7, <1>8, <1>9 DEF EngineNext

-----------------------------------------------------------------------------
(* The theorems.                                                           *)

\* The invariant of the book and of the engine's records holds in every state.
LEMMA EngineInvariance == EngineSpec => []EngineInv
<1>1. EngineInit => EngineInv
  <2> SUFFICES ASSUME EngineInit PROVE EngineInv
    OBVIOUS
  <2>1. Init /\ order_map = {} /\ feed = None
    BY DEF EngineInit
  <2>2. IInv
    BY <2>1, InitIInv
  <2>3. StatusSound /\ OrderMapExact /\ FeedIsCurrent
    BY <2>1, NoneAssumption DEF Init, StatusSound, OrderMapExact, FeedIsCurrent
  <2>4. SumInv
    BY <2>1, InitSumInv
  <2> QED BY <2>2, <2>3, <2>4 DEF EngineInv
<1>2. EngineInv /\ [EngineNext]_engineVars => EngineInv'
  <2> SUFFICES ASSUME EngineInv, [EngineNext]_engineVars PROVE EngineInv'
    OBVIOUS
  <2>1. [Next]_vars
    BY EngineStepIsBookStep
  <2>2. IInv' /\ StatusSound'
    BY <2>1, NextIInv, StatusStep DEF EngineInv
  <2>3. SumInv'
    BY <2>1, <2>2, NextSumInv DEF EngineInv
  <2> QED BY <2>2, <2>3, OrderMapStep, FeedStep DEF EngineInv
<1> QED BY <1>1, <1>2, PTL DEF EngineSpec

\* Behind _validate the book is used as it expects to be: every id once, and
\* with a well-formed request.  (That every submit ends is left to TLC.)
THEOREM EngineProtectsBook == EngineSpec => Safety
<1>1. EngineInit => Init
  BY DEF EngineInit
<1>2. EngineInv /\ [EngineNext]_engineVars => [Next]_vars
  BY EngineStepIsBookStep
<1> QED BY <1>1, <1>2, EngineInvariance, PTL DEF EngineSpec, Safety

\* So the engine as a whole, validation, duplicates and cancels included, is a
\* market that serves its orders in price-time priority.
THEOREM EngineImplementsMarket == EngineSpec => Market!Safety
BY EngineProtectsBook, SafetyImplementsMarket, PTL

\* Between calls the orders _order_map reports as active limit orders are the
\* ones in the book, so that cancel_order finds every order that is live.
THEOREM ActiveAlwaysResting == EngineSpec => []ActiveIsResting
<1>1. EngineInv => ActiveIsResting
  <2> SUFFICES ASSUME EngineInv, taker = None,
                      NEW o \in OrderId
               PROVE  o \in Resting <=> /\ o \in order_map
                                        /\ status[o] \in {"OPEN", "PARTIALLY_FILLED"}
                                        /\ req[o].order_type = "LIMIT"
    BY DEF ActiveIsResting, EngineInv, OrderMapExact, Resting
  <2>1. o \in Resting => req[o] # None /\ req[o].order_type = "LIMIT"
    BY DEF EngineInv, IInv, RestingIsLive
  <2>2. req[o] # None <=> o \in order_map
    BY NoneAssumption DEF EngineInv, OrderMapExact
  <2> QED BY <2>1, <2>2, NoneAssumption DEF EngineInv, StatusSound
<1> QED BY <1>1, EngineInvariance, PTL

\* The snapshot of the last event shows the book between calls, at any depth.
THEOREM FeedAlwaysCurrent == EngineSpec => []FeedIsCurrent
<1>1. EngineInv => FeedIsCurrent
  BY DEF EngineInv
<1> QED BY <1>1, EngineInvariance, PTL

-----------------------------------------------------------------------------
(* The counters.  Between calls they must add up; inside a call they lag   *)
(* behind by what the order in flight has done so far, and that lag is the *)
(* inductive invariant.                                                    *)

\* The trades of the call in progress, which the counters have not seen yet.
InFlight == IF taker = None THEN {} ELSE TradesOf(taker)

\* The orders that have taken liquidity.
Takers == {trades[i].taker : i \in 1..Len(trades)}

StatsTyped ==
    stats \in [orders_received: Nat, orders_matched: Nat, orders_resting: Nat,
               orders_cancelled: Nat, orders_rejected: Nat, trades_executed: Nat,
               total_volume: Int]

OrdersCounted ==
    /\ IsFiniteSet(order_map)
    /\ stats.orders_received = stats.orders_rejected + Cardinality(order_map)
                                 + (IF taker = None THEN 0 ELSE 1)

TradesCounted ==
    /\ stats.trades_executed + Cardinality(InFlight) = Len(trades)
    /\ stats.total_volume + SumFunctionOnSet(TradeSizes, InFlight)
          = SumFunctionOnSet(TradeSizes, 1..Len(trades))

TakersCounted == stats.orders_matched = Cardinality(Takers \ {taker})

RestingCounted == stats.orders_resting >= Cardinality(Resting)

StatsInv ==
    /\ StatsTyped
    /\ OrdersCounted
    /\ TradesCounted
    /\ TakersCounted
    /\ RestingCounted

\* What the steps of the engine do to what is counted.
QuietStep ==
    /\ UNCHANGED <<taker, trades, order_map>>
    /\ Resting' = Resting
    /\ \/ stats' = stats
       \/ stats' = [stats EXCEPT !.orders_received = @ + 1, !.orders_rejected = @ + 1]

AcceptStep(o) ==
    /\ taker = None /\ taker' = o /\ o \notin order_map
    /\ UNCHANGED <<trades, order_map>>
    /\ Resting' = Resting
    /\ stats' = [stats EXCEPT !.orders_received = @ + 1]

MatchStep(t) ==
    /\ taker # None /\ taker' = taker /\ t.taker = taker
    /\ trades' = Append(trades, t)
    /\ UNCHANGED <<order_map, stats>>
    /\ Resting' \subseteq Resting

AckStep ==
    /\ taker \in OrderId /\ taker # None /\ taker' = None
    /\ taker \notin order_map /\ taker \notin Resting
    /\ trades' = trades
    /\ order_map' = order_map \union {taker}
    /\ Resting' = IF NewResting(taker) THEN Resting \union {taker} ELSE Resting
    /\ stats' = [stats EXCEPT
         !.orders_resting  = @ + (IF NewResting(taker) THEN 1 ELSE 0),
         !.orders_matched  = @ + (IF TradesOf(taker) # {} THEN 1 ELSE 0),
         !.trades_executed = @ + Cardinality(TradesOf(taker)),
         !.total_volume    = @ + SumFunctionOnSet(TradeSizes, TradesOf(taker))]

CancelStep(o) ==
    /\ o \in Resting
    /\ UNCHANGED <<taker, trades, order_map>>
    /\ Resting' = Resting \ {o}
    /\ stats' = [stats EXCEPT !.orders_cancelled = @ + 1, !.orders_resting = Uncounted(@)]

\* Every step of the engine is one of these.
LEMMA CountedSteps ==
    ASSUME EngineInv, [EngineNext]_engineVars
    PROVE  \/ QuietStep \/ AckStep
           \/ \E o \in OrderId : AcceptStep(o) \/ CancelStep(o)
           \/ \E t \in Trade : MatchStep(t)
<1>1. ASSUME NEW o \in OrderId, NEW symbol \in Symbols, NEW r \in Submissions,
             RejectOrder(o, symbol, r)
      PROVE  QuietStep
  BY <1>1 DEF RejectOrder, QuietStep, Resting, vars
<1>2. ASSUME NEW o \in OrderId, NEW symbol \in Symbols, NEW r \in Submissions,
             AcceptOrder(o, symbol, r)
      PROVE  AcceptStep(o)
  BY <1>2, AcceptIsSubmitNew DEF AcceptOrder, Submit, AcceptStep, Resting
<1>3. ASSUME MatchOrder PROVE \E t \in Trade : MatchStep(t)
  <2>1. Fill /\ UNCHANGED <<order_map, stats>> /\ IInv
    BY <1>3 DEF MatchOrder, EngineInv
  <2>2. PICK m \in OrderId : FillOf(m)
    BY <2>1, FillHasPriority
  <2> DEFINE qty == Least(Remaining(taker), Remaining(m))
             t == [maker |-> m, taker |-> taker, price |-> req[m].price, quantity |-> qty]
  <2>3. /\ m \in Resting /\ taker # None /\ Remaining(taker) > 0
        /\ Remaining(taker) \in Nat /\ Remaining(m) \in Nat
        /\ trades' = Append(trades, t) /\ taker' = taker
        /\ Resting' \subseteq Resting
    BY <2>2 DEF FillOf
  <2>4. req[m].price \in Price /\ Remaining(m) # 0
    <3>1. RestsAt(m, req[m].side, req[m].price) /\ req[m].price \in Price
      BY <2>1, <2>3, RestingPlace, Queued
    <3> QED BY <3>1 DEF RestsAt, Remaining
  <2>5. t \in Trade
    BY <2>1, <2>3, <2>4, TakerFacts DEF Trade, Least
  <2>6. t.taker = taker
    OBVIOUS
  <2> QED BY <2>1, <2>3, <2>5, <2>6 DEF MatchStep
<1>4. ASSUME AckOrder PROVE AckStep
  <2>1. /\ taker \in OrderId /\ taker # None /\ taker' = None /\ taker \notin Resting
        /\ trades' = trades /\ Resting' = IF FinishRest THEN Resting \union {taker} ELSE Resting
    BY <1>4, FinishEffect DEF AckOrder, EngineInv
  <2>2. NewResting(taker) <=> taker \in Resting'
    BY <2>1 DEF NewResting, Resting
  <2>3. Resting' = IF NewResting(taker) THEN Resting \union {taker} ELSE Resting
    BY <2>1, <2>2
  <2>4. taker \notin order_map
    BY <2>1 DEF EngineInv, OrderMapExact
  <2> QED BY <1>4, <2>1, <2>3, <2>4 DEF AckOrder, AckStep
<1>5. ASSUME NEW o \in OrderId, CancelOrder(o) PROVE QuietStep \/ CancelStep(o)
  <2>1. CASE CancelResting(o) /\ stats' = [stats EXCEPT !.orders_cancelled = @ + 1,
                                                        !.orders_resting = Uncounted(@)]
                              /\ UNCHANGED order_map
    BY <2>1, CancelEffect DEF CancelStep, EngineInv
  <2>2. CASE UNCHANGED vars /\ UNCHANGED <<order_map, stats>>
    BY <2>2 DEF QuietStep, vars, Resting
  <2> QED BY <1>5, <2>1, <2>2 DEF CancelOrder, CancelUnknown, engineVars
<1>6. ASSUME RegisterSymbol \/ UNCHANGED engineVars PROVE QuietStep
  BY <1>6 DEF RegisterSymbol, engineVars, vars, QuietStep, Resting
<1> QED BY <1>1, <1>2, <1>3, <1>4, <1>5, <1>6 DEF EngineNext

\* The sets that are counted are finite, and the trades of an order in flight
\* are among all trades.
LEMMA CountedSets ==
    ASSUME EngineInv, OrdersCounted
    PROVE  /\ IsFiniteSet(order_map) /\ IsFiniteSet(Resting) /\ IsFiniteSet(Takers)
           /\ Resting \subseteq order_map
           /\ Takers \subseteq OrderId
           /\ Takers \subseteq order_map \union {taker}
           /\ Len(trades) \in Nat /\ trades \in Seq(Trade)
           /\ InFlight \subseteq 1..Len(trades) /\ IsFiniteSet(InFlight)
           /\ IsFiniteSet(1..Len(trades)) /\ Cardinality(1..Len(trades)) = Len(trades)
           /\ \A i \in 1..Len(trades) : TradeSizes[i] \in Int
<1>1. trades \in Seq(Trade) /\ Len(trades) \in Nat
  BY LenProperties DEF EngineInv, IInv, TypeOK
<1>2. \A i \in 1..Len(trades) :
         /\ trades[i].taker \in OrderId /\ trades[i].quantity \in Int
         /\ req[trades[i].taker] # None
  BY DEF EngineInv, SumInv, TradesKnown, Trade
<1>3. Takers \subseteq OrderId /\ Takers \subseteq order_map \union {taker}
  BY <1>2 DEF Takers, EngineInv, OrderMapExact
<1>4. Resting \subseteq order_map
  <2> SUFFICES ASSUME NEW o \in Resting PROVE o \in order_map
    OBVIOUS
  <2>1. o \in OrderId /\ req[o] # None
    BY DEF EngineInv, IInv, RestingIsLive, Resting
  <2>2. o # taker
    BY NoneAssumption, TakerFacts DEF EngineInv, Resting
  <2> QED BY <2>1, <2>2 DEF EngineInv, OrderMapExact
<1>5. IsFiniteSet(order_map) /\ IsFiniteSet(Resting)
  BY <1>4, FS_Subset DEF OrdersCounted
<1>6. IsFiniteSet(Takers)
  <2>1. IsFiniteSet(order_map \union {taker})
    BY <1>5, FS_AddElement
  <2> QED BY <1>3, <2>1, FS_Subset
<1>7. IsFiniteSet(1..Len(trades)) /\ Cardinality(1..Len(trades)) = Len(trades)
  BY <1>1, FS_Interval
<1>8. InFlight \subseteq 1..Len(trades)
  BY DEF InFlight, TradesOf
<1>9. IsFiniteSet(InFlight)
  BY <1>7, <1>8, FS_Subset
<1> QED BY <1>1, <1>2, <1>3, <1>4, <1>5, <1>6, <1>7, <1>8, <1>9 DEF TradeSizes

\* One more trade of the order in flight.
LEMMA InFlightAfterTrade ==
    ASSUME EngineInv, OrdersCounted, NEW t \in Trade, MatchStep(t)
    PROVE  /\ Len(trades') = Len(trades) + 1
           /\ Cardinality(InFlight') = Cardinality(InFlight) + 1
           /\ SumFunctionOnSet(TradeSizes', InFlight')
                 = t.quantity + SumFunctionOnSet(TradeSizes, InFlight)
           /\ SumFunctionOnSet(TradeSizes', 1..Len(trades'))
                 = t.quantity + SumFunctionOnSet(TradeSizes, 1..Len(trades))
           /\ Takers' = Takers \union {taker}
<1> DEFINE n == Len(trades)
<1>1. /\ n \in Nat /\ Len(trades') = n + 1 /\ trades'[n + 1] = t
      /\ \A i \in 1..n : trades'[i] = trades[i]
  BY CountedSets, AppendProperties DEF MatchStep
<1>2. /\ IsFiniteSet(InFlight) /\ InFlight \subseteq 1..n /\ IsFiniteSet(1..n)
      /\ \A i \in 1..n : TradeSizes[i] \in Int
  BY CountedSets
<1>3. /\ \A i \in 1..n : TradeSizes'[i] = TradeSizes[i]
      /\ TradeSizes'[n + 1] = t.quantity /\ t.quantity \in Int
  BY <1>1 DEF TradeSizes, Trade
<1>4. /\ 1..(n + 1) = (1..n) \union {n + 1} /\ n + 1 \notin 1..n /\ n + 1 \notin InFlight
  BY <1>1, <1>2
<1>5. InFlight' = InFlight \union {n + 1}
  <2>1. InFlight' = {i \in 1..(n + 1) : trades'[i].taker = taker}
    BY <1>1 DEF InFlight, TradesOf, MatchStep
  <2>2. InFlight = {i \in 1..n : trades[i].taker = taker}
    BY DEF InFlight, TradesOf, MatchStep
  <2> HIDE DEF n
  <2> QED BY <1>1, <1>4, <2>1, <2>2 DEF MatchStep
<1>6. Takers' = Takers \union {taker}
  <2>1. Takers' = {trades'[i].taker : i \in 1..(n + 1)}
    BY <1>1 DEF Takers
  <2>2. Takers = {trades[i].taker : i \in 1..n}
    BY DEF Takers
  <2> HIDE DEF n
  <2> QED BY <1>1, <1>4, <2>1, <2>2 DEF MatchStep
<1> HIDE DEF n
<1>7. Cardinality(InFlight') = Cardinality(InFlight) + 1
  BY <1>2, <1>4, <1>5, FS_AddElement
<1>8. ASSUME NEW S \in SUBSET (1..n), IsFiniteSet(S)
      PROVE  SumFunctionOnSet(TradeSizes', S \union {n + 1})
                = t.quantity + SumFunctionOnSet(TradeSizes, S)
  <2>1. n + 1 \notin S /\ \A i \in S : TradeSizes[i] \in Int /\ TradeSizes'[i] = TradeSizes[i]
    BY <1>2, <1>3, <1>4
  <2>2. \A i \in S \union {n + 1} : TradeSizes'[i] \in Int
    BY <1>3, <2>1
  <2>3. SumFunctionOnSet(TradeSizes', S \union {n + 1})
           = TradeSizes'[n + 1] + SumFunctionOnSet(TradeSizes', S)
    BY <1>8, <2>1, <2>2, SumAdd
  <2>4. SumFunctionOnSet(TradeSizes', S) = SumFunctionOnSet(TradeSizes, S)
    BY <1>8, <2>1, SumCongruence
  <2> QED BY <1>3, <2>3, <2>4
<1>9. SumFunctionOnSet(TradeSizes', InFlight') = t.quantity + SumFunctionOnSet(TradeSizes, InFlight)
  BY <1>2, <1>5, <1>8
<1>10. SumFunctionOnSet(TradeSizes', 1..(n + 1)) = t.quantity + SumFunctionOnSet(TradeSizes, 1..n)
  BY <1>2, <1>4, <1>8
<1> QED BY <1>1, <1>6, <1>7, <1>9, <1>10 DEF n

\* Between calls nothing is in flight.
LEMMA NothingInFlight ==
    taker = None => InFlight = {}
BY DEF InFlight

\* A step that counts nothing keeps the counters, a rejected order counts twice.
LEMMA QuietStats ==
    ASSUME EngineInv, StatsInv, QuietStep
    PROVE  StatsInv'
<1>1. stats' = stats \/ stats' = [stats EXCEPT !.orders_received = @ + 1, !.orders_rejected = @ + 1]
  BY DEF QuietStep
<1>2. UNCHANGED <<taker, trades, order_map>> /\ Resting' = Resting
  BY DEF QuietStep
<1>3. InFlight' = InFlight /\ Takers' = Takers /\ TradeSizes' = TradeSizes
  BY <1>2 DEF InFlight, TradesOf, Takers, TradeSizes
<1>4. Cardinality(order_map) \in Nat
  BY CountedSets, FS_CardinalityType DEF StatsInv
<1>5. StatsTyped' /\ OrdersCounted'
  <2>1. StatsTyped /\ OrdersCounted
    BY DEF StatsInv
  <2>2. CASE stats' = stats
    BY <1>2, <2>1, <2>2 DEF StatsTyped, OrdersCounted
  <2>3. CASE stats' = [stats EXCEPT !.orders_received = @ + 1, !.orders_rejected = @ + 1]
    <3>1. StatsTyped'
      <4>1. stats.orders_received + 1 \in Nat /\ stats.orders_rejected + 1 \in Nat
        BY <2>1 DEF StatsTyped
      <4> QED BY <2>1, <2>3, <4>1 DEF StatsTyped
    <3>2. /\ stats'.orders_received = stats.orders_received + 1
          /\ stats'.orders_rejected = stats.orders_rejected + 1
          /\ stats.orders_received \in Nat /\ stats.orders_rejected \in Nat
      BY <2>1, <2>3 DEF StatsTyped
    <3> QED BY <1>2, <1>4, <2>1, <3>1, <3>2 DEF OrdersCounted
  <2> QED BY <1>1, <2>2, <2>3
<1>6. /\ stats'.trades_executed = stats.trades_executed
      /\ stats'.total_volume = stats.total_volume
      /\ stats'.orders_matched = stats.orders_matched
      /\ stats'.orders_resting = stats.orders_resting
  BY <1>1 DEF StatsInv, StatsTyped
<1> QED BY <1>2, <1>3, <1>5, <1>6 DEF StatsInv, TradesCounted, TakersCounted, RestingCounted

\* An order enters the book: it has not traded yet.
LEMMA AcceptStats ==
    ASSUME EngineInv, StatsInv, NEW o \in OrderId, AcceptStep(o)
    PROVE  StatsInv'
<1>1. /\ taker = None /\ taker' = o /\ o # None /\ o \notin order_map
      /\ trades' = trades /\ order_map' = order_map /\ Resting' = Resting
      /\ stats' = [stats EXCEPT !.orders_received = @ + 1]
  BY NoneAssumption DEF AcceptStep
<1>2. Takers \subseteq OrderId /\ Takers \subseteq order_map \union {None}
  BY <1>1, CountedSets DEF StatsInv
<1>3. o \notin Takers /\ None \notin Takers
  BY <1>1, <1>2, NoneAssumption
<1>4. InFlight' = {} /\ InFlight = {} /\ Takers' = Takers /\ TradeSizes' = TradeSizes
  BY <1>1, <1>3 DEF InFlight, TradesOf, Takers, TradeSizes
<1>5. Cardinality(order_map) \in Nat
  BY CountedSets, FS_CardinalityType DEF StatsInv
<1>6. StatsTyped' /\ OrdersCounted'
  BY <1>1, <1>5 DEF StatsInv, StatsTyped, OrdersCounted
<1>7. /\ stats'.trades_executed = stats.trades_executed
      /\ stats'.total_volume = stats.total_volume
      /\ stats'.orders_matched = stats.orders_matched
      /\ stats'.orders_resting = stats.orders_resting
  BY <1>1 DEF StatsInv, StatsTyped
<1>8. TradesCounted' /\ RestingCounted'
  BY <1>1, <1>4, <1>7 DEF StatsInv, TradesCounted, RestingCounted
<1>9. Takers' \ {taker'} = Takers \ {taker}
  BY <1>1, <1>3, <1>4
<1>10. TakersCounted'
  BY <1>7, <1>9 DEF StatsInv, TakersCounted
<1> QED BY <1>6, <1>8, <1>10 DEF StatsInv

\* A trade of the order in flight widens the lag and nothing else.
LEMMA MatchStats ==
    ASSUME EngineInv, StatsInv, NEW t \in Trade, MatchStep(t)
    PROVE  StatsInv'
<1>1. /\ taker # None /\ taker' = taker /\ order_map' = order_map /\ stats' = stats
      /\ Resting' \subseteq Resting
  BY DEF MatchStep
<1>2. StatsTyped' /\ OrdersCounted'
  BY <1>1 DEF StatsInv, StatsTyped, OrdersCounted
<1>3. /\ Len(trades') = Len(trades) + 1
      /\ Cardinality(InFlight') = Cardinality(InFlight) + 1
      /\ SumFunctionOnSet(TradeSizes', InFlight')
            = t.quantity + SumFunctionOnSet(TradeSizes, InFlight)
      /\ SumFunctionOnSet(TradeSizes', 1..Len(trades'))
            = t.quantity + SumFunctionOnSet(TradeSizes, 1..Len(trades))
      /\ Takers' = Takers \union {taker}
  BY InFlightAfterTrade DEF StatsInv
<1>4. TradesCounted'
  <2>1. /\ Cardinality(InFlight) \in Nat /\ Len(trades) \in Nat /\ t.quantity \in Int
        /\ stats.trades_executed \in Nat /\ stats.total_volume \in Int
    BY CountedSets, FS_CardinalityType DEF StatsInv, StatsTyped, Trade
  <2>2. /\ SumFunctionOnSet(TradeSizes, InFlight) \in Int
    <3>1. IsFiniteSet(InFlight) /\ \A i \in InFlight : TradeSizes[i] \in Int
      BY CountedSets DEF StatsInv
    <3> QED BY <3>1, SumSplit
  <2>3. /\ stats.trades_executed + Cardinality(InFlight) = Len(trades)
        /\ stats.total_volume + SumFunctionOnSet(TradeSizes, InFlight)
              = SumFunctionOnSet(TradeSizes, 1..Len(trades))
    BY DEF StatsInv, TradesCounted
  <2>4. stats'.trades_executed + Cardinality(InFlight') = Len(trades')
    <3>1. /\ stats'.trades_executed = stats.trades_executed
          /\ Len(trades') = Len(trades) + 1 /\ Cardinality(InFlight') = Cardinality(InFlight) + 1
      BY <1>1, <1>3
    <3> QED BY <2>1, <2>3, <3>1
  <2>5. stats'.total_volume + SumFunctionOnSet(TradeSizes', InFlight')
           = SumFunctionOnSet(TradeSizes', 1..Len(trades'))
    BY <1>1, <1>3, <2>1, <2>2, <2>3
  <2> QED BY <2>4, <2>5 DEF TradesCounted
<1>5. TakersCounted'
  <2>1. Takers' \ {taker'} = Takers \ {taker}
    BY <1>1, <1>3
  <2> QED BY <1>1, <2>1 DEF StatsInv, TakersCounted
<1>6. RestingCounted'
  <2>1. IsFiniteSet(Resting) /\ Resting' \in SUBSET Resting
    BY <1>1, CountedSets DEF StatsInv
  <2>2. IsFiniteSet(Resting') /\ Cardinality(Resting') <= Cardinality(Resting)
    BY <2>1, FS_Subset
  <2>3. Cardinality(Resting') \in Nat /\ Cardinality(Resting) \in Nat /\ stats.orders_resting \in Nat
    BY <2>1, <2>2, FS_CardinalityType DEF StatsInv, StatsTyped
  <2> QED BY <1>1, <2>2, <2>3 DEF StatsInv, RestingCounted
<1> QED BY <1>2, <1>4, <1>5, <1>6 DEF StatsInv

\* The end of a call: the counters catch up with what the order has done.
LEMMA AckStats ==
    ASSUME EngineInv, StatsInv, AckStep
    PROVE  StatsInv'
<1> DEFINE T == TradesOf(taker)
           rests == NewResting(taker)
<1>1. /\ taker \in OrderId /\ taker # None /\ taker' = None
      /\ taker \notin order_map /\ taker \notin Resting
      /\ trades' = trades /\ order_map' = order_map \union {taker}
      /\ Resting' = IF rests THEN Resting \union {taker} ELSE Resting
  BY DEF AckStep
<1>2. stats' = [stats EXCEPT
         !.orders_resting  = @ + (IF rests THEN 1 ELSE 0),
         !.orders_matched  = @ + (IF T # {} THEN 1 ELSE 0),
         !.trades_executed = @ + Cardinality(T),
         !.total_volume    = @ + SumFunctionOnSet(TradeSizes, T)]
  BY DEF AckStep
<1>3. InFlight = T /\ InFlight' = {} /\ Takers' = Takers /\ TradeSizes' = TradeSizes
  BY <1>1 DEF InFlight, Takers, TradeSizes
<1>4. /\ IsFiniteSet(T) /\ IsFiniteSet(order_map) /\ IsFiniteSet(Resting) /\ IsFiniteSet(Takers)
      /\ \A i \in T : TradeSizes[i] \in Int
      /\ Takers \subseteq OrderId
  BY <1>3, CountedSets DEF StatsInv
<1>5. T # {} <=> taker \in Takers
  BY DEF TradesOf, Takers
<1> HIDE DEF T, rests
<1>6. Cardinality(T) \in Nat /\ SumFunctionOnSet(TradeSizes, T) \in Int
  BY <1>4, FS_CardinalityType, SumSplit
<1>7. /\ stats'.orders_received = stats.orders_received
      /\ stats'.orders_rejected = stats.orders_rejected
      /\ stats'.orders_resting = stats.orders_resting + (IF rests THEN 1 ELSE 0)
      /\ stats'.orders_matched = stats.orders_matched + (IF T # {} THEN 1 ELSE 0)
      /\ stats'.trades_executed = stats.trades_executed + Cardinality(T)
      /\ stats'.total_volume = stats.total_volume + SumFunctionOnSet(TradeSizes, T)
  BY <1>2 DEF StatsInv, StatsTyped
<1>8. StatsTyped'
  <2>1. StatsTyped /\ (IF rests THEN 1 ELSE 0) \in Nat /\ (IF T # {} THEN 1 ELSE 0) \in Nat
    BY DEF StatsInv
  <2>2. ASSUME NEW a \in Nat, NEW b \in Nat, NEW c \in Nat, NEW d \in Int,
               stats' = [stats EXCEPT !.orders_resting = @ + a, !.orders_matched = @ + b,
                                      !.trades_executed = @ + c, !.total_volume = @ + d]
        PROVE  StatsTyped'
    <3>1. /\ stats.orders_resting + a \in Nat /\ stats.orders_matched + b \in Nat
          /\ stats.trades_executed + c \in Nat /\ stats.total_volume + d \in Int
      BY <2>1 DEF StatsTyped
    <3> QED BY <2>1, <2>2, <3>1 DEF StatsTyped
  <2> QED BY <1>2, <1>6, <2>1, <2>2
<1>9. OrdersCounted'
  <2>1. /\ IsFiniteSet(order_map \union {taker})
        /\ Cardinality(order_map \union {taker}) = Cardinality(order_map) + 1
    BY <1>1, <1>4, FS_AddElement
  <2>2. Cardinality(order_map) \in Nat /\ stats.orders_rejected \in Nat
    BY <1>4, FS_CardinalityType DEF StatsInv, StatsTyped
  <2>3. stats.orders_received = stats.orders_rejected + Cardinality(order_map) + 1
    BY <1>1 DEF StatsInv, OrdersCounted
  <2> QED BY <1>1, <1>7, <2>1, <2>2, <2>3 DEF OrdersCounted
<1>10. TradesCounted'
  <2>1. /\ stats.trades_executed + Cardinality(T) = Len(trades)
        /\ stats.total_volume + SumFunctionOnSet(TradeSizes, T)
              = SumFunctionOnSet(TradeSizes, 1..Len(trades))
    BY <1>3 DEF StatsInv, TradesCounted
  <2>2. Cardinality(InFlight') = 0 /\ SumFunctionOnSet(TradeSizes', InFlight') = 0
    BY <1>3, FS_EmptySet, SumEmpty
  <2>3. stats'.trades_executed \in Nat /\ stats'.total_volume \in Int
    BY <1>8 DEF StatsTyped
  <2>4. stats'.trades_executed + Cardinality(InFlight') = Len(trades')
    BY <1>1, <1>7, <2>1, <2>2, <2>3
  <2>5. stats'.total_volume + SumFunctionOnSet(TradeSizes', InFlight')
           = SumFunctionOnSet(TradeSizes', 1..Len(trades'))
    BY <1>1, <1>3, <1>7, <2>1, <2>2, <2>3
  <2> QED BY <2>4, <2>5 DEF TradesCounted
<1>11. TakersCounted'
  <2>1. Takers' \ {taker'} = Takers
    BY <1>1, <1>3, <1>4, NoneAssumption
  <2>2. Cardinality(Takers \ {taker})
           = IF taker \in Takers THEN Cardinality(Takers) - 1 ELSE Cardinality(Takers)
    BY <1>4, FS_RemoveElement
  <2>3. Cardinality(Takers) \in Nat
    BY <1>4, FS_CardinalityType
  <2>4. stats.orders_matched = Cardinality(Takers \ {taker})
    BY DEF StatsInv, TakersCounted
  <2>5. stats'.orders_matched = Cardinality(Takers)
    BY <1>5, <1>7, <2>2, <2>3, <2>4
  <2> QED BY <2>1, <2>5 DEF TakersCounted
<1>12. RestingCounted'
  <2>1. Cardinality(Resting') = Cardinality(Resting) + (IF rests THEN 1 ELSE 0)
    <3>1. Cardinality(Resting \union {taker}) = Cardinality(Resting) + 1
      BY <1>1, <1>4, FS_AddElement
    <3>2. Cardinality(Resting) \in Nat
      BY <1>4, FS_CardinalityType
    <3> QED BY <1>1, <3>1, <3>2
  <2>2. Cardinality(Resting) \in Nat /\ stats.orders_resting \in Nat
    BY <1>4, FS_CardinalityType DEF StatsInv, StatsTyped
  <2>3. stats.orders_resting >= Cardinality(Resting)
    BY DEF StatsInv, RestingCounted
  <2> QED BY <1>7, <2>1, <2>2, <2>3 DEF RestingCounted
<1> QED BY <1>8, <1>9, <1>10, <1>11, <1>12 DEF StatsInv

\* A cancel takes one order out of the book and one off the counter.
LEMMA CancelStats ==
    ASSUME EngineInv, StatsInv, NEW o \in OrderId, CancelStep(o)
    PROVE  StatsInv'
<1>1. /\ o \in Resting /\ UNCHANGED <<taker, trades, order_map>>
      /\ Resting' = Resting \ {o}
      /\ stats' = [stats EXCEPT !.orders_cancelled = @ + 1, !.orders_resting = Uncounted(@)]
  BY DEF CancelStep
<1>2. InFlight' = InFlight /\ Takers' = Takers /\ TradeSizes' = TradeSizes
  BY <1>1 DEF InFlight, TradesOf, Takers, TradeSizes
<1>3. stats.orders_resting \in Nat /\ Uncounted(stats.orders_resting) \in Nat
  BY DEF StatsInv, StatsTyped, Uncounted
<1>4. StatsTyped'
  <2>1. StatsTyped /\ stats.orders_cancelled + 1 \in Nat
    BY DEF StatsInv, StatsTyped
  <2> QED BY <1>1, <1>3, <2>1 DEF StatsTyped
<1>5. /\ stats'.orders_received = stats.orders_received
      /\ stats'.orders_rejected = stats.orders_rejected
      /\ stats'.trades_executed = stats.trades_executed
      /\ stats'.total_volume = stats.total_volume
      /\ stats'.orders_matched = stats.orders_matched
      /\ stats'.orders_resting = Uncounted(stats.orders_resting)
  BY <1>1 DEF StatsInv, StatsTyped
<1>6. OrdersCounted' /\ TradesCounted' /\ TakersCounted'
  BY <1>1, <1>2, <1>5 DEF StatsInv, OrdersCounted, TradesCounted, TakersCounted
<1>7. IsFiniteSet(Resting)
  BY CountedSets DEF StatsInv
<1>8. Cardinality(Resting') = Cardinality(Resting) - 1
  BY <1>1, <1>7, FS_RemoveElement
<1>9. Cardinality(Resting) \in Nat /\ Cardinality(Resting') \in Nat
  <2>1. IsFiniteSet(Resting')
    BY <1>1, <1>7, FS_RemoveElement
  <2> QED BY <1>7, <2>1, FS_CardinalityType
<1>10. stats.orders_resting >= Cardinality(Resting)
  BY DEF StatsInv, RestingCounted
<1>11. Uncounted(stats.orders_resting) >= Cardinality(Resting')
  BY <1>3, <1>8, <1>9, <1>10 DEF Uncounted
<1> QED BY <1>4, <1>5, <1>6, <1>11 DEF StatsInv, RestingCounted

\* Between calls the counters of EngineStats add up, for any number of orders:
\* nothing received is lost, no trade is counted twice, and orders_resting never
\* falls below the number of orders in the book.
THEOREM StatsAlwaysReconcile == EngineSpec => []StatsReconcile
<1>1. EngineInit => StatsInv
  <2> SUFFICES ASSUME EngineInit PROVE StatsInv
    OBVIOUS
  <2>1. /\ taker = None /\ trades = <<>> /\ order_map = {} /\ Resting = {}
        /\ stats = EngineStats
    BY DEF EngineInit, Init, Resting
  <2>2. Len(trades) = 0 /\ 1..Len(trades) = {}
    BY <2>1, EmptySeq
  <2>3. InFlight = {} /\ Takers \ {taker} = {}
    BY <2>1, <2>2 DEF InFlight, Takers
  <2>4. StatsTyped
    BY <2>1 DEF EngineStats, StatsTyped
  <2>5. /\ stats.orders_received = 0 /\ stats.orders_rejected = 0 /\ stats.trades_executed = 0
        /\ stats.total_volume = 0 /\ stats.orders_matched = 0 /\ stats.orders_resting = 0
    BY <2>1 DEF EngineStats
  <2>6. IsFiniteSet({}) /\ Cardinality({}) = 0 /\ SumFunctionOnSet(TradeSizes, {}) = 0
    BY FS_EmptySet, SumEmpty
  <2>7. OrdersCounted /\ RestingCounted
    BY <2>1, <2>5, <2>6 DEF OrdersCounted, RestingCounted
  <2>8. TradesCounted
    BY <2>2, <2>3, <2>5, <2>6 DEF TradesCounted
  <2>9. TakersCounted
    BY <2>3, <2>5, <2>6 DEF TakersCounted
  <2> QED BY <2>4, <2>7, <2>8, <2>9 DEF StatsInv
<1>2. EngineInv /\ StatsInv /\ [EngineNext]_engineVars => StatsInv'
  BY CountedSteps, QuietStats, AcceptStats, MatchStats, AckStats, CancelStats
<1>3. EngineInv /\ StatsInv => StatsReconcile
  <2> SUFFICES ASSUME EngineInv, StatsInv, taker = None
               PROVE  /\ stats.orders_received = stats.orders_rejected + Cardinality(order_map)
                      /\ stats.trades_executed = Len(trades)
                      /\ stats.total_volume = SumFunctionOnSet(TradeSizes, 1..Len(trades))
                      /\ stats.orders_matched = Cardinality(Takers)
                      /\ stats.orders_resting >= Cardinality(Resting)
    BY DEF StatsReconcile, Takers
  <2>1. Cardinality(order_map) \in Nat /\ stats \in [orders_received: Nat,
           orders_matched: Nat, orders_resting: Nat, orders_cancelled: Nat,
           orders_rejected: Nat, trades_executed: Nat, total_volume: Int]
    BY CountedSets, FS_CardinalityType DEF StatsInv, StatsTyped
  <2>2. Cardinality(InFlight) = 0 /\ SumFunctionOnSet(TradeSizes, InFlight) = 0
    BY NothingInFlight, FS_EmptySet, SumEmpty
  <2>3. Takers \ {taker} = Takers
    BY CountedSets, NoneAssumption DEF StatsInv
  <2>4. stats.orders_received = stats.orders_rejected + Cardinality(order_map)
    BY <2>1 DEF StatsInv, OrdersCounted
  <2>5. /\ stats.trades_executed = Len(trades)
        /\ stats.total_volume = SumFunctionOnSet(TradeSizes, 1..Len(trades))
    <3>1. /\ stats.trades_executed + 0 = Len(trades)
          /\ stats.total_volume + 0 = SumFunctionOnSet(TradeSizes, 1..Len(trades))
      BY <2>2 DEF StatsInv, TradesCounted
    <3>2. stats.trades_executed \in Nat /\ stats.total_volume \in Int
      BY <2>1
    <3> QED BY <3>1, <3>2
  <2> QED BY <2>3, <2>4, <2>5 DEF StatsInv, TakersCounted, RestingCounted
<1> QED BY <1>1, <1>2, <1>3, EngineInvariance, PTL DEF EngineSpec
=============================================================================
