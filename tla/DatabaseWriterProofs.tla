------------------------ MODULE DatabaseWriterProofs ------------------------
(***************************************************************************)
(* Proofs about DatabaseWriter, for any set of orders, queue depth, batch  *)
(* size and number of retries and outages.                                 *)
(***************************************************************************)
EXTENDS DatabaseWriter, SharedFacts

USE QueueDepthAssumption, BatchSizeAssumption, RetriesAssumption, OutagesAssumption

-----------------------------------------------------------------------------
(* The inductive invariant.                                                *)

\* An event of order o is in the queue.
OrderQueued(o) ==
    \E i \in 1..Len(queue) : queue[i].of = o /\ queue[i].type # "TRADE"

\* The row of order o is in the batch that is being written.
OrderInBatch(o) == \E i \in Rows("orders") : batch[i].id = o

\* Where the newest state that was reported of o is: on its way in the queue, in
\* the batch, whose rows are all as recent, or in the database.
Fresh(o) ==
    \/ OrderQueued(o)
    \/ /\ \A i \in Rows("orders") : batch[i].id = o => batch[i].version >= reported[o]
       /\ OrderInBatch(o) \/ db_orders[o] >= reported[o]

\* Nothing is being written between batches.
BatchTaken == pc \in {"next", "done"} => batch = <<>>

\* The object is never behind what was reported of it.
ReportsLive == \A o \in Order : reported[o] <= live[o]

AllFresh == Lossless => \A o \in Order : Fresh(o)

IInv ==
    /\ TypeOK
    /\ IsFiniteSet(resting)
    /\ BatchTaken
    /\ ReportsLive
    /\ LossIsCounted
    /\ AllFresh

-----------------------------------------------------------------------------
(* What an engine operation puts into the queue.                           *)

\* The writer is sent the trades of an operation and the event of its order.
LEMMA TranslateFacts ==
    ASSUME NEW o \in Order, NEW type \in OrderEventTypes,
           NEW fills \in Seq(Order \X Order), NEW snapshot
    PROVE  LET events == Translate(EngineEvent(type, o, fills, snapshot), SubscribedTypes)
           IN  /\ events \in Seq(Event)
               /\ \E i \in 1..Len(events) : events[i] = [type |-> type, of |-> o]
               /\ type # "ORDER_REJECTED" =>
                    \A j \in 1..Len(fills) :
                        /\ j \in 1..Len(events)
                        /\ events[j] = [type |-> "TRADE", of |-> fills[j]]
<1> DEFINE e == EngineEvent(type, o, fills, snapshot)
           events == Translate(e, SubscribedTypes)
           own == <<[type |-> type, of |-> o]>>
           traded == [i \in 1..Len(fills) |-> [type |-> "TRADE", of |-> fills[i]]]
<1>1. /\ type \in SubscribedTypes /\ "TRADE" \in SubscribedTypes
      /\ "BOOK_UPDATE" \notin SubscribedTypes
  BY DEF SubscribedTypes, OrderEventTypes
<1>2. [type |-> type, of |-> o] \in Event
  BY <1>1 DEF Event, DomainEvent
<1>3. own \in Seq(Event) /\ Len(own) = 1 /\ own[1] = [type |-> type, of |-> o]
  BY <1>2
<1>4. \A j \in 1..Len(fills) : [type |-> "TRADE", of |-> fills[j]] \in Event
  BY <1>1, ElementOfSeq DEF Event, DomainEvent
<1>5. Len(fills) \in Nat
  BY LenProperties
<1>6. traded \in Seq(Event) /\ Len(traded) = Len(fills)
      /\ \A j \in 1..Len(fills) : traded[j] = [type |-> "TRADE", of |-> fills[j]]
  BY <1>4, <1>5, IsASeq
<1>7. e.type = type /\ e.order = o /\ e.trades = fills
  BY DEF EngineEvent
<1>8. CASE type = "ORDER_REJECTED"
  <2>1. events = own
    BY <1>1, <1>7, <1>8 DEF Translate, Subscribed
  <2> HIDE DEF events, own
  <2>2. events \in Seq(Event)
    BY <1>3, <2>1
  <2>3. 1 \in 1..Len(events)
    <3>1. Len(events) = 1 BY <1>3, <2>1
    <3> QED BY <3>1
  <2>4. events[1] = [type |-> type, of |-> o]
    BY <1>3, <2>1
  <2> QED BY <1>8, <2>2, <2>3, <2>4 DEF events, e
<1>9. CASE type # "ORDER_REJECTED"
  <2>1. events = traded \o own \o <<>>
    BY <1>1, <1>7, <1>9 DEF Translate, Subscribed
  <2> HIDE DEF events, traded, own
  <2>2. traded \o own \in Seq(Event)
    BY <1>3, <1>6, ConcatIndices
  <2>3. events = traded \o own
    BY <2>1, <2>2, ConcatEmptySeq
  <2>4. events \in Seq(Event) /\ Len(events) = Len(fills) + 1
    <3>1. own \in Seq(Event) /\ traded \in Seq(Event)
      BY <1>3, <1>6
    <3>2. Len(events) = Len(traded) + Len(own)
      BY <2>3, <3>1, ConcatIndices
    <3> QED BY <1>3, <1>6, <2>2, <2>3, <3>2
  <2>5. \A j \in 1..Len(fills) :
            j \in 1..Len(events) /\ events[j] = [type |-> "TRADE", of |-> fills[j]]
    BY <1>3, <1>6, <2>3, ConcatIndices
  <2>6. Len(fills) + 1 \in 1..Len(events)
        /\ events[Len(fills) + 1] = [type |-> type, of |-> o]
    <3>1. 1 \in 1..Len(own)
      BY <1>3
    <3>2. own \in Seq(Event) /\ traded \in Seq(Event)
      BY <1>3, <1>6
    <3>3. events[Len(traded) + 1] = own[1]
      BY <2>3, <3>1, <3>2, ConcatIndices
    <3> QED BY <1>3, <1>5, <1>6, <2>4, <3>3
  <2> QED BY <2>4, <2>5, <2>6 DEF events, e
<1> QED BY <1>8, <1>9

\* Emit keeps the queue's type and bound.  If no drop is counted afterwards none
\* was before, what waited still waits, and so do the operation's own events.
LEMMA EmitFacts ==
    ASSUME TypeOK, NEW o \in Order, NEW type \in OrderEventTypes,
           NEW fills \in Seq(Order \X Order), NEW snapshot,
           Emit(EngineEvent(type, o, fills, snapshot))
    PROVE  /\ queue' \in Seq(Event) /\ Len(queue') <= QueueDepth
           /\ dropped' \in Nat
           /\ dropped' = 0 =>
                /\ dropped = 0
                /\ \A i \in 1..Len(queue) : i \in 1..Len(queue') /\ queue'[i] = queue[i]
                /\ \E i \in 1..Len(queue') : queue'[i] = [type |-> type, of |-> o]
                /\ type # "ORDER_REJECTED" =>
                     \A t \in ToSet(fills) : \E i \in 1..Len(queue') :
                        queue'[i] = [type |-> "TRADE", of |-> t]
<1> DEFINE events == Translate(EngineEvent(type, o, fills, snapshot), SubscribedTypes)
<1>1. /\ events \in Seq(Event)
      /\ \E i \in 1..Len(events) : events[i] = [type |-> type, of |-> o]
      /\ type # "ORDER_REJECTED" =>
           \A j \in 1..Len(fills) :
               j \in 1..Len(events) /\ events[j] = [type |-> "TRADE", of |-> fills[j]]
  BY TranslateFacts
<1>2. /\ queue' = Admitted(queue, events, QueueDepth)
      /\ dropped' = dropped + Shed(queue, events, QueueDepth)
  BY DEF Emit
<1> HIDE DEF events
<1>3. /\ queue \in Seq(Event) /\ Len(queue) <= QueueDepth /\ dropped \in Nat
      /\ QueueDepth \in Nat
  BY DEF TypeOK
<1>4. /\ queue' \in Seq(Event) /\ Len(queue') <= QueueDepth
      /\ Shed(queue, events, QueueDepth) \in Nat
  BY <1>1, <1>2, <1>3, AdmittedType
<1>5. dropped' \in Nat
  BY <1>2, <1>3, <1>4
<1>6. ASSUME dropped' = 0
      PROVE  /\ dropped = 0
             /\ \A i \in 1..Len(queue) : i \in 1..Len(queue') /\ queue'[i] = queue[i]
             /\ \A i \in 1..Len(events) :
                  /\ Len(queue) + i \in 1..Len(queue')
                  /\ queue'[Len(queue) + i] = events[i]
  <2>1. dropped = 0 /\ Shed(queue, events, QueueDepth) = 0
    BY <1>2, <1>3, <1>4, <1>6
  <2>2. Admitted(queue, events, QueueDepth) = queue \o events
    <3>1. events \in Seq(Event)
      BY <1>1
    <3> QED BY ONLY <3>1, <1>3, <2>1, AdmittedWhole
  <2>3. queue' = queue \o events
    BY <1>2, <2>2
  <2> QED BY <1>1, <1>3, <2>1, <2>3, ConcatIndices
<1>7. ASSUME dropped' = 0
      PROVE  \E i \in 1..Len(queue') : queue'[i] = [type |-> type, of |-> o]
  BY <1>1, <1>6, <1>7
<1>8. ASSUME dropped' = 0, type # "ORDER_REJECTED", NEW t \in ToSet(fills)
      PROVE  \E i \in 1..Len(queue') : queue'[i] = [type |-> "TRADE", of |-> t]
  <2>1. PICK j \in 1..Len(fills) : fills[j] = t
    BY <1>8, LenProperties DEF ToSet
  <2> QED BY <1>1, <1>6, <1>8, <2>1
<1> QED BY <1>4, <1>5, <1>6, <1>7, <1>8

-----------------------------------------------------------------------------
(* The engine's operations.                                                *)

\* An operation of the engine on order o, which reports o and made fills.
LEMMA EngineStep ==
    ASSUME IInv, NEW o \in Order, NEW type \in OrderEventTypes,
           NEW fills \in Seq(Order \X Order), NEW snapshot,
           Emit(EngineEvent(type, o, fills, snapshot)),
           type = "ORDER_REJECTED" => ToSet(fills) = {},
           UNCHANGED <<stop, writerVars>>,
           live' \in [Order -> Nat], reported' \in [Order -> Nat],
           resting' \subseteq Order, IsFiniteSet(resting'),
           made' = made \union ToSet(fills), ReportsLive',
           \A p \in Order \ {o} : reported'[p] = reported[p]
    PROVE  IInv'
<1>1. /\ queue' \in Seq(Event) /\ Len(queue') <= QueueDepth
      /\ dropped' \in Nat
      /\ dropped' = 0 =>
           /\ dropped = 0
           /\ \A i \in 1..Len(queue) : i \in 1..Len(queue') /\ queue'[i] = queue[i]
           /\ \E i \in 1..Len(queue') : queue'[i] = [type |-> type, of |-> o]
           /\ type # "ORDER_REJECTED" =>
                \A t \in ToSet(fills) : \E i \in 1..Len(queue') :
                   queue'[i] = [type |-> "TRADE", of |-> t]
  BY EmitFacts DEF IInv
<1>2. TypeOK'
  <2>1. ToSet(fills) \subseteq Order \X Order
    BY LenProperties, ElementOfSeq DEF ToSet
  <2> QED BY <1>1, <2>1 DEF IInv, TypeOK, writerVars
<1>3. BatchTaken'
  BY DEF IInv, BatchTaken, writerVars
<1>4. ASSUME Lossless'
      PROVE  Lossless /\ dropped' = 0
  BY <1>1, <1>4 DEF Lossless, writerVars
<1>5. LossIsCounted'
  <2> SUFFICES ASSUME Lossless', NEW t \in made'
               PROVE  t \in db_trades' \/ Waiting("trades", t)'
    BY DEF LossIsCounted
  <2>1. CASE t \in made
    <3>1. t \in db_trades \/ Waiting("trades", t)
      BY <1>4, <2>1 DEF IInv, LossIsCounted
    <3> QED BY <1>1, <1>4, <3>1 DEF Waiting, Rows, writerVars
  <2>2. CASE t \in ToSet(fills)
    <3>1. PICK i \in 1..Len(queue') : queue'[i] = [type |-> "TRADE", of |-> t]
      BY <1>1, <1>4, <2>2
    <3>2. queue'[i].type = "TRADE" /\ queue'[i].of = t
      BY <3>1
    <3> QED BY <3>2 DEF Waiting
  <2> QED BY <2>1, <2>2
<1>6. AllFresh'
  <2> SUFFICES ASSUME Lossless', NEW p \in Order
               PROVE  Fresh(p)'
    BY DEF AllFresh
  <2>1. CASE p = o
    <3>1. PICK i \in 1..Len(queue') : queue'[i] = [type |-> type, of |-> o]
      BY <1>1, <1>4
    <3>2. queue'[i].type # "TRADE" /\ queue'[i].of = p
      BY <2>1, <3>1 DEF OrderEventTypes
    <3> QED BY <3>2 DEF Fresh, OrderQueued
  <2>2. CASE p # o
    <3>1. reported'[p] = reported[p]
      BY <2>2
    <3>2. Fresh(p)
      BY <1>4 DEF IInv, AllFresh
    <3>3. OrderQueued(p) => OrderQueued(p)'
      BY <1>1, <1>4 DEF OrderQueued
    <3> QED BY <3>1, <3>2, <3>3 DEF Fresh, OrderInBatch, Rows, writerVars
  <2> QED BY <2>1, <2>2
<1> QED BY <1>2, <1>3, <1>5, <1>6 DEF IInv

LEMMA SubmitOrderStep ==
    ASSUME IInv, NEW o \in Order, SubmitOrder(o)
    PROVE  IInv'
<1>1. PICK makers \in SUBSET resting, remaining \in {0, 1} :
          LET fills == SetToSeq({<<m, o>> : m \in makers})
          IN  /\ live' = [p \in Order |-> IF p = o THEN 1
                             ELSE IF p \in makers THEN live[p] + 1 ELSE live[p]]
              /\ made' = made \union ToSet(fills)
              /\ IF remaining = 0
                 THEN \E partly \in SUBSET makers :
                        /\ Cardinality(partly) <= 1
                        /\ resting' = (resting \ makers) \union partly
                 ELSE \E residual \in SUBSET {o} :
                        resting' = (resting \ makers) \union residual
              /\ Emit(EngineEvent(AckType(fills, remaining), o, fills, "book"))
  BY DEF SubmitOrder
<1> DEFINE pairs == {<<m, o>> : m \in makers}
           fills == SetToSeq(pairs)
<1>2. live \in [Order -> Nat] /\ resting \subseteq Order /\ IsFiniteSet(resting)
      /\ reported \in [Order -> Nat] /\ live[o] = 0 /\ ReportsLive
  BY DEF IInv, TypeOK, SubmitOrder
<1>3. IsFiniteSet(makers) /\ IsFiniteSet(resting \ makers)
  BY <1>2, FS_Subset
<1>4. IsFiniteSet(pairs) /\ pairs \subseteq Order \X Order
  <2> DEFINE f == [m \in makers |-> <<m, o>>]
  <2>1. f \in Surjection(makers, pairs)
    BY DEF Surjection
  <2> QED BY <1>2, <1>3, <2>1, FS_Surjection
<1>5. fills \in Seq(pairs)
  BY <1>4, SetToSeqFacts
<1>6. fills \in Seq(Order \X Order)
  BY <1>4, <1>5, SeqMonotonic
<1> HIDE DEF fills, pairs
<1>7. AckType(fills, remaining) \in OrderEventTypes /\ AckType(fills, remaining) # "ORDER_REJECTED"
  BY DEF AckType, OrderEventTypes
<1>8. resting' \subseteq Order /\ IsFiniteSet(resting')
  <2>1. CASE remaining = 0
    <3>1. PICK partly \in SUBSET makers : resting' = (resting \ makers) \union partly
      BY <1>1, <2>1
    <3>2. IsFiniteSet(partly)
      BY <1>3, FS_Subset
    <3> QED BY <1>2, <1>3, <3>1, <3>2, FS_Union
  <2>2. CASE remaining # 0
    <3>1. PICK residual \in SUBSET {o} : resting' = (resting \ makers) \union residual
      BY <1>1, <2>2
    <3>2. IsFiniteSet(residual)
      BY FS_Singleton, FS_Subset
    <3> QED BY <1>2, <1>3, <3>1, <3>2, FS_Union
  <2> QED BY <2>1, <2>2
<1>9. live' = [p \in Order |-> IF p = o THEN 1
                ELSE IF p \in makers THEN live[p] + 1 ELSE live[p]]
      /\ reported' = [reported EXCEPT ![o] = 1]
  BY <1>1 DEF SubmitOrder
<1>10. live' \in [Order -> Nat] /\ reported' \in [Order -> Nat] /\ ReportsLive'
       /\ \A p \in Order \ {o} : reported'[p] = reported[p]
  BY <1>2, <1>9 DEF ReportsLive
<1>11. made' = made \union ToSet(fills)
       /\ Emit(EngineEvent(AckType(fills, remaining), o, fills, "book"))
  BY <1>1 DEF fills, pairs
<1>12. UNCHANGED <<stop, writerVars>>
  BY DEF SubmitOrder
<1> QED BY <1>6, <1>7, <1>8, <1>10, <1>11, <1>12, EngineStep

LEMMA RejectOrderStep ==
    ASSUME IInv, NEW o \in Order, RejectOrder(o)
    PROVE  IInv'
<1>1. /\ live \in [Order -> Nat] /\ reported \in [Order -> Nat] /\ ReportsLive
      /\ live[o] = 0 /\ resting' = resting /\ made' = made
      /\ resting \subseteq Order /\ IsFiniteSet(resting)
      /\ live' = [live EXCEPT ![o] = 1] /\ reported' = [reported EXCEPT ![o] = 1]
      /\ Emit(EngineEvent("ORDER_REJECTED", o, <<>>, "none"))
      /\ UNCHANGED <<stop, writerVars>>
  BY DEF IInv, TypeOK, RejectOrder
<1>2. live' \in [Order -> Nat] /\ reported' \in [Order -> Nat] /\ ReportsLive'
       /\ \A p \in Order \ {o} : reported'[p] = reported[p]
  BY <1>1 DEF ReportsLive
<1>3. <<>> \in Seq(Order \X Order) /\ ToSet(<<>>) = {} /\ "ORDER_REJECTED" \in OrderEventTypes
  BY DEF ToSet, OrderEventTypes
<1>4. made' = made \union ToSet(<<>>)
  BY <1>1, <1>3
<1> QED BY <1>1, <1>2, <1>3, <1>4, EngineStep

LEMMA CancelOrderStep ==
    ASSUME IInv, NEW o \in Order, CancelOrder(o)
    PROVE  IInv'
<1>1. /\ live \in [Order -> Nat] /\ reported \in [Order -> Nat] /\ ReportsLive
      /\ resting' = resting \ {o} /\ made' = made
      /\ resting \subseteq Order /\ IsFiniteSet(resting)
      /\ live' = [live EXCEPT ![o] = @ + 1]
      /\ reported' = [reported EXCEPT ![o] = live[o] + 1]
      /\ Emit(EngineEvent("ORDER_CANCELLED", o, <<>>, "book"))
      /\ UNCHANGED <<stop, writerVars>>
  BY DEF IInv, TypeOK, CancelOrder
<1>2. live' \in [Order -> Nat] /\ reported' \in [Order -> Nat] /\ ReportsLive'
       /\ \A p \in Order \ {o} : reported'[p] = reported[p]
  BY <1>1 DEF ReportsLive
<1>3. <<>> \in Seq(Order \X Order) /\ ToSet(<<>>) = {} /\ "ORDER_CANCELLED" \in OrderEventTypes
  BY DEF ToSet, OrderEventTypes
<1>4. made' = made \union ToSet(<<>>)
  BY <1>1, <1>3
<1>5. resting' \subseteq Order /\ IsFiniteSet(resting')
  BY <1>1, FS_Subset
<1> QED BY <1>1, <1>2, <1>3, <1>4, <1>5, EngineStep

-----------------------------------------------------------------------------
(* The writer's steps.                                                     *)

\* The counters stay natural numbers.
LEMMA MetricsType ==
    ASSUME NEW m \in PersistenceMetrics, NEW n \in Nat
    PROVE  /\ [m EXCEPT !.events_consumed = @ + n] \in PersistenceMetrics
           /\ [m EXCEPT !.batches_written = @ + 1, !.rows_written = @ + n]
                 \in PersistenceMetrics
           /\ [m EXCEPT !.failed_batches = @ + 1] \in PersistenceMetrics
           /\ [m EXCEPT !.write_retries = @ + 1] \in PersistenceMetrics
<1>1. [m EXCEPT !.events_consumed = @ + n] \in PersistenceMetrics
  BY DEF PersistenceMetrics
<1>2. [m EXCEPT !.batches_written = @ + 1, !.rows_written = @ + n] \in PersistenceMetrics
  <2>1. m.batches_written + 1 \in Nat /\ m.rows_written + n \in Nat
    BY DEF PersistenceMetrics
  <2> QED BY <2>1 DEF PersistenceMetrics
<1>3. [m EXCEPT !.failed_batches = @ + 1] \in PersistenceMetrics
  BY DEF PersistenceMetrics
<1>4. [m EXCEPT !.write_retries = @ + 1] \in PersistenceMetrics
  BY DEF PersistenceMetrics
<1> QED BY <1>1, <1>2, <1>3, <1>4

\* A row made from an event is a row of the table the event belongs to.
LEMMA SerializeFacts ==
    ASSUME TypeOK, NEW ev \in Event
    PROVE  /\ Serialize(ev) \in Row
           /\ Serialize(ev).id = ev.of
           /\ Serialize(ev).table = "trades" <=> ev.type = "TRADE"
           /\ Serialize(ev).table = "orders" <=> ev.type # "TRADE"
           /\ ev.type # "TRADE" => ev.of \in Order /\ Serialize(ev).version = live[ev.of]
<1>1. CASE ev.type = "TRADE"
  <2>1. ev.of \in Order \X Order
    BY <1>1 DEF Event, DomainEvent, OrderEventTypes
  <2> QED BY <1>1, <2>1 DEF Serialize, Row
<1>2. CASE ev.type # "TRADE"
  <2>1. ev.of \in Order
    BY <1>2 DEF Event, DomainEvent, SubscribedTypes
  <2> QED BY <1>2, <2>1 DEF Serialize, Row, TypeOK
<1> QED BY <1>1, <1>2

\* The next batch moves the front of the queue, event by event, into the batch.
LEMMA NextBatchStep ==
    ASSUME IInv, NextBatch
    PROVE  IInv'
<1>1. /\ queue \in Seq(Event) /\ Len(queue) \in Nat \ {0} /\ BatchSize \in Nat \ {0}
      /\ Len(queue) <= QueueDepth /\ TypeOK /\ batch = <<>>
  BY LenProperties, EmptySeq DEF IInv, TypeOK, NextBatch, BatchTaken
<1>2. Taken \in 1..Len(queue) /\ Taken <= BatchSize /\ Taken \in Nat
  BY <1>1 DEF Taken
<1>3. /\ batch' = [i \in 1..Taken |-> Serialize(queue[i])]
      /\ queue' = SubSeq(queue, Taken + 1, Len(queue))
      /\ metrics' = [metrics EXCEPT !.events_consumed = @ + Taken]
      /\ attempt' = 0 /\ pc' = "write"
      /\ UNCHANGED <<live, resting, made, reported, dropped, stop, db_orders,
                     db_trades, outages>>
  BY DEF NextBatch
<1>4. \A i \in 1..Len(queue) : queue[i] \in Event
  BY <1>1, ElementOfSeq
<1>5. \A i \in 1..Taken : Serialize(queue[i]) \in Row
  BY <1>1, <1>2, <1>4, SerializeFacts
<1>6. batch' \in Seq(Row) /\ Len(batch') = Taken
      /\ \A i \in 1..Taken : batch'[i] = Serialize(queue[i])
  <2>1. batch' \in [1..Taken -> Row]
    BY <1>3, <1>5
  <2>2. batch' \in Seq(Row) /\ Len(batch') = Taken
    BY <1>2, <2>1, IsASeq, LenProperties
  <2> QED BY <1>3, <2>2
<1>7. queue' \in Seq(Event) /\ Len(queue') = Len(queue) - Taken
      /\ \A i \in 1..Len(queue) - Taken : queue'[i] = queue[Taken + i]
  <2>1. \A i \in Taken + 1..Len(queue) : queue[i] \in Event
    BY <1>2, <1>4
  <2> QED BY <1>1, <1>2, <1>3, <2>1, SubSeqProperties
<1>8. TypeOK'
  <2>1. metrics' \in PersistenceMetrics
    <3>1. metrics \in PersistenceMetrics
      BY <1>1 DEF TypeOK
    <3> QED BY <1>2, <1>3, <3>1, MetricsType
  <2>2. Len(queue') <= QueueDepth /\ Len(batch') <= BatchSize
    BY <1>1, <1>2, <1>6, <1>7
  <2>3. attempt' \in 0..MaxRetries
    BY <1>3
  <2> QED BY <1>1, <1>3, <1>6, <1>7, <2>1, <2>2, <2>3 DEF TypeOK
<1>9. BatchTaken'
  BY <1>3 DEF BatchTaken
<1>10. ReportsLive' /\ IsFiniteSet(resting') /\ Lossless' = Lossless
  BY <1>1, <1>3 DEF IInv, ReportsLive, Lossless, TypeOK, PersistenceMetrics
<1>11. LossIsCounted'
  <2> SUFFICES ASSUME Lossless, NEW t \in made, t \notin db_trades
               PROVE  Waiting("trades", t)'
    BY <1>3, <1>10 DEF LossIsCounted
  <2>1. Waiting("trades", t)
    BY DEF IInv, LossIsCounted
  <2>2. PICK i \in 1..Len(queue) : queue[i].of = t /\ queue[i].type = "TRADE"
    BY <1>1, <2>1 DEF Waiting, Rows
  <2>3. CASE i <= Taken
    <3>1. batch'[i] = Serialize(queue[i]) /\ i \in 1..Len(batch')
      BY <1>2, <1>6, <2>2, <2>3
    <3>2. batch'[i].table = "trades" /\ batch'[i].id = t
      BY <1>1, <1>4, <2>2, <3>1, SerializeFacts
    <3> QED BY <3>1, <3>2 DEF Waiting, Rows
  <2>4. CASE i > Taken
    <3>1. i - Taken \in 1..Len(queue') /\ queue'[i - Taken] = queue[i]
      BY <1>1, <1>2, <1>7, <2>2, <2>4
    <3> QED BY <2>2, <3>1 DEF Waiting
  <2> QED BY <1>2, <2>2, <2>3, <2>4
<1>12. AllFresh'
  <2> SUFFICES ASSUME Lossless, NEW o \in Order
               PROVE  Fresh(o)'
    BY <1>10 DEF AllFresh
  <2>1. Fresh(o)
    BY DEF IInv, AllFresh
  <2>2. \A i \in Rows("orders")' : batch'[i].id = o => batch'[i].version >= reported'[o]
    <3> SUFFICES ASSUME NEW i \in Rows("orders")', batch'[i].id = o
                 PROVE  batch'[i].version >= reported'[o]
      OBVIOUS
    <3>1. i \in 1..Taken /\ batch'[i].table = "orders" /\ batch'[i] = Serialize(queue[i])
          /\ queue[i] \in Event
      BY <1>2, <1>4, <1>6 DEF Rows
    <3>2. batch'[i].version = live[o]
      BY <1>1, <3>1, SerializeFacts
    <3>3. reported[o] <= live[o] /\ reported[o] \in Nat /\ live[o] \in Nat
      BY <1>1 DEF IInv, ReportsLive, TypeOK
    <3> QED BY <1>3, <3>2, <3>3
  <2>3. CASE OrderQueued(o)
    <3>1. PICK i \in 1..Len(queue) : queue[i].of = o /\ queue[i].type # "TRADE"
      BY <2>3 DEF OrderQueued
    <3>2. CASE i <= Taken
      <4>1. batch'[i] = Serialize(queue[i]) /\ i \in 1..Len(batch')
        BY <1>2, <1>6, <3>1, <3>2
      <4>2. batch'[i].table = "orders" /\ batch'[i].id = o
        BY <1>1, <1>4, <3>1, <4>1, SerializeFacts
      <4>3. OrderInBatch(o)'
        BY <4>1, <4>2 DEF OrderInBatch, Rows
      <4> QED BY <2>2, <4>3 DEF Fresh
    <3>3. CASE i > Taken
      <4>1. i - Taken \in 1..Len(queue') /\ queue'[i - Taken] = queue[i]
        BY <1>1, <1>2, <1>7, <3>1, <3>3
      <4>2. OrderQueued(o)'
        BY <3>1, <4>1 DEF OrderQueued
      <4> QED BY <4>2 DEF Fresh
    <3> QED BY <1>2, <3>1, <3>2, <3>3
  <2>4. CASE ~OrderQueued(o)
    <3>1. db_orders[o] >= reported[o]
      BY <1>1, <2>1, <2>4 DEF Fresh, OrderInBatch, Rows
    <3> QED BY <1>3, <2>2, <3>1 DEF Fresh
  <2> QED BY <2>3, <2>4
<1> QED BY <1>8, <1>9, <1>10, <1>11, <1>12 DEF IInv

\* A commit leaves every order of the batch with one of its rows, and nothing else
\* changed; its trades are in the table.
LEMMA CommittedFacts ==
    ASSUME TypeOK, Committed
    PROVE  /\ db_orders' \in [Order -> Nat]
           /\ db_trades' \subseteq Order \X Order
           /\ db_trades \subseteq db_trades'
           /\ \A i \in Rows("trades") : batch[i].id \in db_trades'
           /\ \A o \in Order : OrderInBatch(o) =>
                 \E i \in Rows("orders") : batch[i].id = o /\ db_orders'[o] = batch[i].version
           /\ \A o \in Order : ~OrderInBatch(o) => db_orders'[o] = db_orders[o]
<1>1. batch \in Seq(Row) /\ \A i \in 1..Len(batch) : batch[i] \in Row
  BY ElementOfSeq DEF TypeOK
<1>2. /\ db_orders' = [o \in Order |->
             IF OrderInBatch(o)
             THEN batch[CHOOSE i \in Rows("orders") : batch[i].id = o].version
             ELSE db_orders[o]]
      /\ db_trades' = db_trades \union {batch[i].id : i \in Rows("trades")}
  BY DEF Committed, OrderInBatch
<1>3. \A o \in Order : OrderInBatch(o) =>
        \E i \in Rows("orders") : batch[i].id = o /\ db_orders'[o] = batch[i].version
  <2> SUFFICES ASSUME NEW o \in Order, OrderInBatch(o)
               PROVE  \E i \in Rows("orders") :
                         batch[i].id = o /\ db_orders'[o] = batch[i].version
    OBVIOUS
  <2> DEFINE j == CHOOSE i \in Rows("orders") : batch[i].id = o
  <2>1. j \in Rows("orders") /\ batch[j].id = o
    BY DEF OrderInBatch
  <2> QED BY <1>2, <2>1
<1>4. \A o \in Order : ~OrderInBatch(o) => db_orders'[o] = db_orders[o]
  BY <1>2
<1>5. \A o \in Order : db_orders'[o] \in Nat
  <2> TAKE o \in Order
  <2>1. CASE OrderInBatch(o)
    <3>1. PICK i \in Rows("orders") : db_orders'[o] = batch[i].version
      BY <1>3, <2>1
    <3>2. batch[i] \in Row
      BY <1>1 DEF Rows
    <3> QED BY <3>1, <3>2 DEF Row
  <2>2. CASE ~OrderInBatch(o)
    BY <1>4, <2>2 DEF TypeOK
  <2> QED BY <2>1, <2>2
<1>6. \A i \in Rows("trades") : batch[i].id \in Order \X Order
  BY <1>1 DEF Rows, Row
<1>7. db_orders' \in [Order -> Nat]
  BY <1>2, <1>5
<1>8. db_trades' \subseteq Order \X Order /\ db_trades \subseteq db_trades'
      /\ \A i \in Rows("trades") : batch[i].id \in db_trades'
  BY <1>2, <1>6 DEF TypeOK
<1> QED BY <1>3, <1>4, <1>7, <1>8

LEMMA WriteBatchStep ==
    ASSUME IInv, WriteBatch
    PROVE  IInv'
<1>1. /\ Committed /\ batch' = <<>> /\ pc' = "next"
      /\ metrics' = [metrics EXCEPT !.batches_written = @ + 1,
                                    !.rows_written = @ + Len(batch)]
      /\ UNCHANGED <<live, resting, made, reported, queue, dropped, stop, attempt, outages>>
  BY DEF WriteBatch, engineVars
<1>2. TypeOK /\ Len(batch) \in Nat
  BY LenProperties DEF IInv, TypeOK
<1>3. /\ db_orders' \in [Order -> Nat]
      /\ db_trades' \subseteq Order \X Order
      /\ db_trades \subseteq db_trades'
      /\ \A i \in Rows("trades") : batch[i].id \in db_trades'
      /\ \A o \in Order : OrderInBatch(o) =>
            \E i \in Rows("orders") : batch[i].id = o /\ db_orders'[o] = batch[i].version
      /\ \A o \in Order : ~OrderInBatch(o) => db_orders'[o] = db_orders[o]
  BY <1>1, <1>2, CommittedFacts
<1>4. batch' \in Seq(Row) /\ Len(batch') = 0
  BY <1>1
<1>5. TypeOK'
  <2>1. metrics' \in PersistenceMetrics
    <3>1. metrics \in PersistenceMetrics
      BY <1>2 DEF TypeOK
    <3> QED BY <1>1, <1>2, <3>1, MetricsType
  <2>2. Len(batch') <= BatchSize
    BY <1>4
  <2> QED BY <1>1, <1>2, <1>3, <1>4, <2>1, <2>2 DEF TypeOK
<1>6. BatchTaken' /\ ReportsLive' /\ IsFiniteSet(resting') /\ Lossless' = Lossless
  BY <1>1, <1>2 DEF IInv, BatchTaken, ReportsLive, Lossless, TypeOK,
         PersistenceMetrics
<1>7. LossIsCounted'
  <2> SUFFICES ASSUME Lossless, NEW t \in made
               PROVE  t \in db_trades' \/ Waiting("trades", t)'
    BY <1>1, <1>6 DEF LossIsCounted
  <2>1. t \in db_trades \/ Waiting("trades", t)
    BY DEF IInv, LossIsCounted
  <2> QED BY <1>1, <1>3, <2>1 DEF Waiting
<1>8. AllFresh'
  <2> SUFFICES ASSUME Lossless, NEW o \in Order
               PROVE  Fresh(o)'
    BY <1>6 DEF AllFresh
  <2>1. Fresh(o)
    BY DEF IInv, AllFresh
  <2>2. OrderQueued(o)' = OrderQueued(o) /\ Rows("orders")' = {} /\ reported' = reported
    BY <1>1, <1>4 DEF OrderQueued, Rows
  <2>3. OrderQueued(o) \/ db_orders'[o] >= reported[o]
    BY <1>3, <2>1 DEF Fresh
  <2> QED BY <2>2, <2>3 DEF Fresh, OrderInBatch
<1> QED BY <1>5, <1>6, <1>7, <1>8 DEF IInv

\* A write that fails, whether the database refused it or the connection broke, before
\* the commit or after it.
LEMMA FailedStep ==
    ASSUME IInv, pc = "write", Failed, UNCHANGED <<engineVars, stop>>, outages' \in Nat,
           UNCHANGED <<db_orders, db_trades>> \/ Committed
    PROVE  IInv'
<1>1. TypeOK /\ BatchTaken /\ ReportsLive /\ IsFiniteSet(resting)
      /\ UNCHANGED <<live, resting, made, reported, queue, dropped, stop>>
  BY DEF IInv, engineVars
<1>2. /\ db_orders' \in [Order -> Nat]
      /\ db_trades' \subseteq Order \X Order
      /\ db_trades \subseteq db_trades'
      /\ \A o \in Order : ~OrderInBatch(o) => db_orders'[o] = db_orders[o]
  BY <1>1, CommittedFacts DEF TypeOK
<1>3. CASE attempt = MaxRetries
  <2>1. metrics' = [metrics EXCEPT !.failed_batches = @ + 1]
        /\ pc' = "next" /\ batch' = <<>> /\ attempt' = attempt
    BY <1>3 DEF Failed
  <2>2. TypeOK'
    <3>1. metrics' \in PersistenceMetrics
      <4>1. metrics \in PersistenceMetrics
        BY <1>1 DEF TypeOK
      <4> QED BY <2>1, <4>1, MetricsType
    <3>2. batch' \in Seq(Row) /\ Len(batch') <= BatchSize
      BY <2>1
    <3> QED BY <1>1, <1>2, <2>1, <3>1, <3>2 DEF TypeOK
  <2>3. ~Lossless'
    BY <1>1, <2>1 DEF Lossless, TypeOK, PersistenceMetrics
  <2> QED BY <1>1, <2>1, <2>2, <2>3
          DEF IInv, BatchTaken, ReportsLive, LossIsCounted, AllFresh
<1>4. CASE attempt # MaxRetries
  <2>1. metrics' = [metrics EXCEPT !.write_retries = @ + 1]
        /\ pc' = "backoff" /\ attempt' = attempt + 1 /\ batch' = batch
    BY <1>4 DEF Failed
  <2>2. TypeOK'
    <3>1. metrics' \in PersistenceMetrics
      <4>1. metrics \in PersistenceMetrics
        BY <1>1 DEF TypeOK
      <4> QED BY <2>1, <4>1, MetricsType
    <3>2. attempt' \in 0..MaxRetries
      BY <1>1, <1>4, <2>1 DEF TypeOK
    <3> QED BY <1>1, <1>2, <2>1, <3>1, <3>2 DEF TypeOK
  <2>3. Lossless' = Lossless /\ BatchTaken' /\ ReportsLive' /\ IsFiniteSet(resting')
    BY <1>1, <2>1 DEF Lossless, TypeOK, PersistenceMetrics, BatchTaken, ReportsLive
  <2>4. LossIsCounted'
    BY <1>1, <1>2, <2>1, <2>3 DEF IInv, LossIsCounted, Waiting, Rows
  <2>5. AllFresh'
    BY <1>1, <1>2, <2>1, <2>3 DEF IInv, AllFresh, Fresh, OrderQueued, OrderInBatch, Rows
  <2> QED BY <2>2, <2>3, <2>4, <2>5 DEF IInv
<1> QED BY <1>3, <1>4

-----------------------------------------------------------------------------
(* The theorems.                                                           *)

LEMMA InitIInv == Init => IInv
<1> SUFFICES ASSUME Init PROVE IInv
  OBVIOUS
<1>1. metrics \in PersistenceMetrics
  BY DEF Init, PersistenceMetrics
<1>2. queue \in Seq(Event) /\ Len(queue) = 0 /\ batch \in Seq(Row) /\ Len(batch) = 0
  BY DEF Init
<1>3. TypeOK
  <2>1. Len(queue) <= QueueDepth /\ Len(batch) <= BatchSize /\ attempt \in 0..MaxRetries
    BY <1>2 DEF Init
  <2> QED BY <1>1, <1>2, <2>1 DEF Init, TypeOK
<1>4. IsFiniteSet(resting)
  BY FS_EmptySet DEF Init
<1>5. ReportsLive /\ BatchTaken /\ LossIsCounted
  BY DEF Init, ReportsLive, BatchTaken, LossIsCounted
<1>6. AllFresh
  BY <1>2 DEF Init, AllFresh, Fresh, Rows
<1> QED BY <1>3, <1>4, <1>5, <1>6 DEF IInv

\* Steps that change neither the queue nor the batch nor the tables.
LEMMA QuietStep ==
    ASSUME IInv, UNCHANGED <<engineVars, batch, attempt, db_orders, db_trades, metrics, outages>>,
           stop' \in BOOLEAN, pc' \in {"next", "write", "backoff", "done"},
           pc' \in {"next", "done"} => pc \in {"next", "done"}
    PROVE  IInv'
<1>1. TypeOK' /\ IsFiniteSet(resting)'
  BY DEF IInv, engineVars, TypeOK
<1>2. BatchTaken' /\ ReportsLive'
  BY DEF IInv, engineVars, BatchTaken, ReportsLive
<1>3. LossIsCounted'
  BY DEF IInv, engineVars, LossIsCounted, Lossless, Waiting, Rows
<1>4. AllFresh'
  BY DEF IInv, engineVars, AllFresh, Lossless, Rows, Fresh, OrderQueued, OrderInBatch
<1> QED BY <1>1, <1>2, <1>3, <1>4 DEF IInv

\* The same for a step that changes nothing.
LEMMA StutterStep ==
    ASSUME IInv, UNCHANGED vars
    PROVE  IInv'
<1>1. stop \in BOOLEAN /\ pc \in {"next", "write", "backoff", "done"}
  BY DEF IInv, TypeOK
<1> QED BY <1>1, QuietStep DEF vars, engineVars, writerVars

LEMMA NextIInv == IInv /\ [Next]_vars => IInv'
<1> SUFFICES ASSUME IInv, [Next]_vars PROVE IInv'
  OBVIOUS
<1>1. ASSUME NEW o \in Order, SubmitOrder(o) PROVE IInv'
  BY <1>1, SubmitOrderStep
<1>2. ASSUME NEW o \in Order, RejectOrder(o) PROVE IInv'
  BY <1>2, RejectOrderStep
<1>3. ASSUME NEW o \in Order, CancelOrder(o) PROVE IInv'
  BY <1>3, CancelOrderStep
<1>4. CASE RequestStop
  BY <1>4, QuietStep DEF RequestStop, writerVars, IInv, TypeOK
<1>5. CASE NextBatch
  BY <1>5, NextBatchStep
<1>6. CASE Exit
  BY <1>6, QuietStep DEF Exit, IInv, TypeOK
<1>7. CASE WriteBatch
  BY <1>7, WriteBatchStep
<1>8. CASE WriteRefused
  BY <1>8, FailedStep DEF WriteRefused, IInv, TypeOK
<1>9. CASE WriteOutage
  <2>1. outages' \in Nat
    BY <1>9 DEF WriteOutage, IInv, TypeOK
  <2> QED BY <1>9, <2>1, FailedStep DEF WriteOutage
<1>10. CASE Backoff
  BY <1>10, QuietStep DEF Backoff, IInv, TypeOK
<1>11. CASE NextTimeout \/ Ended \/ UNCHANGED vars
  BY <1>11, StutterStep DEF NextTimeout, Ended
<1> QED
  BY <1>1, <1>2, <1>3, <1>4, <1>5, <1>6, <1>7, <1>8, <1>9, <1>10, <1>11
     DEF Next, Engine, Writer

LEMMA AlwaysIInv == Spec => []IInv
BY InitIInv, NextIInv, PTL DEF Spec

\* The writer's state keeps its type: the bus queue never exceeds its depth nor a
\* batch its size, and a batch is attempted at most MaxRetries + 1 times.
THEOREM WriterTyped == Spec => []TypeOK
<1>1. IInv => TypeOK
  BY DEF IInv
<1> QED BY <1>1, AlwaysIInv, PTL

\* No trade is lost without a counter showing it: through drops, retries, commits
\* whose answer is lost, batches given up and shutdown.
THEOREM LossAlwaysCounted == Spec => []LossIsCounted
<1>1. IInv => LossIsCounted
  BY DEF IInv
<1> QED BY <1>1, AlwaysIInv, PTL

\* Unless a loss was counted, an order that waits nowhere has a row at least as
\* recent as its last event: no retry brings an older state back.
THEOREM RowsAlwaysKeepUp == Spec => []RowsKeepUp
<1>1. IInv => RowsKeepUp
  <2> SUFFICES ASSUME IInv, Lossless, NEW o \in Order
               PROVE  Waiting("orders", o) \/ db_orders[o] >= reported[o]
    BY DEF RowsKeepUp
  <2>1. Fresh(o)
    BY DEF IInv, AllFresh
  <2> QED BY <2>1 DEF Fresh, OrderQueued, OrderInBatch, Waiting
<1> QED BY <1>1, AlwaysIInv, PTL
=============================================================================
