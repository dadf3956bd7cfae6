---------------------------- MODULE DomainEvents ----------------------------
(***************************************************************************)
(* How one operation of the engine becomes events in the bounded queues of *)
(* the bus: OrderService._on_engine_event (api/services/order_service.py)  *)
(* and EventBus.publish_nowait (shared/events.py).  The callback runs      *)
(* inside the engine call and never yields, so all events of an operation  *)
(* reach a queue before its consumer runs.                                 *)
(***************************************************************************)
EXTENDS Naturals, Sequences

OrderEventTypes ==
    {"ORDER_ACKED", "ORDER_FILLED", "ORDER_PARTIALLY_FILLED", "ORDER_CANCELLED",
     "ORDER_REJECTED"}

\* The classes of domain events and what an event of each refers to.
DomainEvent(orders, trades, snapshots, quotes) ==
    [type: OrderEventTypes, of: orders]
      \union [type: {"TRADE"}, of: trades]
      \union [type: {"BOOK_UPDATE"}, of: snapshots]
      \union [type: {"TICKER"}, of: quotes]

\* The envelope of one engine operation: the order it is about, the trades of
\* its match result, and the snapshot of the book it leaves behind.
EngineEvent(type, order, trades, snapshot) ==
    [type |-> type, order |-> order, trades |-> trades, snapshot |-> snapshot]

\* The event type of a submit that was not rejected.
AckType(trades, remaining) ==
    IF trades = <<>> THEN "ORDER_ACKED"
    ELSE IF remaining = 0 THEN "ORDER_FILLED" ELSE "ORDER_PARTIALLY_FILLED"

\* Events of one type, as they reach a queue subscribed to types.
Subscribed(events, type, types) == IF type \in types THEN events ELSE <<>>

\* What _on_engine_event publishes to such a queue: a rejection is one event and has
\* no snapshot; otherwise the trades come first, then the event of the order itself,
\* then the book.  The resting orders a submit trades with get no event of their own.
Translate(e, types) ==
    IF e.type = "ORDER_REJECTED"
    THEN Subscribed(<<[type |-> e.type, of |-> e.order]>>, e.type, types)
    ELSE Subscribed([i \in 1..Len(e.trades) |-> [type |-> "TRADE", of |-> e.trades[i]]],
                    "TRADE", types)
            \o Subscribed(<<[type |-> e.type, of |-> e.order]>>, e.type, types)
            \o Subscribed(<<[type |-> "BOOK_UPDATE", of |-> e.snapshot]>>,
                          "BOOK_UPDATE", types)

\* Mutant: the queue takes one event more than its depth.
AdmittedOneMore(queue, events, depth) ==
    LET all == queue \o events
    IN  IF Len(all) <= depth + 1 THEN all ELSE SubSeq(all, 1, depth + 1)

\* put_nowait of each event in turn: what does not fit is dropped.
Admitted(queue, events, depth) ==
    LET all == queue \o events
    IN  IF Len(all) <= depth THEN all ELSE SubSeq(all, 1, depth)

\* The number of events dropped.
Shed(queue, events, depth) ==
    IF Len(queue) + Len(events) <= depth THEN 0
    ELSE Len(queue) + Len(events) - depth
=============================================================================
