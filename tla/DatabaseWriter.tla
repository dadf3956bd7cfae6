--------------------------- MODULE DatabaseWriter ---------------------------
(***************************************************************************)
(* AsyncDatabaseWriter and PostgresCoreSink (infra/db/writer.py): the      *)
(* events of the engine wait in a bounded queue, are turned into rows and  *)
(* written in batches, with retries, while the engine goes on.  Every      *)
(* await of the writer is a place where engine operations come in between. *)
(*                                                                         *)
(* An event refers to the live Order object, so the row shows the order as *)
(* it is when the batch is built.  live counts the changes of the object;  *)
(* a row carries the count it was built with.                              *)
(***************************************************************************)
EXTENDS DomainEvents, FiniteSets, SequencesExt

CONSTANTS
    Order,       \* the orders clients submit, each once
    QueueDepth,  \* the depth of the bus queue
    BatchSize,   \* WriterConfig.batch_size
    MaxRetries,  \* WriterConfig.max_retries
    MaxOutages   \* bound: the writes that fail although the batch is good

ASSUME QueueDepthAssumption == QueueDepth \in Nat \ {0}
ASSUME BatchSizeAssumption  == BatchSize \in Nat \ {0}
ASSUME RetriesAssumption    == MaxRetries \in Nat
ASSUME OutagesAssumption    == MaxOutages \in Nat

VARIABLES
    live,       \* order -> the changes of the Order object, 0 before submission
    resting,    \* the orders in the book
    made,       \* history: the trades the engine has made
    reported,   \* history: order -> live at its last event on the bus
    queue,      \* the bus queue of the writer
    dropped,    \* events the bus dropped
    stop,       \* _stop_requested
    pc,         \* the writer: waiting for a batch, writing, backing off, done
    batch,      \* the rows of the batch being written
    attempt,    \* the attempt at it
    db_orders,  \* order -> the count its row carries, 0 when it has none
    db_trades,  \* the trades table
    metrics,    \* PersistenceMetrics
    outages     \* history: good writes that failed

engineVars == <<live, resting, made, reported, queue, dropped>>
writerVars == <<pc, batch, attempt, db_orders, db_trades, metrics, outages>>
vars == <<engineVars, stop, writerVars>>

-----------------------------------------------------------------------------
(* The engine and the bus, as the writer sees them.                        *)

SubscribedTypes == OrderEventTypes \union {"TRADE"}

\* The engine callback, publishing to the writer's queue.
Emit(e) ==
    LET events == Translate(e, SubscribedTypes)
    IN  /\ queue' = Admitted(queue, events, QueueDepth)
        /\ dropped' = dropped + Shed(queue, events, QueueDepth)

\* submit_order of a new order that trades with makers, resting orders.  All of
\* them leave the book, but for one when the order itself is filled; what the
\* order still wants rests or is dropped.
SubmitOrder(o) ==
    /\ ~stop
    /\ live[o] = 0
    /\ \E makers \in SUBSET resting, remaining \in {0, 1} :
          LET fills == SetToSeq({<<m, o>> : m \in makers})
          IN  /\ remaining = 0 => makers # {}
              /\ live' = [p \in Order |-> IF p = o THEN 1
                             ELSE IF p \in makers THEN live[p] + 1 ELSE live[p]]
              /\ made' = made \union ToSet(fills)
              /\ IF remaining = 0
                 THEN \E partly \in SUBSET makers :
                        /\ Cardinality(partly) <= 1
                        /\ resting' = (resting \ makers) \union partly
                 ELSE \E residual \in SUBSET {o} :
                        resting' = (resting \ makers) \union residual
              /\ Emit(EngineEvent(AckType(fills, remaining), o, fills, "book"))
    /\ reported' = [reported EXCEPT ![o] = 1]
    /\ UNCHANGED <<stop, writerVars>>

RejectOrder(o) ==
    /\ ~stop
    /\ live[o] = 0
    /\ live' = [live EXCEPT ![o] = 1]
    /\ reported' = [reported EXCEPT ![o] = 1]
    /\ Emit(EngineEvent("ORDER_REJECTED", o, <<>>, "none"))
    /\ UNCHANGED <<resting, made, stop, writerVars>>

CancelOrder(o) ==
    /\ ~stop
    /\ o \in resting
    /\ live' = [live EXCEPT ![o] = @ + 1]
    /\ reported' = [reported EXCEPT ![o] = live[o] + 1]
    /\ resting' = resting \ {o}
    /\ Emit(EngineEvent("ORDER_CANCELLED", o, <<>>, "book"))
    /\ UNCHANGED <<made, stop, writerVars>>

\* Shutdown: requests and strategies have stopped, then the writer is told.
RequestStop == ~stop /\ stop' = TRUE /\ UNCHANGED <<engineVars, writerVars>>

-----------------------------------------------------------------------------
(* The writer.                                                             *)

\* serialize_event: a row for the trades table, or one for the orders table
\* that shows the order as it is now.
Serialize(ev) ==
    IF ev.type = "TRADE" THEN [table |-> "trades", id |-> ev.of, version |-> 0]
    ELSE [table |-> "orders", id |-> ev.of, version |-> live[ev.of]]

\* How many events the next batch takes from the queue.
Taken == IF Len(queue) < BatchSize THEN Len(queue) ELSE BatchSize

\* _next_batch: everything that waits, up to the batch size.
NextBatch ==
    /\ pc = "next"
    /\ queue # <<>>
    /\ batch' = [i \in 1..Taken |-> Serialize(queue[i])]
    /\ queue' = SubSeq(queue, Taken + 1, Len(queue))
    /\ metrics' = [metrics EXCEPT !.events_consumed = @ + Taken]
    /\ attempt' = 0
    /\ pc' = "write"
    /\ UNCHANGED <<live, resting, made, reported, dropped, stop, db_orders,
                   db_trades, outages>>

\* The flush interval passes with nothing to write.
NextTimeout == pc = "next" /\ queue = <<>> /\ ~stop /\ UNCHANGED vars

\* Mutant: the loop ends as soon as stop is requested.
MayExitAtOnce == stop

\* The condition that ends run.
MayExit == stop /\ queue = <<>>

Exit ==
    /\ pc = "next"
    /\ MayExit
    /\ pc' = "done"
    /\ UNCHANGED <<engineVars, stop, batch, attempt, db_orders, db_trades,
                   metrics, outages>>

Rows(table) == {i \in 1..Len(batch) : batch[i].table = table}

\* PostgreSQL refuses an INSERT ... ON CONFLICT DO UPDATE that would touch the
\* same row twice.
Refused ==
    \E i, j \in Rows("orders") : i # j /\ batch[i].id = batch[j].id

\* Mutant: a row that is there already is left alone.
CommittedFirstWins ==
    /\ db_orders' = [o \in Order |->
          IF db_orders[o] = 0 /\ \E i \in Rows("orders") : batch[i].id = o
          THEN batch[CHOOSE i \in Rows("orders") : batch[i].id = o].version
          ELSE db_orders[o]]
    /\ db_trades' = db_trades \union {batch[i].id : i \in Rows("trades")}

\* The transaction of write_batch: orders are inserted or updated, trades
\* inserted unless they are there.
Committed ==
    /\ db_orders' = [o \in Order |->
          IF \E i \in Rows("orders") : batch[i].id = o
          THEN batch[CHOOSE i \in Rows("orders") : batch[i].id = o].version
          ELSE db_orders[o]]
    /\ db_trades' = db_trades \union {batch[i].id : i \in Rows("trades")}

WriteBatch ==
    /\ pc = "write"
    /\ ~Refused
    /\ Committed
    /\ metrics' = [metrics EXCEPT !.batches_written = @ + 1,
                                  !.rows_written = @ + Len(batch)]
    /\ batch' = <<>>
    /\ pc' = "next"
    /\ UNCHANGED <<engineVars, stop, attempt, outages>>

\* Mutant: a batch that is given up is not counted.
FailedUncounted ==
    IF attempt = MaxRetries
    THEN pc' = "next" /\ batch' = <<>> /\ UNCHANGED <<metrics, attempt>>
    ELSE /\ metrics' = [metrics EXCEPT !.write_retries = @ + 1]
         /\ pc' = "backoff" /\ attempt' = attempt + 1 /\ UNCHANGED batch

\* The except branch of _persist_with_retry.
Failed ==
    IF attempt = MaxRetries
    THEN /\ metrics' = [metrics EXCEPT !.failed_batches = @ + 1]
         /\ pc' = "next" /\ batch' = <<>> /\ UNCHANGED attempt
    ELSE /\ metrics' = [metrics EXCEPT !.write_retries = @ + 1]
         /\ pc' = "backoff" /\ attempt' = attempt + 1 /\ UNCHANGED batch

WriteRefused ==
    /\ pc = "write"
    /\ Refused
    /\ Failed
    /\ UNCHANGED <<engineVars, stop, db_orders, db_trades, outages>>

\* The database is away; or it commits and the connection breaks before it says so.
WriteOutage ==
    /\ pc = "write"
    /\ ~Refused
    /\ outages < MaxOutages
    /\ outages' = outages + 1
    /\ UNCHANGED <<db_orders, db_trades>> \/ Committed
    /\ Failed
    /\ UNCHANGED <<engineVars, stop>>

Backoff ==
    /\ pc = "backoff"
    /\ pc' = "write"
    /\ UNCHANGED <<engineVars, stop, batch, attempt, db_orders, db_trades,
                   metrics, outages>>

-----------------------------------------------------------------------------
Init ==
    /\ live = [o \in Order |-> 0]
    /\ resting = {}
    /\ made = {}
    /\ reported = [o \in Order |-> 0]
    /\ queue = <<>>
    /\ dropped = 0
    /\ stop = FALSE
    /\ pc = "next"
    /\ batch = <<>>
    /\ attempt = 0
    /\ db_orders = [o \in Order |-> 0]
    /\ db_trades = {}
    /\ metrics = [events_consumed |-> 0, rows_written |-> 0,
                  batches_written |-> 0, write_retries |-> 0,
                  failed_batches |-> 0]
    /\ outages = 0

Engine == \E o \in Order : SubmitOrder(o) \/ RejectOrder(o) \/ CancelOrder(o)

Writer ==
    \/ NextBatch
    \/ Exit
    \/ WriteBatch
    \/ WriteRefused
    \/ WriteOutage
    \/ Backoff

\* After the writer's task has ended nothing happens any more.
Ended == pc = "done" /\ UNCHANGED vars

Next == Engine \/ RequestStop \/ Writer \/ NextTimeout \/ Ended

\* The writer is a task of the event loop and always gets to run again.
Spec == Init /\ [][Next]_vars /\ WF_vars(Writer)

-----------------------------------------------------------------------------
(* Properties.                                                             *)

Row == [table: {"orders"}, id: Order, version: Nat]
          \union [table: {"trades"}, id: Order \X Order, version: {0}]

Event == {e \in DomainEvent(Order, Order \X Order, {}, {}) : e.type \in SubscribedTypes}

PersistenceMetrics ==
    [events_consumed: Nat, rows_written: Nat, batches_written: Nat,
     write_retries: Nat, failed_batches: Nat]

\* The type invariant; the bus queue and the batch keep within their bounds.
TypeOK ==
    /\ live \in [Order -> Nat]
    /\ resting \subseteq Order
    /\ made \subseteq Order \X Order
    /\ reported \in [Order -> Nat]
    /\ queue \in Seq(Event) /\ Len(queue) <= QueueDepth
    /\ dropped \in Nat
    /\ stop \in BOOLEAN
    /\ pc \in {"next", "write", "backoff", "done"}
    /\ batch \in Seq(Row) /\ Len(batch) <= BatchSize
    /\ attempt \in 0..MaxRetries
    /\ db_orders \in [Order -> Nat]
    /\ db_trades \subseteq Order \X Order
    /\ metrics \in PersistenceMetrics
    /\ outages \in Nat

\* Row x of a table waits: its event is in the queue, or the row in the batch.
Waiting(table, x) ==
    \/ \E i \in 1..Len(queue) :
          queue[i].of = x /\ (queue[i].type = "TRADE") = (table = "trades")
    \/ \E i \in Rows(table) : batch[i].id = x

Lossless == dropped = 0 /\ metrics.failed_batches = 0

\* Whatever fails, retries or races with shutdown, a trade is missing from the
\* database only while it waits or when a drop or a failed batch was counted.
LossIsCounted ==
    Lossless => \A t \in made : t \in db_trades \/ Waiting("trades", t)

\* Unless a loss was counted, an order that no longer waits has a row at least
\* as recent as its last event: a retry never brings an older state back.
RowsKeepUp ==
    Lossless => \A o \in Order :
        Waiting("orders", o) \/ db_orders[o] >= reported[o]

\* request_stop is followed by the end of the task, with the queue drained
\* ("Run until shutdown is requested and every already-queued event flushes").
StopDrains == stop ~> (pc = "done" /\ queue = <<>>)

-----------------------------------------------------------------------------
(* What the documentation promises and the code does not do.               *)

\* "every already-queued event flushes" (docstring of run): with a database that
\* never fails, and no drops, every event has its row when the task ends.
FlushesEverything ==
    (pc = "done" /\ outages = 0 /\ dropped = 0) =>
        made \subseteq db_trades /\ \A o \in Order : db_orders[o] >= reported[o]
=============================================================================
