----------------------------- MODULE BookStream -----------------------------
(***************************************************************************)
(* From the engine's books to the book a dashboard shows:                  *)
(*   - the bus queue of ws_broadcast_loop (api/main.py), which drops: book *)
(*     updates share it with the trades and order events of the engine and *)
(*     the tickers of MarketDataPublisher (engine/market_data/publisher.py); *)
(*   - BookDeltaProjector (api/services/book_stream_service.py), which     *)
(*     turns each snapshot into the changes since the previous one;        *)
(*   - the WebSocket endpoint (api/routers/market_data.py), which sends a  *)
(*     snapshot taken straight from the engine on subscription;            *)
(*   - the client hook (frontend/src/hooks/useMarketData.ts), which applies *)
(*     a delta when its previous_sequence is the one the client has.       *)
(*                                                                         *)
(* The endpoint and the broadcast loop are tasks of one event loop: each   *)
(* await is a step boundary.  One client is followed; a connection is      *)
(* reliable and in order until it breaks.  Messages that are not about the *)
(* book are followed until they are sent: the client shows them elsewhere. *)
(***************************************************************************)
EXTENDS DomainEvents, FiniteSets

CONSTANTS
    Symbols,     \* the registered symbols, in order of registration
    Mine,        \* the symbol the dashboard is about
    Price,       \* the prices of levels
    MaxLevel,    \* bound: the quantity at a level
    QueueDepth,  \* the depth of the bus queue
    MaxOps,      \* bound: engine operations and ticks
    MaxConnects, \* bound: connections the client opens
    None

Symbol == {Symbols[i] : i \in 1..Len(Symbols)}

ASSUME SymbolsAssumption == Symbols \in Seq(Symbol) /\ Mine \in Symbol
ASSUME BoundsAssumption ==
    QueueDepth \in Nat \ {0} /\ {MaxLevel, MaxOps, MaxConnects} \subseteq Nat

\* The image of a book, to the depth of a snapshot: what is at each price, its
\* quantity and order count taken together, 0 where there is no level.
Levels == [Price -> 0..MaxLevel]

\* A BookSnapshot, as events carry it.
Image == [sequence: Nat, levels: Levels]

\* The messages of the broadcast loop and the endpoint: an image, the changes from one
\* image to the next, and what is not about the book.
Message ==
    [type: {"BOOK_SNAPSHOT"}, symbol: Symbol, sequence: Nat, levels: Levels]
      \union [type: {"BOOK_DELTA"}, symbol: Symbol, previous_sequence: Nat, sequence: Nat,
              changes: UNION {[changed -> 0..MaxLevel] : changed \in SUBSET Price}]
      \union [type: {"TRADE", "ORDER_ACK", "TICKER"}, symbol: Symbol]

\* A message on its way to its targets, and whether the client is among them.
Sending == [message: Message, reaches: BOOLEAN]

\* The book the client keeps.
ClientBook == [symbol: Symbol, sequence: Nat, levels: Levels]

ASSUME NoneAssumption == None \notin Message \union Sending \union ClientBook

VARIABLES
    book,      \* symbol -> the engine's book: sequence and levels
    ops,       \* engine operations and ticks so far
    queue,     \* the bus queue of the broadcast loop
    dropped,   \* events the bus dropped
    prior,     \* symbol -> the snapshot last projected, or None
    sending,   \* the message the broadcast loop is sending, or None
    todo,      \* what the endpoint still has to do for the client, in order
    subs,      \* the symbols whose broadcasts reach the connection
    channel,   \* messages sent and not yet received
    connects,  \* connections opened so far
    connected, \* whether the connection is up
    client,    \* the client's book, or None
    missed     \* history: the newest sequence of a delta the client ignored

vars == <<book, ops, queue, dropped, prior, sending, todo, subs, channel,
          connects, connected, client, missed>>

Empty == [p \in Price |-> 0]

-----------------------------------------------------------------------------
(* The engine and the publisher of tickers.                                *)

\* publish_nowait of events, in turn.
Publish(events) ==
    /\ queue' = Admitted(queue, events, QueueDepth)
    /\ dropped' = dropped + Shed(queue, events, QueueDepth)

SubscribedTypes == OrderEventTypes \union {"TRADE", "BOOK_UPDATE", "TICKER"}

\* The domain events of an operation on the book of symbol s.
EventsOf(s, e) ==
    LET events == Translate(e, SubscribedTypes)
    IN  [i \in 1..Len(events) |->
            [type |-> events[i].type, symbol |-> s, of |-> events[i].of]]

\* A submit takes a new sequence number and may change any levels; it trades or not.
SubmitOrder(s) ==
    /\ ops < MaxOps
    /\ ops' = ops + 1
    /\ \E levels \in Levels :
          book' = [book EXCEPT ![s] = [sequence |-> @.sequence + 1, levels |-> levels]]
    /\ \E trades \in {<<>>, <<"trade">>} :
          Publish(EventsOf(s, EngineEvent(AckType(trades, 0), "order", trades, book'[s])))
    /\ UNCHANGED <<prior, sending, todo, subs, channel, connects, connected,
                   client, missed>>

\* A cancel takes quantity off one level and keeps the sequence number.
CancelOrder(s) ==
    /\ ops < MaxOps
    /\ ops' = ops + 1
    /\ \E p \in Price, q \in 0..MaxLevel :
          /\ q < book[s].levels[p]
          /\ book' = [book EXCEPT ![s].levels[p] = q]
    /\ Publish(EventsOf(s, EngineEvent("ORDER_CANCELLED", "order", <<>>, book'[s])))
    /\ UNCHANGED <<prior, sending, todo, subs, channel, connects, connected,
                   client, missed>>

\* A rejected submit leaves the book alone.
RejectOrder(s) ==
    /\ ops < MaxOps
    /\ ops' = ops + 1
    /\ Publish(EventsOf(s, EngineEvent("ORDER_REJECTED", "order", <<>>, None)))
    /\ UNCHANGED <<book, prior, sending, todo, subs, channel, connects,
                   connected, client, missed>>

\* One round of MarketDataPublisher.run: a tick of the feed of every symbol.
PublishTicks ==
    /\ ops < MaxOps
    /\ ops' = ops + 1
    /\ Publish([i \in 1..Len(Symbols) |->
                   [type |-> "TICKER", symbol |-> Symbols[i], of |-> None]])
    /\ UNCHANGED <<book, prior, sending, todo, subs, channel, connects,
                   connected, client, missed>>

-----------------------------------------------------------------------------
(* ws_broadcast_loop and BookDeltaProjector.                               *)

BookMessages == {"BOOK_SNAPSHOT", "BOOK_DELTA"}

SnapshotMessage(s, snapshot) ==
    [type |-> "BOOK_SNAPSHOT", symbol |-> s, sequence |-> snapshot.sequence,
     levels |-> snapshot.levels]

\* Mutant: a level that has gone is not reported.
ChangesKept(previous, current) ==
    [p \in {p \in Price : current[p] # previous[p] /\ current[p] # 0} |-> current[p]]

\* _changes: the levels that differ, with quantity 0 for one that has gone.
Changes(previous, current) ==
    [p \in {p \in Price : current[p] # previous[p]} |-> current[p]]

\* BookDeltaProjector.project
Project(s, snapshot) ==
    IF prior[s] = None THEN SnapshotMessage(s, snapshot)
    ELSE [type |-> "BOOK_DELTA", symbol |-> s,
          previous_sequence |-> prior[s].sequence, sequence |-> snapshot.sequence,
          changes |-> Changes(prior[s].levels, snapshot.levels)]

\* _to_ws_message: trades, order events and tickers have a message, rejections none.
ToWsMessage(e) ==
    CASE e.type \in {"TRADE", "TICKER"} -> [type |-> e.type, symbol |-> e.symbol]
      [] e.type \in OrderEventTypes \ {"ORDER_REJECTED"} ->
            [type |-> "ORDER_ACK", symbol |-> e.symbol]
      [] OTHER -> None

\* The loop takes an event, projects or translates it, and when there is a message
\* fixes the targets of its broadcast.
TakeEvent ==
    /\ sending = None
    /\ queue # <<>>
    /\ LET e == Head(queue)
           message == IF e.type = "BOOK_UPDATE" THEN Project(e.symbol, e.of)
                      ELSE ToWsMessage(e)
       IN  /\ prior' = IF e.type = "BOOK_UPDATE" THEN [prior EXCEPT ![e.symbol] = e.of]
                       ELSE prior
           /\ sending' = IF message = None THEN None
                         ELSE [message |-> message,
                               reaches |-> connected /\ e.symbol \in subs]
    /\ queue' = Tail(queue)
    /\ UNCHANGED <<book, ops, dropped, todo, subs, channel, connects, connected,
                   client, missed>>

\* The send to this client, after any number of sends to others.
Send ==
    /\ sending # None
    /\ channel' = IF sending.reaches /\ sending.message.type \in BookMessages
                  THEN Append(channel, sending.message) ELSE channel
    /\ sending' = None
    /\ UNCHANGED <<book, ops, queue, dropped, prior, todo, subs, connects,
                   connected, client, missed>>

-----------------------------------------------------------------------------
(* The client opens a connection, and the endpoint serves it.              *)

\* onopen: the hook asks for its own symbol and then for all of them.
Connect ==
    /\ ~connected
    /\ connects < MaxConnects
    /\ connects' = connects + 1
    /\ connected' = TRUE
    /\ todo' = <<[action |-> "subscribe", symbol |-> Mine],
                 [action |-> "subscribe_all", symbol |-> Mine]>>
    /\ UNCHANGED <<book, ops, queue, dropped, prior, sending, subs, channel,
                   client, missed>>

\* The connection breaks: what was under way is lost, the client keeps its book.
Disconnect ==
    /\ connected
    /\ connects < MaxConnects
    /\ connected' = FALSE
    /\ todo' = <<>>
    /\ subs' = {}
    /\ channel' = <<>>
    /\ sending' = IF sending = None THEN None ELSE [sending EXCEPT !.reaches = FALSE]
    /\ UNCHANGED <<book, ops, queue, dropped, prior, connects, client, missed>>

\* "subscribe": the client is subscribed first, then the engine's snapshot of the
\* moment is sent.
Subscribe ==
    /\ todo # <<>>
    /\ Head(todo).action = "subscribe"
    /\ subs' = subs \union {Head(todo).symbol}
    /\ channel' = Append(channel, SnapshotMessage(Head(todo).symbol, book[Head(todo).symbol]))
    /\ todo' = Tail(todo)
    /\ UNCHANGED <<book, ops, queue, dropped, prior, sending, connects,
                   connected, client, missed>>

\* "subscribe_all": all symbols, then one snapshot per registered symbol, each
\* taken when its turn comes.
SubscribeAll ==
    /\ todo # <<>>
    /\ Head(todo).action = "subscribe_all"
    /\ subs' = Symbol
    /\ todo' = [i \in 1..Len(Symbols) |-> [action |-> "snapshot", symbol |-> Symbols[i]]]
                  \o Tail(todo)
    /\ UNCHANGED <<book, ops, queue, dropped, prior, sending, channel, connects,
                   connected, client, missed>>

SendSnapshot ==
    /\ todo # <<>>
    /\ Head(todo).action = "snapshot"
    /\ channel' = Append(channel, SnapshotMessage(Head(todo).symbol, book[Head(todo).symbol]))
    /\ todo' = Tail(todo)
    /\ UNCHANGED <<book, ops, queue, dropped, prior, sending, subs, connects,
                   connected, client, missed>>

-----------------------------------------------------------------------------
(* The client: onmessage, applySnapshot, applyDelta.                       *)

\* Mutant: quantity 0 does not delete the level.
AppliedWithoutDeletes(levels, changes) ==
    [p \in Price |-> IF p \in DOMAIN changes /\ changes[p] # 0
                     THEN changes[p] ELSE levels[p]]

Applied(levels, changes) ==
    [p \in Price |-> IF p \in DOMAIN changes THEN changes[p] ELSE levels[p]]

\* A snapshot replaces the book, of whatever symbol it is.
ReceiveSnapshot(m) ==
    /\ m.type = "BOOK_SNAPSHOT"
    /\ client' = [symbol |-> m.symbol, sequence |-> m.sequence, levels |-> m.levels]
    /\ UNCHANGED missed

\* Mutant: the client does not look for gaps.
ContiguousAlways(m) == client # None

\* The delta continues the client's book; its symbol is not looked at.
Contiguous(m) == client # None /\ m.previous_sequence = client.sequence

ReceiveDelta(m) ==
    /\ m.type = "BOOK_DELTA"
    /\ IF Contiguous(m)
       THEN /\ client' = [client EXCEPT !.sequence = m.sequence,
                                        !.levels = Applied(@, m.changes)]
            /\ UNCHANGED missed
       ELSE /\ missed' = IF m.sequence > missed THEN m.sequence ELSE missed
            /\ UNCHANGED client

Receive ==
    /\ channel # <<>>
    /\ ReceiveSnapshot(Head(channel)) \/ ReceiveDelta(Head(channel))
    /\ channel' = Tail(channel)
    /\ UNCHANGED <<book, ops, queue, dropped, prior, sending, todo, subs,
                   connects, connected>>

-----------------------------------------------------------------------------
Init ==
    /\ book = [s \in Symbol |-> [sequence |-> 0, levels |-> Empty]]
    /\ ops = 0
    /\ queue = <<>>
    /\ dropped = 0
    /\ prior = [s \in Symbol |-> None]
    /\ sending = None
    /\ todo = <<>>
    /\ subs = {}
    /\ channel = <<>>
    /\ connects = 0
    /\ connected = FALSE
    /\ client = None
    /\ missed = 0

Engine == \E s \in Symbol : SubmitOrder(s) \/ CancelOrder(s) \/ RejectOrder(s)
Broadcast == TakeEvent \/ Send
Endpoint == Subscribe \/ SubscribeAll \/ SendSnapshot

\* Everything is quiet, and the bounds are used up.
Quiet ==
    /\ ops = MaxOps /\ connects = MaxConnects /\ connected
    /\ queue = <<>> /\ sending = None /\ todo = <<>> /\ channel = <<>>

Next ==
    \/ Engine
    \/ PublishTicks
    \/ Broadcast
    \/ Connect
    \/ Disconnect
    \/ Endpoint
    \/ Receive
    \/ Quiet /\ UNCHANGED vars

\* The tasks of the event loop run, the client reconnects and reads; the engine
\* and the network need not do anything.
Spec ==
    /\ Init /\ [][Next]_vars
    /\ WF_vars(Broadcast) /\ WF_vars(Endpoint) /\ WF_vars(Receive) /\ WF_vars(Connect)

-----------------------------------------------------------------------------
(* Properties.                                                             *)

Delivered(s) ==
    /\ connected /\ todo = <<>> /\ channel = <<>>
    /\ sending = None \/ sending.message.symbol # s
    /\ \A i \in 1..Len(queue) : queue[i].symbol # s

\* However subscriptions, snapshots, queued deltas, cancels that keep the sequence
\* number and reconnections interleave: a client that has received everything
\* shows the engine's book, unless the bus has counted a drop.
ClientConverges ==
    (Delivered(Mine) /\ dropped = 0) =>
        /\ client # None
        /\ client.sequence = book[Mine].sequence
        /\ client.levels = book[Mine].levels

\* Deltas that were queued before the client's snapshot was taken are still on
\* their way behind it: none of them takes the client back to an older sequence.
DeltasNeverGoBack ==
    [][(/\ client # None /\ client' # client /\ channel # <<>>
        /\ Head(channel).type = "BOOK_DELTA")
       => client'.sequence >= client.sequence]_vars

\* As long as nothing is dropped, the dashboard comes to show the engine's book.
ClientCatchesUp ==
    (<>[](ops = MaxOps) /\ [](dropped = 0)) =>
        <>[](client # None /\ client.levels = book[Mine].levels)

-----------------------------------------------------------------------------
(* What the documentation promises and the code does not do.               *)

\* "Gap detected - we'll get a new snapshot shortly from server"
\* (useMarketData.ts): a client that ignored a delta newer than its book gets
\* there in the end.
GapHeals ==
    (client # None /\ missed > client.sequence)
        ~> (client # None /\ missed <= client.sequence)

\* The hook "subscribes to a symbol, and maintains local state for: Book": what
\* it shows is the book of that symbol.
ShowsItsSymbol == client # None => client.symbol = Mine
=============================================================================
