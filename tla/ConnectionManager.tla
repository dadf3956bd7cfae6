-------------------------- MODULE ConnectionManager --------------------------
(***************************************************************************)
(* WebSocket clients: ConnectionManager (api/websocket/manager.py), the    *)
(* endpoint coroutine of each socket (api/routers/market_data.py) and the  *)
(* three background loops that broadcast to them (api/main.py).            *)
(*                                                                         *)
(* Everything runs on one event loop, so a step is what happens between    *)
(* two awaits: an accept, a receive or the send to one client.  A          *)
(* broadcast works on a copy of the subscriber set and removes the sockets *)
(* that failed once it is through.  Message contents are left out: they    *)
(* are the subject of BookStream.                                          *)
(***************************************************************************)
EXTENDS Integers, FiniteSets, Sequences, SequencesExt

CONSTANTS
    Client,   \* WebSocket objects; a client that reconnects is another one
    Symbol,   \* the symbols clients may name
    Listed,   \* the symbols of the engine, which have a snapshot
    Loop      \* the background loops that broadcast

\* ws_broadcast_loop, heartbeat_loop, latency_push_loop
ASSUME LoopAssumption == Loop \subseteq {"events", "heartbeat", "latency"}
ASSUME ListedAssumption == Listed \subseteq Symbol

\* The endpoint upper-cases every symbol it is given: none reads "all".
ASSUME SymbolAssumption == "all" \notin Symbol

VARIABLES
    connections,  \* _connections: client -> the symbols it subscribed to
    symbol_subs,  \* _symbol_subs: symbol -> clients
    global_subs,  \* _global_subs
    endpoint,     \* client -> where its websocket_endpoint coroutine awaits
    sends,        \* client -> the personal messages its endpoint has yet to send
    todo,         \* loop -> the clients its broadcast has yet to send to
    dead,         \* loop -> the clients that failed in this broadcast
    peer,         \* client -> the state of its socket
    wants         \* history: client -> what it asked for, "all" for every symbol

subs == <<connections, symbol_subs, global_subs>>
vars == <<subs, endpoint, sends, todo, dead, peer, wants>>

Connected(w) == w \in DOMAIN connections

-----------------------------------------------------------------------------
(* ConnectionManager                                                       *)

\* disconnect of every client in gone; of one that is not there, nothing.
Disconnect(gone) ==
    /\ connections' = Restrict(connections, DOMAIN connections \ gone)
    /\ symbol_subs' = [s \in Symbol |->
          symbol_subs[s] \ {w \in gone : Connected(w) /\ s \in connections[w]}]
    /\ global_subs' = global_subs \ gone

\* Mutant: subscribe does not look whether the client is connected.
AddUnchecked(w, s) ==
    /\ connections' = IF Connected(w)
                      THEN [connections EXCEPT ![w] = @ \union {s}] ELSE connections
    /\ symbol_subs' = [symbol_subs EXCEPT ![s] = @ \union {w}]
    /\ UNCHANGED global_subs

\* subscribe
Add(w, s) ==
    IF Connected(w)
    THEN /\ connections' = [connections EXCEPT ![w] = @ \union {s}]
         /\ symbol_subs' = [symbol_subs EXCEPT ![s] = @ \union {w}]
         /\ UNCHANGED global_subs
    ELSE UNCHANGED subs

\* unsubscribe
Discard(w, s) ==
    IF Connected(w)
    THEN /\ connections' = [connections EXCEPT ![w] = @ \ {s}]
         /\ symbol_subs' = [symbol_subs EXCEPT ![s] = @ \ {w}]
         /\ UNCHANGED global_subs
    ELSE UNCHANGED subs

-----------------------------------------------------------------------------
(* The sockets, as the server (uvicorn) shows them to the coroutines.      *)

Open(w) ==
    /\ peer[w] = "none"
    /\ peer' = [peer EXCEPT ![w] = "open"]
    /\ endpoint' = [endpoint EXCEPT ![w] = "accept"]
    /\ UNCHANGED <<subs, sends, todo, dead, wants>>

\* A client stops reading: a send to it waits.
Stall(w) ==
    /\ peer[w] = "open"
    /\ peer' = [peer EXCEPT ![w] = "stalled"]
    /\ UNCHANGED <<subs, endpoint, sends, todo, dead, wants>>

\* It reads again, or its pings time out.
Unstall(w) ==
    /\ peer[w] = "stalled"
    /\ \E p \in {"open", "gone"} : peer' = [peer EXCEPT ![w] = p]
    /\ UNCHANGED <<subs, endpoint, sends, todo, dead, wants>>

Leave(w) ==
    /\ peer[w] = "open"
    /\ peer' = [peer EXCEPT ![w] = "gone"]
    /\ UNCHANGED <<subs, endpoint, sends, todo, dead, wants>>

\* Mutant: a send to a client that has gone never ends.
SendNeverFails(w, fails) == peer[w] = "open" /\ ~fails

\* How send_text may end: to a client that has gone it may raise, or be lost.
SendEnds(w, fails) ==
    /\ peer[w] # "stalled"
    /\ fails => peer[w] = "gone"

-----------------------------------------------------------------------------
(* websocket_endpoint                                                      *)

\* connect: accept, then the entry in _connections.
Accepted(w) ==
    /\ endpoint[w] = "accept"
    /\ connections' = [c \in DOMAIN connections \union {w} |->
                          IF c = w THEN {} ELSE connections[c]]
    /\ endpoint' = [endpoint EXCEPT ![w] = "receive"]
    /\ UNCHANGED <<symbol_subs, global_subs, sends, todo, dead, peer, wants>>

AcceptFails(w) ==
    /\ endpoint[w] = "accept"
    /\ peer[w] = "gone"
    /\ endpoint' = [endpoint EXCEPT ![w] = "done"]
    /\ UNCHANGED <<subs, sends, todo, dead, peer, wants>>

\* The endpoint has n personal messages to send before it receives again.
Answer(w, n) ==
    /\ endpoint[w] = "receive"
    /\ sends' = [sends EXCEPT ![w] = n]
    /\ endpoint' = [endpoint EXCEPT ![w] = IF n = 0 THEN "receive" ELSE "send"]
    /\ UNCHANGED <<todo, dead, peer>>

\* Messages that were on their way may be read after the client has gone.
Subscribe(w, s) ==
    /\ Answer(w, IF s \in Listed THEN 1 ELSE 0)
    /\ Add(w, s)
    /\ wants' = [wants EXCEPT ![w] = @ \union {s}]

SubscribeAll(w) ==
    /\ Answer(w, Cardinality(Listed))
    /\ global_subs' = IF Connected(w) THEN global_subs \union {w} ELSE global_subs
    /\ wants' = [wants EXCEPT ![w] = @ \union {"all"}]
    /\ UNCHANGED <<connections, symbol_subs>>

Unsubscribe(w, s) ==
    /\ Answer(w, 0)
    /\ Discard(w, s)
    /\ wants' = [wants EXCEPT ![w] = @ \ {s}]

\* An unknown action, or subscribe without a symbol: an ErrorMessage.
Complain(w) == Answer(w, 1) /\ UNCHANGED <<subs, wants>>

\* send_personal
SendPersonal(w) ==
    /\ endpoint[w] = "send"
    /\ \E fails \in BOOLEAN :
         /\ SendEnds(w, fails)
         /\ IF fails THEN Disconnect({w}) ELSE UNCHANGED subs
    /\ sends' = [sends EXCEPT ![w] = @ - 1]
    /\ endpoint' = [endpoint EXCEPT ![w] = IF sends[w] = 1 THEN "receive" ELSE "send"]
    /\ UNCHANGED <<todo, dead, peer, wants>>

\* Mutant: a disconnect ends the coroutine and nothing else.
ReceiveRaisesOnly(w) ==
    /\ endpoint[w] = "receive"
    /\ peer' = [peer EXCEPT ![w] = "gone"]
    /\ endpoint' = [endpoint EXCEPT ![w] = "done"]
    /\ wants' = [wants EXCEPT ![w] = {}]
    /\ UNCHANGED <<subs, sends, todo, dead>>

\* receive_json raises: the client has gone, or what it sent is no JSON object.
\* The coroutine returns and the server closes the socket.
ReceiveRaises(w) ==
    /\ endpoint[w] = "receive"
    /\ Disconnect({w})
    /\ peer' = [peer EXCEPT ![w] = "gone"]
    /\ endpoint' = [endpoint EXCEPT ![w] = "done"]
    /\ wants' = [wants EXCEPT ![w] = {}]
    /\ UNCHANGED <<sends, todo, dead>>

-----------------------------------------------------------------------------
(* The background loops.  Between two broadcasts a loop waits for the next *)
(* event or for its interval to pass, for any time.                        *)

\* broadcast_to_symbol
SymbolTargets(s) == symbol_subs[s] \union global_subs

\* broadcast_all, which heartbeat_loop and latency_push_loop call.
AllTargets == DOMAIN connections

\* The clients that the next broadcast of a loop may be for.
Targets(l) ==
    IF l = "events" THEN {SymbolTargets(s) : s \in Listed} ELSE {AllTargets}

\* The copy of the targets, in any order.
Begin(l) ==
    /\ todo[l] = <<>>
    /\ \E targets \in Targets(l) :
         /\ targets # {}
         /\ \E order \in SetToSeqs(targets) : todo' = [todo EXCEPT ![l] = order]
    /\ UNCHANGED <<subs, endpoint, sends, dead, peer, wants>>

\* Mutant: a client is counted dead whether its send failed or not.
FailedAlways(l, fails) == dead[l] \union {Head(todo[l])}

\* dead after a send
Failed(l, fails) == IF fails THEN dead[l] \union {Head(todo[l])} ELSE dead[l]

\* The send to one client; after the last one the dead are disconnected.
SendOne(l) ==
    /\ todo[l] # <<>>
    /\ \E fails \in BOOLEAN :
         /\ SendEnds(Head(todo[l]), fails)
         /\ IF Len(todo[l]) = 1
            THEN /\ Disconnect(Failed(l, fails))
                 /\ dead' = [dead EXCEPT ![l] = {}]
            ELSE /\ dead' = [dead EXCEPT ![l] = Failed(l, fails)]
                 /\ UNCHANGED subs
    /\ todo' = [todo EXCEPT ![l] = Tail(@)]
    /\ UNCHANGED <<endpoint, sends, peer, wants>>

-----------------------------------------------------------------------------
Init ==
    /\ connections = <<>>
    /\ symbol_subs = [s \in Symbol |-> {}]
    /\ global_subs = {}
    /\ endpoint = [w \in Client |-> "none"]
    /\ sends = [w \in Client |-> 0]
    /\ todo = [l \in Loop |-> <<>>]
    /\ dead = [l \in Loop |-> {}]
    /\ peer = [w \in Client |-> "none"]
    /\ wants = [w \in Client |-> {}]

Next ==
    \/ \E w \in Client :
          \/ Open(w) \/ Stall(w) \/ Unstall(w) \/ Leave(w)
          \/ Accepted(w) \/ AcceptFails(w)
          \/ \E s \in Symbol : Subscribe(w, s) \/ Unsubscribe(w, s)
          \/ SubscribeAll(w) \/ Complain(w)
          \/ SendPersonal(w) \/ ReceiveRaises(w)
    \/ \E l \in Loop : Begin(l) \/ SendOne(l)

\* A stalled socket wakes up or is given up by the ping timeout.  An accept
\* ends.  A blocked send is woken whenever its socket can take it.  A client
\* that has gone has left finitely many messages: its receive raises in the end.
Fairness ==
    /\ \A w \in Client :
         /\ WF_vars(Unstall(w))
         /\ WF_vars(Accepted(w) \/ AcceptFails(w))
         /\ SF_vars(SendPersonal(w))
         /\ SF_vars(peer[w] = "gone" /\ ReceiveRaises(w))
    /\ \A l \in Loop : SF_vars(SendOne(l))

Spec == Init /\ [][Next]_vars /\ Fairness

-----------------------------------------------------------------------------
(* Properties.                                                             *)

\* The three indexes tell one story: a socket is in the set of a symbol exactly
\* when its own entry lists the symbol, and no set holds a socket that has no
\* entry, however broadcasts, endpoints and disconnects interleave.
SubscriptionsAgree ==
    /\ \A s \in Symbol :
         symbol_subs[s] = {w \in DOMAIN connections : s \in connections[w]}
    /\ global_subs \subseteq DOMAIN connections

\* A client that is there and being served is registered with exactly what it
\* asked for: no failure of another client, and no broadcast still working on an
\* old copy of the subscribers, takes it out.
LiveKeepsSubscriptions ==
    \A w \in Client :
        (peer[w] \in {"open", "stalled"} /\ endpoint[w] \in {"receive", "send"}) =>
            /\ Connected(w)
            /\ connections[w] = wants[w] \ {"all"}
            /\ w \in global_subs <=> "all" \in wants[w]

Forgotten(w) ==
    /\ ~Connected(w)
    /\ w \notin global_subs
    /\ \A s \in Symbol : w \notin symbol_subs[s]

\* "Client disconnect (graceful or abrupt) automatically cleans up all
\* subscriptions" (market_data.py): a client that has gone is in the end
\* forgotten for good, even when messages of its own are still being handled and
\* broadcasts to it are still under way.
GoneIsForgotten == \A w \in Client : (peer[w] = "gone") ~> []Forgotten(w)

\* No broadcast is held up for ever: sends wait for slow clients one after the
\* other, but each of them reads on or is dropped.
BroadcastsEnd == \A l \in Loop : (todo[l] # <<>>) ~> (todo[l] = <<>>)
=============================================================================
