----------------------- MODULE ConnectionManagerProofs -----------------------
(***************************************************************************)
(* Proofs about ConnectionManager, for any number of clients, symbols and  *)
(* background loops.                                                       *)
(***************************************************************************)
EXTENDS ConnectionManager, TLAPS

-----------------------------------------------------------------------------
(* The inductive invariant.                                                *)

\* The indexes and the histories have the shape their annotations give them.
IndexesTyped ==
    /\ DOMAIN connections \subseteq Client
    /\ connections \in [DOMAIN connections -> SUBSET Symbol]
    /\ symbol_subs \in [Symbol -> SUBSET Client]
    /\ global_subs \subseteq Client
    /\ wants \in [Client -> SUBSET (Symbol \union {"all"})]

\* The sockets, their coroutines and the loops.
SocketsTyped ==
    /\ endpoint \in [Client -> {"none", "accept", "receive", "send", "done"}]
    /\ peer \in [Client -> {"none", "open", "stalled", "gone"}]
    /\ dead = [l \in Loop |-> dead[l]]

\* Only a socket whose client has gone is ever counted dead.
DeadHasGone == \A l \in Loop, w \in Client : w \in dead[l] => peer[w] = "gone"

\* A socket that has not been accepted yet is unknown to the manager, and its
\* client has asked for nothing.
NotYetAccepted ==
    \A w \in Client :
        /\ peer[w] = "none" => endpoint[w] = "none"
        /\ endpoint[w] \in {"none", "accept"} => ~Connected(w) /\ wants[w] = {}

IInv ==
    /\ IndexesTyped
    /\ SocketsTyped
    /\ DeadHasGone
    /\ NotYetAccepted
    /\ SubscriptionsAgree
    /\ LiveKeepsSubscriptions

-----------------------------------------------------------------------------
(* The operations of the manager.                                          *)

\* disconnect takes the clients it is given out of all three indexes and leaves
\* the others as they were.
LEMMA DisconnectStep ==
    ASSUME IndexesTyped, SubscriptionsAgree, NEW gone, Disconnect(gone)
    PROVE  /\ wants' = wants => IndexesTyped'
           /\ SubscriptionsAgree'
           /\ DOMAIN connections' = DOMAIN connections \ gone
           /\ \A w \in Client \ gone :
                /\ Connected(w)' <=> Connected(w)
                /\ Connected(w) => connections'[w] = connections[w]
                /\ w \in global_subs' <=> w \in global_subs
<1>1. /\ DOMAIN connections' = DOMAIN connections \ gone
      /\ \A w \in DOMAIN connections \ gone : connections'[w] = connections[w]
      /\ connections' \in [DOMAIN connections \ gone -> SUBSET Symbol]
  BY DEF Disconnect, Restrict, IndexesTyped
<1>2. global_subs' = global_subs \ gone
  BY DEF Disconnect
<1>3. \A s \in Symbol : symbol_subs'[s] =
          symbol_subs[s] \ {w \in gone : w \in DOMAIN connections /\ s \in connections[w]}
  BY DEF Disconnect, Connected
<1>4. symbol_subs' \in [Symbol -> SUBSET Client]
  BY DEF Disconnect, IndexesTyped
<1>5. SubscriptionsAgree'
  <2>1. ASSUME NEW s \in Symbol
        PROVE  symbol_subs'[s] = {w \in DOMAIN connections' : s \in connections'[w]}
    <3>1. symbol_subs[s] = {w \in DOMAIN connections : s \in connections[w]}
      BY DEF SubscriptionsAgree
    <3> QED BY <3>1, <1>1, <1>3
  <2> QED BY <2>1, <1>1, <1>2 DEF SubscriptionsAgree
<1>6. wants' = wants => IndexesTyped'
  BY <1>1, <1>2, <1>4 DEF IndexesTyped
<1> QED BY <1>1, <1>2, <1>5, <1>6 DEF Connected

\* subscribe and unsubscribe keep the entry of the client and the set of the
\* symbol in step.
LEMMA SubscribeStep ==
    ASSUME IndexesTyped, SubscriptionsAgree,
           NEW w \in Client, NEW s \in Symbol, Add(w, s) \/ Discard(w, s)
    PROVE  /\ DOMAIN connections' = DOMAIN connections
           /\ connections' \in [DOMAIN connections -> SUBSET Symbol]
           /\ symbol_subs' \in [Symbol -> SUBSET Client]
           /\ global_subs' = global_subs
           /\ \A c \in DOMAIN connections \ {w} : connections'[c] = connections[c]
           /\ Connected(w) /\ Add(w, s) => connections'[w] = connections[w] \union {s}
           /\ Connected(w) /\ Discard(w, s) => connections'[w] = connections[w] \ {s}
           /\ SubscriptionsAgree'
<1>1. Connected(w) /\ Add(w, s) => connections'[w] = connections[w] \union {s}
  BY DEF Add, Connected, IndexesTyped
<1>2. Connected(w) /\ Discard(w, s) => connections'[w] = connections[w] \ {s}
  BY DEF Discard, Connected, IndexesTyped
<1>3. CASE ~Connected(w)
  BY <1>1, <1>2, <1>3 DEF Add, Discard, subs, IndexesTyped, SubscriptionsAgree, Connected
<1>4. CASE Connected(w) /\ Add(w, s)
  <2>1. /\ connections' = [connections EXCEPT ![w] = @ \union {s}]
        /\ symbol_subs' = [symbol_subs EXCEPT ![s] = @ \union {w}]
        /\ global_subs' = global_subs
        /\ w \in DOMAIN connections
    BY <1>4 DEF Add, Connected
  <2>2. ASSUME NEW t \in Symbol
        PROVE  symbol_subs'[t] = {c \in DOMAIN connections' : t \in connections'[c]}
    <3>1. symbol_subs[t] = {c \in DOMAIN connections : t \in connections[c]}
      BY DEF SubscriptionsAgree
    <3> QED BY <3>1, <2>1 DEF IndexesTyped
  <2> QED BY <1>4, <1>1, <1>2, <2>1, <2>2 DEF IndexesTyped, SubscriptionsAgree
<1>5. CASE Connected(w) /\ ~Add(w, s)
  <2>1. /\ connections' = [connections EXCEPT ![w] = @ \ {s}]
        /\ symbol_subs' = [symbol_subs EXCEPT ![s] = @ \ {w}]
        /\ global_subs' = global_subs
        /\ w \in DOMAIN connections
    BY <1>5 DEF Discard, Connected
  <2>2. ASSUME NEW t \in Symbol
        PROVE  symbol_subs'[t] = {c \in DOMAIN connections' : t \in connections'[c]}
    <3>1. symbol_subs[t] = {c \in DOMAIN connections : t \in connections[c]}
      BY DEF SubscriptionsAgree
    <3> QED BY <3>1, <2>1 DEF IndexesTyped
  <2> QED BY <1>5, <1>1, <1>2, <2>1, <2>2 DEF IndexesTyped, SubscriptionsAgree
<1> QED BY <1>1, <1>2, <1>3, <1>4, <1>5

-----------------------------------------------------------------------------
(* Each action preserves the invariant.                                    *)

\* A step that leaves the indexes and what clients want alone keeps everything
\* that is said of those; it must keep a served client's socket served.
LEMMA SocketStep ==
    ASSUME IInv, UNCHANGED <<subs, wants>>, SocketsTyped',
           NEW w \in Client,
           \A c \in Client \ {w} : peer'[c] = peer[c] /\ endpoint'[c] = endpoint[c],
           \A l \in Loop : \A c \in Client : c \in dead'[l] => peer'[c] = "gone",
           \/ Open(w)
           \/ /\ peer'[w] # "none"
              /\ endpoint'[w] = endpoint[w] \/ endpoint'[w] = "done"
              /\ peer'[w] \in {"open", "stalled"} => peer[w] \in {"open", "stalled"}
           \/ /\ peer'[w] = peer[w]
              /\ endpoint[w] \in {"receive", "send"}
              /\ endpoint'[w] \in {"receive", "send"}
    PROVE  IInv'
<1> USE DEF IInv
<1>1. IndexesTyped' /\ SubscriptionsAgree'
  BY DEF IndexesTyped, SubscriptionsAgree, subs
<1>2. DeadHasGone'
  BY DEF DeadHasGone
<1>3. NotYetAccepted'
  BY DEF NotYetAccepted, SocketsTyped, Open, Connected, subs
<1>4. LiveKeepsSubscriptions'
  BY DEF LiveKeepsSubscriptions, SocketsTyped, Open, Connected, subs
<1> QED BY <1>1, <1>2, <1>3, <1>4

\* open, stall, wake up, leave: what sockets do by themselves.
LEMMA PeerStep ==
    ASSUME IInv, NEW w \in Client,
           Open(w) \/ Stall(w) \/ Unstall(w) \/ Leave(w) \/ AcceptFails(w)
    PROVE  IInv'
<1> USE DEF IInv
<1>1. SocketsTyped' /\ UNCHANGED <<subs, wants>> /\ dead' = dead
  BY DEF SocketsTyped, Open, Stall, Unstall, Leave, AcceptFails
<1>2. \A c \in Client \ {w} : peer'[c] = peer[c] /\ endpoint'[c] = endpoint[c]
  BY DEF SocketsTyped, Open, Stall, Unstall, Leave, AcceptFails
<1>3. peer[w] = "gone" => peer'[w] = "gone"
  BY DEF SocketsTyped, Open, Stall, Unstall, Leave, AcceptFails
<1>4. \A l \in Loop : \A c \in Client : c \in dead'[l] => peer'[c] = "gone"
  BY <1>1, <1>2, <1>3 DEF DeadHasGone
<1>5. \/ Open(w)
      \/ /\ peer'[w] # "none"
         /\ endpoint'[w] = endpoint[w] \/ endpoint'[w] = "done"
         /\ peer'[w] \in {"open", "stalled"} => peer[w] \in {"open", "stalled"}
  BY DEF SocketsTyped, Open, Stall, Unstall, Leave, AcceptFails
<1> QED BY <1>1, <1>2, <1>4, <1>5, SocketStep

\* The entry in _connections that an accept makes is empty, like the wishes of
\* its client.
LEMMA AcceptedStep ==
    ASSUME IInv, NEW w \in Client, Accepted(w)
    PROVE  IInv'
<1> USE DEF IInv
<1>1. /\ w \notin DOMAIN connections /\ wants[w] = {} /\ endpoint[w] = "accept"
      /\ peer[w] # "none"
  BY DEF Accepted, NotYetAccepted, Connected
<1>2. /\ DOMAIN connections' = DOMAIN connections \union {w}
      /\ connections'[w] = {}
      /\ \A c \in DOMAIN connections : connections'[c] = connections[c]
      /\ connections' \in [DOMAIN connections \union {w} -> SUBSET Symbol]
  BY <1>1 DEF Accepted, IndexesTyped
<1>3. UNCHANGED <<symbol_subs, global_subs, dead, peer, wants>>
  BY DEF Accepted
<1>4. /\ endpoint'[w] = "receive"
      /\ \A c \in Client \ {w} : endpoint'[c] = endpoint[c]
      /\ SocketsTyped'
  BY DEF Accepted, SocketsTyped
<1>5. IndexesTyped' /\ DeadHasGone'
  BY <1>2, <1>3 DEF IndexesTyped, DeadHasGone
<1>6. SubscriptionsAgree'
  <2>1. ASSUME NEW s \in Symbol
        PROVE  symbol_subs'[s] = {c \in DOMAIN connections' : s \in connections'[c]}
    <3>1. symbol_subs[s] = {c \in DOMAIN connections : s \in connections[c]}
      BY DEF SubscriptionsAgree
    <3> QED BY <3>1, <1>1, <1>2, <1>3
  <2> QED BY <2>1, <1>2, <1>3 DEF SubscriptionsAgree
<1>7. NotYetAccepted'
  BY <1>1, <1>2, <1>3, <1>4 DEF NotYetAccepted, Connected
<1>8. LiveKeepsSubscriptions'
  <2>1. w \notin global_subs
    BY <1>1 DEF SubscriptionsAgree
  <2> QED BY <2>1, <1>1, <1>2, <1>3, <1>4 DEF LiveKeepsSubscriptions, Connected
<1> QED BY <1>4, <1>5, <1>6, <1>7, <1>8

\* subscribe, unsubscribe: the wish and the entry change alike.
LEMMA SubscriptionStep ==
    ASSUME IInv, NEW w \in Client, NEW s \in Symbol,
           Subscribe(w, s) \/ Unsubscribe(w, s)
    PROVE  IInv'
<1> USE DEF IInv
<1>1. /\ UNCHANGED <<dead, peer>>
      /\ endpoint[w] = "receive"
      /\ endpoint'[w] \in {"receive", "send"}
      /\ \A c \in Client \ {w} : endpoint'[c] = endpoint[c]
      /\ SocketsTyped'
  BY DEF Subscribe, Unsubscribe, Answer, SocketsTyped
<1>2. Add(w, s) \/ Discard(w, s)
  BY DEF Subscribe, Unsubscribe
<1>3. /\ wants' \in [Client -> SUBSET (Symbol \union {"all"})]
      /\ \A c \in Client \ {w} : wants'[c] = wants[c]
  BY DEF Subscribe, Unsubscribe, IndexesTyped
<1>4. s # "all"
  BY SymbolAssumption
<1>5. IndexesTyped' /\ SubscriptionsAgree'
  BY <1>2, <1>3, SubscribeStep DEF IndexesTyped
<1>6. DeadHasGone'
  BY <1>1 DEF DeadHasGone
<1>7. DOMAIN connections' = DOMAIN connections /\ global_subs' = global_subs
  BY <1>2, SubscribeStep
<1>8. NotYetAccepted'
  BY <1>1, <1>3, <1>7 DEF NotYetAccepted, Connected
<1>9. LiveKeepsSubscriptions'
  <2>1. \A c \in DOMAIN connections \ {w} : connections'[c] = connections[c]
    BY <1>2, SubscribeStep
  <2>2. CASE Subscribe(w, s)
    <3>1. wants'[w] = wants[w] \union {s} /\ Add(w, s)
      BY <2>2 DEF Subscribe, IndexesTyped
    <3>2. Connected(w) => connections'[w] = connections[w] \union {s}
      BY <3>1, SubscribeStep
    <3> QED BY <1>1, <1>3, <1>4, <1>7, <2>1, <3>1, <3>2 DEF LiveKeepsSubscriptions, Connected
  <2>3. CASE Unsubscribe(w, s)
    <3>1. wants'[w] = wants[w] \ {s} /\ Discard(w, s)
      BY <2>3 DEF Unsubscribe, IndexesTyped
    <3>2. Connected(w) => connections'[w] = connections[w] \ {s}
      BY <3>1, SubscribeStep
    <3> QED BY <1>1, <1>3, <1>4, <1>7, <2>1, <3>1, <3>2 DEF LiveKeepsSubscriptions, Connected
  <2> QED BY <2>2, <2>3
<1> QED BY <1>1, <1>5, <1>6, <1>8, <1>9

\* subscribe_all
LEMMA SubscribeAllStep ==
    ASSUME IInv, NEW w \in Client, SubscribeAll(w)
    PROVE  IInv'
<1> USE DEF IInv
<1>1. /\ UNCHANGED <<dead, peer, connections, symbol_subs>>
      /\ endpoint[w] = "receive"
      /\ endpoint'[w] \in {"receive", "send"}
      /\ \A c \in Client \ {w} : endpoint'[c] = endpoint[c]
      /\ SocketsTyped'
  BY DEF SubscribeAll, Answer, SocketsTyped
<1>2. /\ wants' \in [Client -> SUBSET (Symbol \union {"all"})]
      /\ wants'[w] = wants[w] \union {"all"}
      /\ \A c \in Client \ {w} : wants'[c] = wants[c]
  BY DEF SubscribeAll, IndexesTyped
<1>3. global_subs' = IF Connected(w) THEN global_subs \union {w} ELSE global_subs
  BY DEF SubscribeAll
<1>4. IndexesTyped' /\ SubscriptionsAgree' /\ DeadHasGone'
  BY <1>1, <1>2, <1>3 DEF IndexesTyped, SubscriptionsAgree, DeadHasGone, Connected
<1>5. NotYetAccepted' /\ LiveKeepsSubscriptions'
  BY <1>1, <1>2, <1>3 DEF NotYetAccepted, LiveKeepsSubscriptions, Connected
<1> QED BY <1>1, <1>4, <1>5

\* An error message changes nothing but where the endpoint waits.
LEMMA ComplainStep ==
    ASSUME IInv, NEW w \in Client, Complain(w)
    PROVE  IInv'
<1> USE DEF IInv
<1>1. /\ UNCHANGED <<dead, peer>> /\ UNCHANGED <<subs, wants>>
      /\ endpoint[w] = "receive" /\ endpoint'[w] \in {"receive", "send"}
      /\ \A c \in Client \ {w} : endpoint'[c] = endpoint[c]
      /\ SocketsTyped'
  BY DEF Complain, Answer, SocketsTyped
<1> QED BY <1>1, SocketStep DEF DeadHasGone

\* The step after which the sockets in gone are out: they were all lost before,
\* or are lost in this step.
LEMMA DroppedStep ==
    ASSUME IInv, NEW gone, Disconnect(gone), SocketsTyped', UNCHANGED wants,
           \A c \in Client : c \in gone => peer'[c] = "gone",
           \A c \in Client : \/ UNCHANGED <<peer[c], endpoint[c]>>
                             \/ /\ peer' = peer
                                /\ endpoint[c] \in {"receive", "send"}
                                /\ endpoint'[c] \in {"receive", "send"},
           \A l \in Loop : \A c \in Client : c \in dead'[l] => peer'[c] = "gone"
    PROVE  IInv'
<1> USE DEF IInv
<1>1. IndexesTyped' /\ SubscriptionsAgree' /\ DeadHasGone'
  BY DisconnectStep DEF DeadHasGone
<1>2. DOMAIN connections' = DOMAIN connections \ gone
  BY DisconnectStep
<1>3. NotYetAccepted'
  BY <1>2 DEF NotYetAccepted, Connected
<1>4. LiveKeepsSubscriptions'
  BY <1>2, DisconnectStep DEF LiveKeepsSubscriptions, Connected
<1> QED BY <1>1, <1>3, <1>4

\* send_personal drops its client only when the send fails, that is after the
\* client has gone.
LEMMA SendPersonalStep ==
    ASSUME IInv, NEW w \in Client, SendPersonal(w)
    PROVE  IInv'
<1> USE DEF IInv
<1>1. /\ UNCHANGED <<dead, peer>> /\ UNCHANGED wants
      /\ endpoint[w] = "send" /\ endpoint'[w] \in {"receive", "send"}
      /\ \A c \in Client \ {w} : endpoint'[c] = endpoint[c]
      /\ SocketsTyped'
  BY DEF SendPersonal, SocketsTyped
<1>2. \A l \in Loop : \A c \in Client : c \in dead'[l] => peer'[c] = "gone"
  BY <1>1 DEF DeadHasGone
<1>3. \/ UNCHANGED subs
      \/ Disconnect({w}) /\ peer[w] = "gone"
  BY DEF SendPersonal, SendEnds
<1>4. CASE UNCHANGED subs
  BY <1>1, <1>2, <1>4, SocketStep
<1>5. CASE Disconnect({w}) /\ peer[w] = "gone"
  BY <1>1, <1>2, <1>5, DroppedStep
<1> QED BY <1>3, <1>4, <1>5

\* A receive that raises ends the endpoint, and with it all that it stood for.
LEMMA ReceiveRaisesStep ==
    ASSUME IInv, NEW w \in Client, ReceiveRaises(w)
    PROVE  IInv'
<1> USE DEF IInv
<1>1. /\ dead' = dead /\ SocketsTyped'
      /\ peer'[w] = "gone" /\ endpoint'[w] = "done"
      /\ \A c \in Client \ {w} : peer'[c] = peer[c] /\ endpoint'[c] = endpoint[c]
      /\ Disconnect({w})
  BY DEF ReceiveRaises, SocketsTyped
<1>2. /\ wants' \in [Client -> SUBSET (Symbol \union {"all"})]
      /\ \A c \in Client \ {w} : wants'[c] = wants[c]
  BY DEF ReceiveRaises, IndexesTyped
<1>3. /\ DOMAIN connections' = DOMAIN connections \ {w}
      /\ SubscriptionsAgree'
      /\ \A c \in Client \ {w} :
           /\ Connected(c)' <=> Connected(c)
           /\ Connected(c) => connections'[c] = connections[c]
           /\ c \in global_subs' <=> c \in global_subs
  BY <1>1, DisconnectStep
<1>4. IndexesTyped'
  <2>1. /\ connections' \in [DOMAIN connections \ {w} -> SUBSET Symbol]
        /\ symbol_subs' \in [Symbol -> SUBSET Client]
        /\ global_subs' \subseteq Client
    BY <1>1 DEF Disconnect, Restrict, IndexesTyped
  <2> QED BY <2>1, <1>2, <1>3 DEF IndexesTyped
<1>5. DeadHasGone' /\ NotYetAccepted'
  BY <1>1, <1>2, <1>3 DEF DeadHasGone, NotYetAccepted, Connected
<1>6. LiveKeepsSubscriptions'
  BY <1>1, <1>2, <1>3 DEF LiveKeepsSubscriptions, Connected
<1> QED BY <1>1, <1>3, <1>4, <1>5, <1>6

\* A broadcast works on a copy that may be old, but what it drops has gone.
LEMMA BroadcastStep ==
    ASSUME IInv, NEW l \in Loop, Begin(l) \/ SendOne(l)
    PROVE  IInv'
<1> USE DEF IInv
<1>1. UNCHANGED <<endpoint, peer, wants>>
  BY DEF Begin, SendOne
<1>2. CASE Begin(l)
  BY <1>1, <1>2 DEF Begin, subs, IndexesTyped, SocketsTyped, DeadHasGone,
     NotYetAccepted, SubscriptionsAgree, LiveKeepsSubscriptions, Connected
<1>3. CASE SendOne(l)
  <2>1. PICK fails \in BOOLEAN :
          /\ SendEnds(Head(todo[l]), fails)
          /\ IF Len(todo[l]) = 1
             THEN /\ Disconnect(Failed(l, fails))
                  /\ dead' = [dead EXCEPT ![l] = {}]
             ELSE /\ dead' = [dead EXCEPT ![l] = Failed(l, fails)]
                  /\ UNCHANGED subs
    BY <1>3 DEF SendOne
  <2>2. \A c \in Client : c \in Failed(l, fails) => peer[c] = "gone"
    BY <2>1 DEF Failed, SendEnds, DeadHasGone
  <2>3. SocketsTyped'
    <3>1. dead' = [k \in Loop |-> dead'[k]]
      BY <2>1 DEF SocketsTyped
    <3> QED BY <1>1, <3>1 DEF SocketsTyped
  <2>4. \A k \in Loop : \A c \in Client : c \in dead'[k] => peer'[c] = "gone"
    <3>1. dead' \in {[dead EXCEPT ![l] = {}], [dead EXCEPT ![l] = Failed(l, fails)]}
      BY <2>1
    <3>2. \A k \in Loop : dead'[k] \in {dead[k], {}, Failed(l, fails)}
      BY <3>1 DEF SocketsTyped
    <3> QED BY <1>1, <2>2, <3>2 DEF DeadHasGone
  <2>5. CASE UNCHANGED subs
    BY <1>1, <2>3, <2>4, <2>5 DEF subs, IndexesTyped, DeadHasGone, NotYetAccepted,
       SubscriptionsAgree, LiveKeepsSubscriptions, Connected
  <2>6. CASE Disconnect(Failed(l, fails))
    BY <1>1, <2>2, <2>3, <2>4, <2>6, DroppedStep
  <2> QED BY <2>1, <2>5, <2>6
<1> QED BY <1>2, <1>3

-----------------------------------------------------------------------------
(* The theorems.                                                           *)

\* The invariant holds in every state the server can reach.
LEMMA Invariance == Spec => []IInv
<1>1. Init => IInv
  <2> SUFFICES ASSUME Init PROVE IInv
    OBVIOUS
  <2>1. DOMAIN connections = {} /\ connections \in [DOMAIN connections -> SUBSET Symbol]
    BY DEF Init
  <2> QED BY <2>1 DEF Init, IInv, IndexesTyped, SocketsTyped, DeadHasGone, NotYetAccepted,
             SubscriptionsAgree, LiveKeepsSubscriptions, Connected
<1>2. IInv /\ [Next]_vars => IInv'
  <2> SUFFICES ASSUME IInv, [Next]_vars PROVE IInv'
    OBVIOUS
  <2>1. CASE UNCHANGED vars
    BY <2>1 DEF vars, subs, IInv, IndexesTyped, SocketsTyped, DeadHasGone, NotYetAccepted,
       SubscriptionsAgree, LiveKeepsSubscriptions, Connected
  <2>2. ASSUME NEW w \in Client,
               \/ Open(w) \/ Stall(w) \/ Unstall(w) \/ Leave(w)
               \/ Accepted(w) \/ AcceptFails(w)
               \/ \E s \in Symbol : Subscribe(w, s) \/ Unsubscribe(w, s)
               \/ SubscribeAll(w) \/ Complain(w)
               \/ SendPersonal(w) \/ ReceiveRaises(w)
        PROVE  IInv'
    BY <2>2, PeerStep, AcceptedStep, SubscriptionStep, SubscribeAllStep, ComplainStep,
       SendPersonalStep, ReceiveRaisesStep
  <2>3. ASSUME NEW l \in Loop, Begin(l) \/ SendOne(l)
        PROVE  IInv'
    BY <2>3, BroadcastStep
  <2> QED BY <2>1, <2>2, <2>3 DEF Next
<1> QED BY <1>1, <1>2, PTL DEF Spec

\* connect, disconnect, subscribe and the broadcasts of any number of loops keep
\* _connections, _symbol_subs and _global_subs in agreement (manager.py).
THEOREM IndexesAlwaysAgree == Spec => []SubscriptionsAgree
<1>1. IInv => SubscriptionsAgree
  BY DEF IInv
<1> QED BY <1>1, Invariance, PTL

\* A client that is being served is registered with exactly what it asked for,
\* whatever fails around it and however old the copies are that the broadcasts
\* work on (broadcast_to_symbol and broadcast_all of manager.py).
THEOREM ServedIsNeverDropped == Spec => []LiveKeepsSubscriptions
<1>1. IInv => LiveKeepsSubscriptions
  BY DEF IInv
<1> QED BY <1>1, Invariance, PTL
=============================================================================
