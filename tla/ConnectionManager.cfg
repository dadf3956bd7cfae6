\* Two clients, one symbol, and a loop of each kind: one that broadcasts to the
\* subscribers of a symbol and one that broadcasts to every client.
\* Nothing is left to do once both clients have gone.
CHECK_DEADLOCK FALSE
SPECIFICATION Spec
CONSTANTS
    Client = {w1, w2}
    Symbol = {"AAPL"}
    Listed = {"AAPL"}
    Loop = {"events", "heartbeat"}
INVARIANTS
    SubscriptionsAgree
    LiveKeepsSubscriptions
PROPERTIES
    GoneIsForgotten
    BroadcastsEnd
