-------------------------- MODULE BookStreamProofs --------------------------
(***************************************************************************)
(* Proofs about BookStream, for any prices and quantities, queue depth and *)
(* number of operations and connections.                                   *)
(***************************************************************************)
EXTENDS BookStream, SharedFacts

USE SymbolsAssumption, BoundsAssumption, NoneAssumption

-----------------------------------------------------------------------------
(* Types.                                                                  *)

\* What the queue of the broadcast loop holds.
OtherTypes == OrderEventTypes \union {"TRADE", "TICKER"}

StreamEvent ==
    [type: {"BOOK_UPDATE"}, symbol: Symbol, of: Image]
      \union [type: OtherTypes, symbol: Symbol, of: {"order", "trade", None}]

BookMessage == {m \in Message : m.type \in BookMessages}

Task == [action: {"subscribe", "subscribe_all", "snapshot"}, symbol: Symbol]

Typed ==
    /\ book \in [Symbol -> Image]
    /\ ops \in Nat
    /\ queue \in Seq(StreamEvent) /\ Len(queue) <= QueueDepth
    /\ dropped \in Nat
    /\ prior \in [Symbol -> Image \union {None}]
    /\ sending \in Sending \union {None}
    /\ todo \in Seq(Task)
    /\ subs \subseteq Symbol
    /\ channel \in Seq(BookMessage)
    /\ connected \in BOOLEAN
    /\ client \in ClientBook \union {None}

\* Short sequences, spelled out.
LEMMA Tuples ==
    ASSUME NEW a, NEW b, NEW c
    PROVE  /\ <<>> \o <<a>> = <<a>>
           /\ <<a>> \o <<b>> = <<a, b>>
           /\ <<a, b>> \o <<c>> = <<a, b, c>>
<1> DEFINE S == {a, b, c}
<1>1. /\ <<a>> \in Seq(S) /\ <<b>> \in Seq(S) /\ <<c>> \in Seq(S)
      /\ Len(<<a>>) = 1 /\ Len(<<b>>) = 1 /\ Len(<<c>>) = 1
  OBVIOUS
<1>2. <<a, b>> \in Seq(S) /\ Len(<<a, b>>) = 2 /\ <<a, b>>[1] = a /\ <<a, b>>[2] = b
  OBVIOUS
<1>3. /\ <<a, b, c>> \in Seq(S) /\ Len(<<a, b, c>>) = 3
      /\ <<a, b, c>>[1] = a /\ <<a, b, c>>[2] = b /\ <<a, b, c>>[3] = c
  OBVIOUS
<1>4. <<>> \o <<a>> = <<a>>
  BY <1>1, ConcatEmptySeq
<1>5. <<a>> \o <<b>> = <<a, b>>
  <2> DEFINE t == <<a>> \o <<b>>
             u == <<a, b>>
  <2>1. t \in Seq(S) /\ Len(t) = 2 /\ t[1] = a /\ t[2] = b
    BY <1>1, ConcatIndices
  <2>2. u \in Seq(S) /\ Len(u) = 2 /\ u[1] = a /\ u[2] = b
    BY <1>2
  <2> HIDE DEF t, u, S
  <2>3. \A i \in 1..Len(t) : t[i] = u[i]
    BY <2>1, <2>2
  <2>4. t = u
    BY <2>1, <2>2, <2>3, SeqEqual
  <2> QED BY <2>4 DEF t, u
<1>6. <<a, b>> \o <<c>> = <<a, b, c>>
  <2> DEFINE t == <<a, b>> \o <<c>>
             u == <<a, b, c>>
  <2>1. t \in Seq(S) /\ Len(t) = 3 /\ t[1] = a /\ t[2] = b /\ t[3] = c
    BY <1>1, <1>2, ConcatIndices
  <2>2. u \in Seq(S) /\ Len(u) = 3 /\ u[1] = a /\ u[2] = b /\ u[3] = c
    BY <1>3
  <2> HIDE DEF t, u, S
  <2>3. \A i \in 1..Len(t) : t[i] = u[i]
    BY <2>1, <2>2
  <2>4. t = u
    BY <2>1, <2>2, <2>3, SeqEqual
  <2> QED BY <2>4 DEF t, u
<1> QED BY <1>4, <1>5, <1>6

\* Sequences of one, two and three elements of a set.
LEMMA TuplesOf ==
    ASSUME NEW S, NEW a \in S, NEW b \in S, NEW c \in S
    PROVE  <<a>> \in Seq(S) /\ <<a, b>> \in Seq(S) /\ <<a, b, c>> \in Seq(S)
OBVIOUS

\* What an operation on the book of s publishes: events that are not about the book,
\* and, unless it is a rejection, an image of the book behind them.
Reports(events, s, type, image) ==
    /\ events \in Seq(StreamEvent) /\ Len(events) >= 1
    /\ \A i \in 1..Len(events) : i < Len(events) => events[i].type # "BOOK_UPDATE"
    /\ \A i \in 1..Len(events) : events[i].symbol = s
    /\ IF type = "ORDER_REJECTED" THEN events[Len(events)].type # "BOOK_UPDATE"
       ELSE events[Len(events)] = [type |-> "BOOK_UPDATE", symbol |-> s, of |-> image]

\* The events of an engine operation that the broadcast loop subscribes to.
LEMMA EventsOfFacts ==
    ASSUME NEW s \in Symbol, NEW type \in OrderEventTypes, NEW image,
           type # "ORDER_REJECTED" => image \in Image,
           NEW trades \in {<<>>, <<"trade">>}
    PROVE  Reports(EventsOf(s, EngineEvent(type, "order", trades, image)), s, type, image)
<1> DEFINE e == EngineEvent(type, "order", trades, image)
           plain == Translate(e, SubscribedTypes)
           traded == [i \in 1..Len(trades) |-> [type |-> "TRADE", of |-> trades[i]]]
           own == <<[type |-> type, of |-> "order"]>>
           shown == <<[type |-> "BOOK_UPDATE", of |-> image]>>
           events == EventsOf(s, e)
<1> SUFFICES Reports(events, s, type, image)
  OBVIOUS
<1>1. {type, "TRADE", "BOOK_UPDATE"} \subseteq SubscribedTypes
  BY DEF SubscribedTypes
<1>2. type # "BOOK_UPDATE"
  BY DEF OrderEventTypes
<1>3. events = [i \in 1..Len(plain) |-> [type |-> plain[i].type, symbol |-> s, of |-> plain[i].of]]
  BY DEF EventsOf
<1>4. CASE type = "ORDER_REJECTED"
  <2>1. plain = own
    BY <1>1, <1>4 DEF Translate, EngineEvent, Subscribed
  <2>2. Len(plain) = 1 /\ plain[1].type = type /\ plain[1].of = "order"
    BY <2>1
  <2> HIDE DEF plain
  <2>3. events = <<[type |-> type, symbol |-> s, of |-> "order"]>>
    BY <1>3, <2>2
  <2>4. [type |-> type, symbol |-> s, of |-> "order"] \in StreamEvent
    BY DEF StreamEvent, OtherTypes
  <2>5. events \in Seq(StreamEvent)
    BY <2>3, <2>4, TuplesOf
  <2>6. Len(events) = 1 /\ events[1].type = type /\ events[1].symbol = s
    BY <2>3
  <2> HIDE DEF events
  <2> QED BY <1>2, <1>4, <2>5, <2>6 DEF Reports
<1>5. CASE type # "ORDER_REJECTED" /\ trades = <<>>
  <2>1. plain = <<>> \o own \o shown
    BY <1>1, <1>5 DEF Translate, EngineEvent, Subscribed
  <2>2. plain = <<[type |-> type, of |-> "order"], [type |-> "BOOK_UPDATE", of |-> image]>>
    BY <2>1, Tuples
  <2>3. /\ Len(plain) = 2 /\ plain[1].type = type /\ plain[1].of = "order"
        /\ plain[2].type = "BOOK_UPDATE" /\ plain[2].of = image
    BY <2>2
  <2> HIDE DEF plain
  <2>4. events = <<[type |-> type, symbol |-> s, of |-> "order"],
                   [type |-> "BOOK_UPDATE", symbol |-> s, of |-> image]>>
    BY <1>3, <2>3
  <2>5. /\ [type |-> type, symbol |-> s, of |-> "order"] \in StreamEvent
        /\ [type |-> "BOOK_UPDATE", symbol |-> s, of |-> image] \in StreamEvent
    BY <1>5 DEF StreamEvent, OtherTypes
  <2>6. events \in Seq(StreamEvent)
    BY <2>4, <2>5, TuplesOf
  <2>7. /\ Len(events) = 2
        /\ events[1].type = type /\ events[1].symbol = s
        /\ events[2] = [type |-> "BOOK_UPDATE", symbol |-> s, of |-> image]
        /\ events[2].symbol = s
    BY <2>4
  <2> HIDE DEF events
  <2> QED BY <1>2, <1>5, <2>6, <2>7 DEF Reports
<1>6. CASE type # "ORDER_REJECTED" /\ trades = <<"trade">>
  <2>1. plain = traded \o own \o shown
    BY <1>1, <1>6 DEF Translate, EngineEvent, Subscribed
  <2>2. traded = <<[type |-> "TRADE", of |-> "trade"]>>
    BY <1>6
  <2>3. plain = <<[type |-> "TRADE", of |-> "trade"], [type |-> type, of |-> "order"],
                  [type |-> "BOOK_UPDATE", of |-> image]>>
    <3>1. traded \o own = <<[type |-> "TRADE", of |-> "trade"], [type |-> type, of |-> "order"]>>
      BY <2>2, Tuples
    <3>2. <<[type |-> "TRADE", of |-> "trade"], [type |-> type, of |-> "order"]>> \o shown
            = <<[type |-> "TRADE", of |-> "trade"], [type |-> type, of |-> "order"],
                [type |-> "BOOK_UPDATE", of |-> image]>>
      BY Tuples
    <3> HIDE DEF traded, own, shown, plain
    <3> QED BY <2>1, <3>1, <3>2, Zenon
  <2>4. /\ Len(plain) = 3 /\ plain[1].type = "TRADE" /\ plain[1].of = "trade"
        /\ plain[2].type = type /\ plain[2].of = "order"
        /\ plain[3].type = "BOOK_UPDATE" /\ plain[3].of = image
    BY <2>3
  <2> HIDE DEF plain
  <2>5. events = <<[type |-> "TRADE", symbol |-> s, of |-> "trade"],
                   [type |-> type, symbol |-> s, of |-> "order"],
                   [type |-> "BOOK_UPDATE", symbol |-> s, of |-> image]>>
    BY <1>3, <2>4
  <2>6. /\ [type |-> "TRADE", symbol |-> s, of |-> "trade"] \in StreamEvent
        /\ [type |-> type, symbol |-> s, of |-> "order"] \in StreamEvent
        /\ [type |-> "BOOK_UPDATE", symbol |-> s, of |-> image] \in StreamEvent
    BY <1>6 DEF StreamEvent, OtherTypes
  <2>7. events \in Seq(StreamEvent)
    BY <2>5, <2>6, TuplesOf
  <2>8. /\ Len(events) = 3
        /\ events[1].type = "TRADE" /\ events[1].symbol = s
        /\ events[2].type = type /\ events[2].symbol = s
        /\ events[3] = [type |-> "BOOK_UPDATE", symbol |-> s, of |-> image]
        /\ events[3].symbol = s
    BY <2>5
  <2> HIDE DEF events
  <2> QED BY <1>2, <1>6, <2>7, <2>8 DEF Reports
<1> QED BY <1>4, <1>5, <1>6

\* publish_nowait appends a prefix of the events, all of them when no drop is counted.
LEMMA PublishEffect ==
    ASSUME Typed, NEW events \in Seq(StreamEvent), Publish(events)
    PROVE  /\ queue' \in Seq(StreamEvent) /\ Len(queue') <= QueueDepth
           /\ dropped' \in Nat
           /\ Len(queue) <= Len(queue') /\ Len(queue') <= Len(queue) + Len(events)
           /\ \A i \in 1..Len(queue) : queue'[i] = queue[i]
           /\ \A i \in 1..Len(queue') : i > Len(queue) => queue'[i] = events[i - Len(queue)]
           /\ dropped' = 0 => dropped = 0 /\ Len(queue') = Len(queue) + Len(events)
<1> DEFINE all == queue \o events
<1>1. /\ queue \in Seq(StreamEvent) /\ Len(queue) <= QueueDepth /\ dropped \in Nat
      /\ QueueDepth \in Nat
  BY DEF Typed
<1>2. /\ queue' = Admitted(queue, events, QueueDepth)
      /\ dropped' = dropped + Shed(queue, events, QueueDepth)
  BY DEF Publish
<1>3. queue' \in Seq(StreamEvent) /\ Len(queue') <= QueueDepth
  BY ONLY <1>1, <1>2, AdmittedType, events \in Seq(StreamEvent)
<1>4. Shed(queue, events, QueueDepth) \in Nat
  BY ONLY <1>1, AdmittedType, events \in Seq(StreamEvent)
<1>5. Len(queue) <= Len(queue') /\ \A i \in 1..Len(queue) : queue'[i] = queue[i]
  BY ONLY <1>1, <1>2, AdmittedKeeps, events \in Seq(StreamEvent)
<1>6. Len(queue) \in Nat /\ Len(events) \in Nat /\ Len(queue') \in Nat
  BY <1>1, <1>3, LenProperties
<1>7. /\ all \in Seq(StreamEvent) /\ Len(all) = Len(queue) + Len(events)
      /\ \A i \in 1..Len(events) : all[Len(queue) + i] = events[i]
  BY <1>1, ConcatIndices
<1> HIDE DEF all
<1>8. /\ Len(queue') <= Len(all)
      /\ \A i \in 1..Len(queue') : queue'[i] = all[i]
  <2>1. CASE Len(all) <= QueueDepth
    BY <1>2, <1>6, <1>7, <2>1 DEF Admitted, all
  <2>2. CASE Len(all) > QueueDepth
    <3>1. queue' = SubSeq(all, 1, QueueDepth)
      BY <1>1, <1>2, <1>6, <1>7, <2>2 DEF Admitted, all
    <3>2. /\ Len(SubSeq(all, 1, QueueDepth)) = QueueDepth
          /\ \A i \in 1..QueueDepth : SubSeq(all, 1, QueueDepth)[i] = all[i]
      BY <1>1, <1>6, <1>7, <2>2, SubSeqProperties
    <3> QED BY <2>2, <3>1, <3>2, <1>1, <1>6, <1>7
  <2> QED BY <2>1, <2>2, <1>1, <1>6, <1>7
<1>9. \A i \in 1..Len(queue') : i > Len(queue) => queue'[i] = events[i - Len(queue)]
  <2> SUFFICES ASSUME NEW i \in 1..Len(queue'), i > Len(queue)
               PROVE  queue'[i] = events[i - Len(queue)]
    OBVIOUS
  <2>1. i - Len(queue) \in 1..Len(events) /\ Len(queue) + (i - Len(queue)) = i
    BY <1>6, <1>7, <1>8
  <2>2. all[Len(queue) + (i - Len(queue))] = events[i - Len(queue)]
    BY <1>7, <2>1
  <2> QED BY <1>8, <2>1, <2>2
<1>10. ASSUME dropped' = 0
       PROVE  dropped = 0 /\ Len(queue') = Len(queue) + Len(events)
  <2>1. dropped = 0 /\ Shed(queue, events, QueueDepth) = 0
    BY <1>1, <1>2, <1>4, <1>10
  <2>2. Admitted(queue, events, QueueDepth) = all
    BY ONLY <1>1, <2>1, AdmittedWhole, events \in Seq(StreamEvent) DEF all
  <2>3. queue' = all
    BY <1>2, <2>2
  <2>4. Len(all) = Len(queue) + Len(events)
    BY <1>7
  <2> QED BY <2>1, <2>3, <2>4, Zenon
<1>11. dropped' \in Nat
  BY <1>1, <1>2, <1>4
<1>12. Len(queue') <= Len(queue) + Len(events)
  BY <1>7, <1>8
<1> QED BY <1>3, <1>5, <1>9, <1>10, <1>11, <1>12

-----------------------------------------------------------------------------
(* What the engine and the publisher do.                                   *)

downstream == <<prior, sending, todo, subs, channel, connects, connected, client, missed>>

\* The book of s becomes image, which is published behind events about other things.
BookStep(s, image, events) ==
    /\ image \in Image /\ book[s].sequence <= image.sequence
    /\ book' = [book EXCEPT ![s] = image]
    /\ events \in Seq(StreamEvent) /\ Len(events) >= 1
    /\ \A i \in 1..Len(events) : i < Len(events) => events[i].type # "BOOK_UPDATE"
    /\ events[Len(events)] = [type |-> "BOOK_UPDATE", symbol |-> s, of |-> image]
    /\ Publish(events)
    /\ ops' \in Nat
    /\ UNCHANGED downstream

\* No book changes, and nothing about books is published.
QuietStep(events) ==
    /\ book' = book
    /\ events \in Seq(StreamEvent)
    /\ \A i \in 1..Len(events) : events[i].type # "BOOK_UPDATE"
    /\ Publish(events)
    /\ ops' \in Nat
    /\ UNCHANGED downstream

\* A submit that was accepted.
LEMMA SubmitOrderEffect ==
    ASSUME Typed, NEW s \in Symbol, SubmitOrder(s)
    PROVE  \E image, events : BookStep(s, image, events)
<1>1. PICK levels \in Levels :
         book' = [book EXCEPT ![s] = [sequence |-> @.sequence + 1, levels |-> levels]]
  BY DEF SubmitOrder
<1> DEFINE image == [sequence |-> book[s].sequence + 1, levels |-> levels]
<1>2. PICK trades \in {<<>>, <<"trade">>} :
         Publish(EventsOf(s, EngineEvent(AckType(trades, 0), "order", trades, book'[s])))
  BY DEF SubmitOrder
<1>3. book \in [Symbol -> Image] /\ ops \in Nat
  BY DEF Typed
<1>4. image \in Image /\ book[s].sequence <= image.sequence
  BY <1>3 DEF Image
<1>5. book' = [book EXCEPT ![s] = image] /\ book'[s] = image
  BY <1>1, <1>3
<1>6. AckType(trades, 0) \in OrderEventTypes /\ AckType(trades, 0) # "ORDER_REJECTED"
  BY DEF AckType, OrderEventTypes
<1> HIDE DEF image
<1> DEFINE type == AckType(trades, 0)
           events == EventsOf(s, EngineEvent(type, "order", trades, image))
<1> HIDE DEF type
<1>7. type \in OrderEventTypes /\ type # "ORDER_REJECTED"
  BY <1>6 DEF type
<1>8. Reports(events, s, type, image)
  BY <1>4, <1>7, EventsOfFacts
<1>9. Publish(events)
  BY <1>2, <1>5 DEF type
<1> HIDE DEF events
<1>10. ops' \in Nat /\ UNCHANGED downstream
  BY <1>3 DEF SubmitOrder, downstream
<1>11. BookStep(s, image, events)
  BY <1>4, <1>5, <1>7, <1>8, <1>9, <1>10 DEF BookStep, Reports
<1> QED BY <1>11

\* A cancel.
LEMMA CancelOrderEffect ==
    ASSUME Typed, NEW s \in Symbol, CancelOrder(s)
    PROVE  \E image, events : BookStep(s, image, events)
<1>1. PICK p \in Price, q \in 0..MaxLevel : book' = [book EXCEPT ![s].levels[p] = q]
  BY DEF CancelOrder
<1>2. Publish(EventsOf(s, EngineEvent("ORDER_CANCELLED", "order", <<>>, book'[s])))
  BY DEF CancelOrder
<1> DEFINE image == [book[s] EXCEPT !.levels[p] = q]
<1>3. book \in [Symbol -> Image] /\ ops \in Nat
  BY DEF Typed
<1>4. image \in Image /\ book[s].sequence <= image.sequence
  <2>1. book[s] \in Image /\ book[s].sequence \in Nat /\ book[s].levels \in Levels
    BY <1>3 DEF Image
  <2>2. [book[s].levels EXCEPT ![p] = q] \in Levels
    BY <2>1 DEF Levels
  <2>3. image = [sequence |-> book[s].sequence, levels |-> [book[s].levels EXCEPT ![p] = q]]
    BY <2>1 DEF Image
  <2> QED BY <2>1, <2>2, <2>3 DEF Image
<1>5. book' = [book EXCEPT ![s] = image] /\ book'[s] = image
  BY <1>1, <1>3
<1> HIDE DEF image
<1> DEFINE type == "ORDER_CANCELLED"
           events == EventsOf(s, EngineEvent(type, "order", <<>>, image))
<1>6. type \in OrderEventTypes /\ type # "ORDER_REJECTED"
  BY DEF OrderEventTypes
<1>7. Reports(events, s, type, image)
  BY <1>4, <1>6, EventsOfFacts
<1>8. Publish(events)
  BY <1>2, <1>5
<1> HIDE DEF events
<1>9. ops' \in Nat /\ UNCHANGED downstream
  BY <1>3 DEF CancelOrder, downstream
<1>10. BookStep(s, image, events)
  BY <1>4, <1>5, <1>6, <1>7, <1>8, <1>9 DEF BookStep, Reports
<1> QED BY <1>10

\* A submit that was rejected.
LEMMA RejectOrderEffect ==
    ASSUME Typed, NEW s \in Symbol, RejectOrder(s)
    PROVE  \E events : QuietStep(events)
<1> DEFINE type == "ORDER_REJECTED"
           events == EventsOf(s, EngineEvent(type, "order", <<>>, None))
<1>1. type \in OrderEventTypes
  BY DEF OrderEventTypes
<1>2. Reports(events, s, type, None)
  BY <1>1, EventsOfFacts
<1>3. Publish(events) /\ ops' \in Nat /\ UNCHANGED downstream /\ book' = book
  BY DEF RejectOrder, downstream, Typed
<1> HIDE DEF events
<1>4. \A i \in 1..Len(events) : events[i].type # "BOOK_UPDATE"
  <2>1. events \in Seq(StreamEvent) /\ Len(events) \in Nat
    BY <1>2, LenProperties DEF Reports
  <2> QED BY <1>2, <2>1 DEF Reports
<1>5. QuietStep(events)
  BY <1>2, <1>3, <1>4 DEF QuietStep, Reports
<1> QED BY <1>5

\* A round of the publisher.
LEMMA PublishTicksEffect ==
    ASSUME Typed, PublishTicks
    PROVE  \E events : QuietStep(events)
<1> DEFINE tick(i) == [type |-> "TICKER", symbol |-> Symbols[i], of |-> None]
           events == [i \in 1..Len(Symbols) |-> tick(i)]
<1>1. \A i \in 1..Len(Symbols) : tick(i) \in StreamEvent
  BY DEF StreamEvent, OtherTypes, Symbol
<1>2. Len(Symbols) \in Nat
  BY LenProperties
<1>3. events \in Seq(StreamEvent) /\ Len(events) = Len(Symbols)
  BY <1>1, <1>2, IsASeq
<1>4. \A i \in 1..Len(events) : events[i].type # "BOOK_UPDATE"
  BY <1>3
<1>5. Publish(events) /\ ops' \in Nat /\ UNCHANGED downstream /\ book' = book
  BY DEF PublishTicks, downstream, Typed
<1> HIDE DEF events
<1>6. QuietStep(events)
  BY <1>3, <1>4, <1>5 DEF QuietStep
<1> QED BY <1>6

-----------------------------------------------------------------------------
(* What the broadcast loop, the endpoint and the client do.                *)

\* The changes between two images are levels.
LEMMA ChangesTyped ==
    ASSUME NEW a \in Levels, NEW b \in Levels
    PROVE  Changes(a, b) \in UNION {[changed -> 0..MaxLevel] : changed \in SUBSET Price}
<1> DEFINE D == {p \in Price : b[p] # a[p]}
<1>1. Changes(a, b) = [p \in D |-> b[p]]
  BY DEF Changes
<1>2. Changes(a, b) \in [D -> 0..MaxLevel]
  BY <1>1 DEF Levels
<1>3. D \in SUBSET Price
  OBVIOUS
<1> HIDE DEF D
<1> QED BY <1>2, <1>3

\* A snapshot message is a message about the book.
LEMMA SnapshotTyped ==
    ASSUME NEW s \in Symbol, NEW image \in Image
    PROVE  SnapshotMessage(s, image) \in BookMessage
BY DEF SnapshotMessage, BookMessage, BookMessages, Message, Image

\* The projector makes a message about the book.
LEMMA ProjectTyped ==
    ASSUME Typed, NEW s \in Symbol, NEW image \in Image
    PROVE  Project(s, image) \in BookMessage
<1>1. CASE prior[s] = None
  BY <1>1, SnapshotTyped DEF Project
<1>2. CASE prior[s] # None
  <2>1. prior[s] \in Image
    BY <1>2 DEF Typed
  <2>2. /\ prior[s].sequence \in Nat /\ prior[s].levels \in Levels
        /\ image.sequence \in Nat /\ image.levels \in Levels
    BY <2>1 DEF Image
  <2>3. Changes(prior[s].levels, image.levels)
          \in UNION {[changed -> 0..MaxLevel] : changed \in SUBSET Price}
    BY <2>2, ChangesTyped
  <2> DEFINE d == Project(s, image)
  <2>4. d = [type |-> "BOOK_DELTA", symbol |-> s, previous_sequence |-> prior[s].sequence,
             sequence |-> image.sequence, changes |-> Changes(prior[s].levels, image.levels)]
    BY <1>2 DEF Project
  <2>5. d \in Message
    BY <2>2, <2>3, <2>4 DEF Message
  <2>6. d.type = "BOOK_DELTA"
    BY <2>4
  <2> HIDE DEF d
  <2> QED BY <2>5, <2>6 DEF BookMessage, BookMessages, d
<1> QED BY <1>1, <1>2

\* The loop takes the first event; a book update becomes a message about the book and
\* the image the next one is compared with, anything else does not touch the projector.
LEMMA TakeEventEffect ==
    ASSUME Typed, TakeEvent
    PROVE  /\ sending = None /\ queue # <<>>
           /\ queue[1] \in StreamEvent /\ queue[1].symbol \in Symbol
           /\ queue' \in Seq(StreamEvent) /\ Len(queue') = Len(queue) - 1
           /\ \A i \in 1..Len(queue') : queue'[i] = queue[i + 1]
           /\ queue[1].type = "BOOK_UPDATE" =>
                 /\ queue[1].of \in Image
                 /\ prior' = [prior EXCEPT ![queue[1].symbol] = queue[1].of]
                 /\ sending' = [message |-> Project(queue[1].symbol, queue[1].of),
                                reaches |-> connected /\ queue[1].symbol \in subs]
                 /\ sending' \in Sending /\ sending'.message \in BookMessage
           /\ queue[1].type # "BOOK_UPDATE" =>
                 /\ prior' = prior
                 /\ \/ sending' = None
                    \/ sending' \in Sending /\ sending'.message.type \notin BookMessages
<1> DEFINE e == queue[1]
<1>1. sending = None /\ queue # <<>> /\ queue \in Seq(StreamEvent)
  BY DEF TakeEvent, Typed
<1>2. /\ Head(queue) = e /\ queue' = Tail(queue)
  BY <1>1, HeadTailProperties DEF TakeEvent
<1>3. /\ queue' \in Seq(StreamEvent) /\ Len(queue') = Len(queue) - 1
      /\ \A i \in 1..Len(queue') : queue'[i] = queue[i + 1]
  BY <1>1, <1>2, HeadTailProperties
<1>4. e \in StreamEvent
  BY <1>1, <1>2, HeadTailProperties
<1>5. e.symbol \in Symbol /\ (e.type = "BOOK_UPDATE" => e.of \in Image)
      /\ (e.type # "BOOK_UPDATE" => e.type \in OtherTypes)
  BY <1>4 DEF StreamEvent, OtherTypes, OrderEventTypes
<1> DEFINE message == IF e.type = "BOOK_UPDATE" THEN Project(e.symbol, e.of) ELSE ToWsMessage(e)
           reaches == connected /\ e.symbol \in subs
<1>6. /\ prior' = (IF e.type = "BOOK_UPDATE" THEN [prior EXCEPT ![e.symbol] = e.of] ELSE prior)
      /\ sending' = IF message = None THEN None ELSE [message |-> message, reaches |-> reaches]
  BY <1>2 DEF TakeEvent
<1> HIDE DEF e
<1>7. reaches \in BOOLEAN
  BY DEF Typed
<1>8. CASE e.type = "BOOK_UPDATE"
  <2>1. message = Project(e.symbol, e.of)
    BY <1>8
  <2>2. message \in BookMessage
    BY <1>5, <1>8, <2>1, ProjectTyped
  <2> HIDE DEF message, reaches
  <2>3. message \in Message /\ message # None
    BY <2>2 DEF BookMessage
  <2>4. sending' = [message |-> message, reaches |-> reaches]
    BY <1>6, <2>3
  <2>5. sending' \in Sending /\ sending'.message = message
    BY <1>7, <2>3, <2>4 DEF Sending
  <2>6. prior' = [prior EXCEPT ![e.symbol] = e.of]
    BY <1>6, <1>8
  <2> QED BY <1>1, <1>3, <1>4, <1>5, <1>8, <2>1, <2>2, <2>4, <2>5, <2>6 DEF e, reaches
<1>9. CASE e.type # "BOOK_UPDATE"
  <2>1. message = ToWsMessage(e)
    BY <1>9
  <2>2. message = None \/ (message \in Message /\ message.type \notin BookMessages)
    BY <1>5, <1>9, <2>1 DEF ToWsMessage, Message, BookMessages
  <2> HIDE DEF message, reaches
  <2>3. sending' = None \/ (sending' \in Sending /\ sending'.message.type \notin BookMessages)
    BY <1>6, <1>7, <2>2 DEF Sending
  <2>4. prior' = prior
    BY <1>6, <1>9
  <2> QED BY <1>1, <1>3, <1>4, <1>5, <1>9, <2>3, <2>4 DEF e
<1> QED BY <1>8, <1>9

\* Appending a message to the channel.
LEMMA ChannelAppend ==
    ASSUME Typed, NEW m \in BookMessage, channel' = Append(channel, m)
    PROVE  /\ channel' \in Seq(BookMessage)
           /\ Len(channel) \in Nat /\ Len(channel') = Len(channel) + 1
           /\ \A i \in 1..Len(channel) : channel'[i] = channel[i]
           /\ channel'[Len(channel) + 1] = m
BY AppendProperties, LenProperties DEF Typed

\* A message that is sent reaches the channel if it is meant for the client and is
\* about the book.
LEMMA SendEffect ==
    ASSUME Typed, Send
    PROVE  /\ sending \in Sending /\ sending # None /\ sending' = None
           /\ sending.reaches \in BOOLEAN /\ sending.message \in Message
           /\ IF sending.reaches /\ sending.message.type \in BookMessages
              THEN /\ sending.message \in BookMessage
                   /\ channel' = Append(channel, sending.message)
              ELSE channel' = channel
           /\ channel' \in Seq(BookMessage)
<1>1. sending \in Sending /\ sending # None /\ sending' = None
      /\ channel' = IF sending.reaches /\ sending.message.type \in BookMessages
                    THEN Append(channel, sending.message) ELSE channel
  BY DEF Send, Typed
<1>2. sending.reaches \in BOOLEAN /\ sending.message \in Message
  BY <1>1 DEF Sending
<1>3. CASE sending.reaches /\ sending.message.type \in BookMessages
  <2>1. sending.message \in BookMessage
    BY <1>2, <1>3 DEF BookMessage
  <2>2. channel' = Append(channel, sending.message)
    BY <1>1, <1>3
  <2>3. channel' \in Seq(BookMessage)
    BY <2>1, <2>2, ChannelAppend
  <2> QED BY <1>1, <1>2, <1>3, <2>1, <2>2, <2>3
<1>4. CASE ~(sending.reaches /\ sending.message.type \in BookMessages)
  BY <1>1, <1>2, <1>4 DEF Typed
<1> QED BY <1>3, <1>4

\* A subscription and a snapshot of subscribe_all put the engine's book into the
\* channel, as it is at that moment.
LEMMA SnapshotEffect ==
    ASSUME Typed, Subscribe \/ SendSnapshot
    PROVE  /\ todo # <<>> /\ todo \in Seq(Task) /\ Head(todo) \in Task
           /\ todo' \in Seq(Task)
           /\ book[Head(todo).symbol] \in Image
           /\ SnapshotMessage(Head(todo).symbol, book[Head(todo).symbol]) \in BookMessage
           /\ channel' = Append(channel, SnapshotMessage(Head(todo).symbol,
                                                         book[Head(todo).symbol]))
           /\ channel' \in Seq(BookMessage)
<1>1. /\ todo # <<>> /\ todo \in Seq(Task) /\ todo' = Tail(todo)
      /\ channel' = Append(channel, SnapshotMessage(Head(todo).symbol,
                                                    book[Head(todo).symbol]))
  BY DEF Subscribe, SendSnapshot, Typed
<1>2. Head(todo) \in Task /\ todo' \in Seq(Task)
  BY <1>1, HeadTailProperties
<1>3. Head(todo).symbol \in Symbol
  BY <1>2 DEF Task
<1> DEFINE s == Head(todo).symbol
           m == SnapshotMessage(s, book[s])
<1>4. book[s] \in Image
  BY <1>3 DEF Typed
<1>5. m \in BookMessage
  BY <1>3, <1>4, SnapshotTyped
<1>6. channel' = Append(channel, m)
  BY <1>1
<1> HIDE DEF m
<1>7. channel' \in Seq(BookMessage)
  BY <1>5, <1>6, ChannelAppend
<1> QED BY <1>1, <1>2, <1>4, <1>5, <1>7 DEF m

\* What a message about the book holds.
LEMMA BookMessageFields ==
    ASSUME NEW m \in BookMessage
    PROVE  /\ m.type \in {"BOOK_SNAPSHOT", "BOOK_DELTA"} /\ m.symbol \in Symbol
           /\ m.sequence \in Nat
           /\ m.type = "BOOK_SNAPSHOT" => m.levels \in Levels
           /\ m.type = "BOOK_DELTA" =>
                 /\ m.previous_sequence \in Nat
                 /\ \E changed \in SUBSET Price : m.changes \in [changed -> 0..MaxLevel]
<1>1. m.type \in {"BOOK_SNAPSHOT", "BOOK_DELTA"} /\ m \in Message
  BY DEF BookMessage, BookMessages
<1>2. CASE m.type = "BOOK_SNAPSHOT"
  BY <1>1, <1>2 DEF Message
<1>3. CASE m.type = "BOOK_DELTA"
  <2>1. /\ m.symbol \in Symbol /\ m.sequence \in Nat /\ m.previous_sequence \in Nat
        /\ m.changes \in UNION {[changed -> 0..MaxLevel] : changed \in SUBSET Price}
    BY <1>1, <1>3 DEF Message
  <2> QED BY <1>3, <2>1
<1> QED BY <1>1, <1>2, <1>3

\* Levels stay levels when changes are applied.
LEMMA AppliedTyped ==
    ASSUME NEW levels \in Levels, NEW changed \in SUBSET Price,
           NEW changes \in [changed -> 0..MaxLevel]
    PROVE  Applied(levels, changes) \in Levels
BY DEF Applied, Levels

\* The client takes over a snapshot, and the changes of a delta that continues its book.
LEMMA ReceiveEffect ==
    ASSUME Typed, Receive
    PROVE  /\ channel # <<>> /\ Len(channel) \in Nat /\ Len(channel) >= 1
           /\ channel[1] \in BookMessage
           /\ channel' \in Seq(BookMessage) /\ Len(channel') = Len(channel) - 1
           /\ \A i \in 1..Len(channel') : channel'[i] = channel[i + 1]
           /\ client' \in ClientBook \union {None}
           /\ channel[1].type = "BOOK_SNAPSHOT" =>
                 client' = [symbol |-> channel[1].symbol, sequence |-> channel[1].sequence,
                            levels |-> channel[1].levels]
           /\ channel[1].type = "BOOK_DELTA" =>
                 IF client # None /\ channel[1].previous_sequence = client.sequence
                 THEN client' = [client EXCEPT !.sequence = channel[1].sequence,
                                    !.levels = Applied(client.levels, channel[1].changes)]
                 ELSE client' = client
<1> DEFINE m == channel[1]
<1>1. channel # <<>> /\ channel \in Seq(BookMessage) /\ channel' = Tail(channel)
  BY DEF Receive, Typed
<1>2. /\ Head(channel) = m /\ m \in BookMessage
      /\ channel' \in Seq(BookMessage) /\ Len(channel') = Len(channel) - 1
      /\ \A i \in 1..Len(channel') : channel'[i] = channel[i + 1]
      /\ Len(channel) \in Nat /\ Len(channel) >= 1
  <2>1. Head(channel) = m /\ Head(channel) \in BookMessage
    BY <1>1, HeadTailProperties
  <2>2. /\ channel' \in Seq(BookMessage) /\ Len(channel') = Len(channel) - 1
        /\ \A i \in 1..Len(channel') : channel'[i] = channel[i + 1]
    BY <1>1, HeadTailProperties
  <2>3. Len(channel) \in Nat /\ Len(channel) >= 1
    BY <1>1, LenProperties, EmptySeq
  <2> QED BY <2>1, <2>2, <2>3
<1>3. ReceiveSnapshot(m) \/ ReceiveDelta(m)
  BY <1>2 DEF Receive
<1> HIDE DEF m
<1>4. CASE m.type = "BOOK_SNAPSHOT"
  <2>1. client' = [symbol |-> m.symbol, sequence |-> m.sequence, levels |-> m.levels]
    BY <1>3, <1>4 DEF ReceiveSnapshot, ReceiveDelta
  <2>2. m.symbol \in Symbol /\ m.sequence \in Nat /\ m.levels \in Levels
    BY <1>2, <1>4, BookMessageFields
  <2>3. client' \in ClientBook
    BY <2>1, <2>2 DEF ClientBook
  <2> QED BY <1>1, <1>2, <1>4, <2>1, <2>3 DEF m
<1>5. CASE m.type = "BOOK_DELTA"
  <2>1. ReceiveDelta(m)
    BY <1>3, <1>5 DEF ReceiveSnapshot
  <2>2. CASE client # None /\ m.previous_sequence = client.sequence
    <3>1. client' = [client EXCEPT !.sequence = m.sequence,
                                   !.levels = Applied(client.levels, m.changes)]
      BY <2>1, <2>2 DEF ReceiveDelta, Contiguous
    <3>2. PICK changed \in SUBSET Price : m.changes \in [changed -> 0..MaxLevel]
      BY <1>2, <1>5, BookMessageFields
    <3>3. m.sequence \in Nat
      BY <1>2, BookMessageFields
    <3>4. client \in ClientBook
      BY <2>2 DEF Typed
    <3>5. Applied(client.levels, m.changes) \in Levels
      <4>1. client.levels \in Levels
        BY <3>4 DEF ClientBook
      <4> QED BY <3>2, <4>1, AppliedTyped
    <3>6. client' \in ClientBook
      BY <3>1, <3>3, <3>4, <3>5 DEF ClientBook
    <3> QED BY <1>1, <1>2, <1>5, <2>2, <3>1, <3>6 DEF m
  <2>3. CASE ~(client # None /\ m.previous_sequence = client.sequence)
    <3>1. client' = client
      BY <2>1, <2>3 DEF ReceiveDelta, Contiguous
    <3> QED BY <1>1, <1>2, <1>5, <2>3, <3>1 DEF m, Typed
  <2> QED BY <2>2, <2>3
<1>6. m.type \in {"BOOK_SNAPSHOT", "BOOK_DELTA"}
  BY <1>2, BookMessageFields
<1> QED BY <1>4, <1>5, <1>6

\* Every step keeps the types.
LEMMA TypedStep == Typed /\ [Next]_vars => Typed'
<1> SUFFICES ASSUME Typed, [Next]_vars PROVE Typed'
  OBVIOUS
<1>1. ASSUME NEW s \in Symbol, NEW image, NEW events, BookStep(s, image, events)
      PROVE  Typed'
  <2>1. events \in Seq(StreamEvent) /\ Publish(events)
    BY <1>1 DEF BookStep
  <2>2. queue' \in Seq(StreamEvent) /\ Len(queue') <= QueueDepth /\ dropped' \in Nat
    BY <2>1, PublishEffect
  <2>3. book' \in [Symbol -> Image]
    BY <1>1 DEF BookStep, Typed
  <2> QED BY <1>1, <2>2, <2>3 DEF BookStep, downstream, Typed
<1>2. ASSUME NEW events, QuietStep(events)
      PROVE  Typed'
  <2>1. events \in Seq(StreamEvent) /\ Publish(events)
    BY <1>2 DEF QuietStep
  <2>2. queue' \in Seq(StreamEvent) /\ Len(queue') <= QueueDepth /\ dropped' \in Nat
    BY <2>1, PublishEffect
  <2> QED BY <1>2, <2>2 DEF QuietStep, downstream, Typed
<1>3. CASE Engine
  BY <1>1, <1>2, <1>3, SubmitOrderEffect, CancelOrderEffect, RejectOrderEffect DEF Engine
<1>4. CASE PublishTicks
  BY <1>2, <1>4, PublishTicksEffect
<1>5. CASE TakeEvent
  <2>1. /\ queue' \in Seq(StreamEvent) /\ Len(queue') = Len(queue) - 1
        /\ sending' \in Sending \union {None}
        /\ prior' \in [Symbol -> Image \union {None}]
    <3>1. CASE queue[1].type = "BOOK_UPDATE"
      BY <1>5, <3>1, TakeEventEffect DEF Typed
    <3>2. CASE queue[1].type # "BOOK_UPDATE"
      BY <1>5, <3>2, TakeEventEffect DEF Typed
    <3> QED BY <3>1, <3>2
  <2>2. Len(queue) \in Nat /\ Len(queue) <= QueueDepth /\ QueueDepth \in Nat
    BY LenProperties DEF Typed
  <2>3. Len(queue') <= QueueDepth
    BY <2>1, <2>2
  <2> QED BY <1>5, <2>1, <2>3 DEF TakeEvent, Typed
<1>6. CASE Send
  BY <1>6, SendEffect DEF Send, Typed
<1>7. CASE Connect
  <2>1. /\ [action |-> "subscribe", symbol |-> Mine] \in Task
        /\ [action |-> "subscribe_all", symbol |-> Mine] \in Task
    BY DEF Task
  <2>2. todo' \in Seq(Task)
    BY <1>7, <2>1, TuplesOf DEF Connect
  <2> QED BY <1>7, <2>2 DEF Connect, Typed
<1>8. CASE Disconnect
  <2>1. sending' \in Sending \union {None}
    BY <1>8 DEF Disconnect, Typed, Sending
  <2>2. todo' \in Seq(Task) /\ channel' \in Seq(BookMessage)
    BY <1>8, EmptySeq DEF Disconnect
  <2> QED BY <1>8, <2>1, <2>2 DEF Disconnect, Typed
<1>9. CASE Subscribe
  <2>1. /\ todo' \in Seq(Task) /\ channel' \in Seq(BookMessage) /\ Head(todo) \in Task
    BY <1>9, SnapshotEffect
  <2>2. subs' \subseteq Symbol
    BY <1>9, <2>1 DEF Subscribe, Typed, Task
  <2> QED BY <1>9, <2>1, <2>2 DEF Subscribe, Typed
<1>10. CASE SubscribeAll
  <2> DEFINE each == [i \in 1..Len(Symbols) |-> [action |-> "snapshot", symbol |-> Symbols[i]]]
  <2>1. todo # <<>> /\ todo \in Seq(Task) /\ todo' = each \o Tail(todo) /\ subs' = Symbol
    BY <1>10 DEF SubscribeAll, Typed
  <2>2. Tail(todo) \in Seq(Task)
    BY <2>1, HeadTailProperties
  <2>3. \A i \in 1..Len(Symbols) : [action |-> "snapshot", symbol |-> Symbols[i]] \in Task
    BY DEF Task, Symbol
  <2>4. each \in Seq(Task)
    BY <2>3, LenProperties, IsASeq
  <2> HIDE DEF each
  <2>5. todo' \in Seq(Task)
    BY <2>1, <2>2, <2>4, ConcatProperties
  <2> QED BY <1>10, <2>1, <2>5 DEF SubscribeAll, Typed
<1>11. CASE SendSnapshot
  BY <1>11, SnapshotEffect DEF SendSnapshot, Typed
<1>12. CASE Receive
  BY <1>12, ReceiveEffect DEF Receive, Typed
<1>13. CASE UNCHANGED vars
  BY <1>13 DEF vars, Typed
<1> QED BY <1>3, <1>4, <1>5, <1>6, <1>7, <1>8, <1>9, <1>10, <1>11, <1>12, <1>13
        DEF Next, Broadcast, Endpoint, Quiet

-----------------------------------------------------------------------------
(* Deltas never go back, whatever is dropped.                              *)

\* Event i of the queue is an image of the book of s.
UpdateAt(i, s) == queue[i].type = "BOOK_UPDATE" /\ queue[i].symbol = s

\* The image last projected, those in the queue and the book follow each other, symbol
\* by symbol.
ImagesInOrder ==
    \A s \in Symbol :
        /\ prior[s] # None => prior[s].sequence <= book[s].sequence
        /\ \A i \in 1..Len(queue) : UpdateAt(i, s) =>
              /\ queue[i].of.sequence <= book[s].sequence
              /\ prior[s] # None => prior[s].sequence <= queue[i].of.sequence
              /\ \A j \in 1..Len(queue) :
                    i < j /\ UpdateAt(j, s) => queue[i].of.sequence <= queue[j].of.sequence

GoesForward(m) == m.type = "BOOK_DELTA" => m.previous_sequence <= m.sequence

DeltasForward ==
    /\ \A j \in 1..Len(channel) : GoesForward(channel[j])
    /\ sending # None => GoesForward(sending.message)

ForwardInv == Typed /\ ImagesInOrder /\ DeltasForward

\* The sequence numbers that are compared are numbers.
LEMMA ImageNumbers ==
    ASSUME Typed
    PROVE  /\ \A s \in Symbol : book[s].sequence \in Nat
           /\ \A s \in Symbol : prior[s] # None => prior[s] \in Image /\ prior[s].sequence \in Nat
           /\ \A i \in 1..Len(queue) : queue[i].type = "BOOK_UPDATE" =>
                 queue[i].of \in Image /\ queue[i].of.sequence \in Nat
<1>1. \A s \in Symbol : book[s].sequence \in Nat
  BY DEF Typed, Image
<1>2. \A s \in Symbol : prior[s] # None => prior[s] \in Image /\ prior[s].sequence \in Nat
  BY DEF Typed, Image
<1>3. \A i \in 1..Len(queue) : queue[i] \in StreamEvent
  BY ElementOfSeq DEF Typed
<1>4. \A i \in 1..Len(queue) : queue[i].type = "BOOK_UPDATE" =>
         queue[i].of \in Image /\ queue[i].of.sequence \in Nat
  BY <1>3 DEF StreamEvent, OtherTypes, OrderEventTypes, Image
<1> QED BY <1>1, <1>2, <1>4

\* A step that leaves the sending side alone keeps DeltasForward.
LEMMA DownstreamForward ==
    ASSUME DeltasForward, UNCHANGED <<channel, sending>>
    PROVE  DeltasForward'
BY DEF DeltasForward

\* Every step keeps the order of the images and the direction of the deltas.
LEMMA ForwardStep == ForwardInv /\ [Next]_vars => ForwardInv'
<1> SUFFICES ASSUME Typed, ImagesInOrder, DeltasForward, [Next]_vars, Typed'
             PROVE  ImagesInOrder' /\ DeltasForward'
  BY TypedStep DEF ForwardInv
<1> DEFINE n == Len(queue)
<1>1. n \in Nat /\ Len(channel) \in Nat
  BY LenProperties DEF Typed
<1>2. ASSUME NEW t \in Symbol, NEW image, NEW events, BookStep(t, image, events)
      PROVE  ImagesInOrder' /\ DeltasForward'
  <2>1. /\ events \in Seq(StreamEvent) /\ Publish(events) /\ Len(events) >= 1
        /\ \A i \in 1..Len(events) : i < Len(events) => events[i].type # "BOOK_UPDATE"
        /\ events[Len(events)] = [type |-> "BOOK_UPDATE", symbol |-> t, of |-> image]
        /\ image \in Image /\ book[t].sequence <= image.sequence
        /\ book' = [book EXCEPT ![t] = image] /\ prior' = prior
    BY <1>2 DEF BookStep, downstream
  <2>2. /\ n <= Len(queue') /\ Len(queue') <= n + Len(events)
        /\ \A i \in 1..n : queue'[i] = queue[i]
        /\ \A i \in 1..Len(queue') : i > n => queue'[i] = events[i - n]
    BY <2>1, PublishEffect
  <2>3. Len(events) \in Nat /\ Len(queue') \in Nat
    BY <2>1, LenProperties DEF Typed
  <2>4. \A s \in Symbol : book[s].sequence <= book'[s].sequence
    <3> SUFFICES ASSUME NEW s \in Symbol PROVE book[s].sequence <= book'[s].sequence
      OBVIOUS
    <3>1. book[s].sequence \in Nat
      BY ImageNumbers
    <3>2. book \in [Symbol -> Image]
      BY DEF Typed
    <3>3. CASE s = t
      BY <2>1, <3>2, <3>3
    <3>4. CASE s # t
      <4>1. book'[s] = book[s]
        BY <2>1, <3>2, <3>4
      <4> QED BY <3>1, <4>1
    <3> QED BY <3>3, <3>4
  <2>5. \A i \in 1..Len(queue') : i > n /\ queue'[i].type = "BOOK_UPDATE" =>
           queue'[i].symbol = t /\ queue'[i].of = book'[t] /\ i = n + Len(events)
    <3> SUFFICES ASSUME NEW i \in 1..Len(queue'), i > n, queue'[i].type = "BOOK_UPDATE"
                 PROVE  queue'[i].symbol = t /\ queue'[i].of = book'[t] /\ i = n + Len(events)
      OBVIOUS
    <3>1. i - n \in 1..Len(events) /\ queue'[i] = events[i - n]
      BY <1>1, <2>2, <2>3
    <3>2. i - n = Len(events)
      <4>1. events[i - n].type = "BOOK_UPDATE"
        BY <3>1
      <4>2. ~(i - n < Len(events))
        BY <2>1, <3>1, <4>1
      <4>3. \A k \in 1..Len(events) : k < Len(events) \/ k = Len(events)
        BY <2>3
      <4> QED BY <3>1, <4>2, <4>3, Zenon
    <3>3. book'[t] = image
      BY <2>1 DEF Typed
    <3> QED BY <1>1, <2>1, <2>3, <3>1, <3>2, <3>3
  <2>6. ImagesInOrder'
    <3> SUFFICES ASSUME NEW s \in Symbol
                 PROVE  /\ prior[s] # None => prior[s].sequence <= book'[s].sequence
                        /\ \A i \in 1..Len(queue') : UpdateAt(i, s)' =>
                              /\ queue'[i].of.sequence <= book'[s].sequence
                              /\ prior[s] # None => prior[s].sequence <= queue'[i].of.sequence
                              /\ \A j \in 1..Len(queue') :
                                    i < j /\ UpdateAt(j, s)' =>
                                       queue'[i].of.sequence <= queue'[j].of.sequence
      BY <2>1 DEF ImagesInOrder
    <3>1. book[s].sequence \in Nat /\ book'[s].sequence \in Nat
          /\ book[s].sequence <= book'[s].sequence
      <4>1. book[s].sequence \in Nat
        BY ImageNumbers
      <4>2. book'[s].sequence \in Nat
        BY DEF Typed, Image
      <4> QED BY <2>4, <4>1, <4>2
    <3>2. prior[s] # None => /\ prior[s].sequence \in Nat
                             /\ prior[s].sequence <= book[s].sequence
      BY ImageNumbers DEF ImagesInOrder
    <3>3. ASSUME NEW i \in 1..Len(queue'), UpdateAt(i, s)'
          PROVE  /\ queue'[i].of.sequence \in Nat
                 /\ queue'[i].of.sequence <= book'[s].sequence
                 /\ prior[s] # None => prior[s].sequence <= queue'[i].of.sequence
                 /\ i > n => queue'[i].of.sequence = book'[s].sequence
      <4>1. CASE i \in 1..n
        <5>1. queue'[i] = queue[i] /\ UpdateAt(i, s)
          BY <2>2, <3>3, <4>1 DEF UpdateAt
        <5>2. queue[i].of.sequence \in Nat
          BY <4>1, <5>1, ImageNumbers DEF UpdateAt
        <5> QED BY <1>1, <3>1, <3>2, <4>1, <5>1, <5>2 DEF ImagesInOrder
      <4>2. CASE i > n
        <5>1. queue'[i].of = book'[s]
          BY <2>5, <3>3, <4>2 DEF UpdateAt
        <5> QED BY <3>1, <3>2, <5>1
      <4> QED BY <1>1, <2>3, <4>1, <4>2
    <3>4. ASSUME NEW i \in 1..Len(queue'), NEW j \in 1..Len(queue'), i < j,
                 UpdateAt(i, s)', UpdateAt(j, s)'
          PROVE  queue'[i].of.sequence <= queue'[j].of.sequence
      <4>1. CASE j \in 1..n
        <5>1. i \in 1..n
          BY <1>1, <2>3, <3>4, <4>1
        <5>2. /\ queue'[i] = queue[i] /\ UpdateAt(i, s)
              /\ queue'[j] = queue[j] /\ UpdateAt(j, s)
          BY <2>2, <3>4, <4>1, <5>1 DEF UpdateAt
        <5> QED BY <3>4, <4>1, <5>1, <5>2 DEF ImagesInOrder
      <4>2. CASE j > n
        BY <3>3, <3>4, <4>2
      <4> QED BY <1>1, <2>3, <4>1, <4>2
    <3> QED BY <3>1, <3>2, <3>3, <3>4
  <2> QED BY <1>2, <2>6, DownstreamForward DEF BookStep, downstream
<1>3. ASSUME NEW events, QuietStep(events)
      PROVE  ImagesInOrder' /\ DeltasForward'
  <2>1. /\ events \in Seq(StreamEvent) /\ Publish(events)
        /\ \A i \in 1..Len(events) : events[i].type # "BOOK_UPDATE"
        /\ book' = book /\ prior' = prior
    BY <1>3 DEF QuietStep, downstream
  <2>2. /\ n <= Len(queue') /\ Len(queue') <= n + Len(events)
        /\ \A i \in 1..n : queue'[i] = queue[i]
        /\ \A i \in 1..Len(queue') : i > n => queue'[i] = events[i - n]
    BY <2>1, PublishEffect
  <2>3. Len(events) \in Nat /\ Len(queue') \in Nat
    BY <2>1, LenProperties DEF Typed
  <2>4. \A i \in 1..Len(queue'), s \in Symbol : UpdateAt(i, s)' =>
           i \in 1..n /\ queue'[i] = queue[i] /\ UpdateAt(i, s)
    <3> SUFFICES ASSUME NEW i \in 1..Len(queue'), NEW s \in Symbol, UpdateAt(i, s)'
                 PROVE  i \in 1..n /\ queue'[i] = queue[i] /\ UpdateAt(i, s)
      OBVIOUS
    <3>1. CASE i > n
      <4>1. i - n \in 1..Len(events)
        BY <1>1, <2>2, <2>3, <3>1
      <4> QED BY <2>1, <2>2, <3>1, <4>1 DEF UpdateAt
    <3>2. CASE i \in 1..n
      BY <2>2, <3>2 DEF UpdateAt
    <3> QED BY <1>1, <2>3, <3>1, <3>2
  <2>5. ImagesInOrder'
    BY <2>1, <2>4 DEF ImagesInOrder
  <2> QED BY <1>3, <2>5, DownstreamForward DEF QuietStep, downstream
<1>4. CASE Engine
  BY <1>2, <1>3, <1>4, SubmitOrderEffect, CancelOrderEffect, RejectOrderEffect DEF Engine
<1>5. CASE PublishTicks
  BY <1>3, <1>5, PublishTicksEffect
<1>6. CASE TakeEvent
  <2>1. /\ queue # <<>> /\ n >= 1 /\ book' = book /\ channel' = channel
        /\ Len(queue') = n - 1 /\ \A i \in 1..Len(queue') : queue'[i] = queue[i + 1]
        /\ queue[1].symbol \in Symbol
    BY <1>1, <1>6, TakeEventEffect, EmptySeq DEF TakeEvent, Typed
  <2>2. \A i \in 1..Len(queue'), s \in Symbol : UpdateAt(i, s)' =>
           i + 1 \in 1..n /\ 1 < i + 1 /\ queue'[i] = queue[i + 1] /\ UpdateAt(i + 1, s)
    BY <1>1, <2>1 DEF UpdateAt
  <2>3. CASE queue[1].type # "BOOK_UPDATE"
    <3>1. /\ prior' = prior
          /\ \/ sending' = None
             \/ sending' \in Sending /\ sending'.message.type \notin BookMessages
      BY <1>6, <2>3, TakeEventEffect
    <3>2. ImagesInOrder'
      <4> SUFFICES ASSUME NEW s \in Symbol
                   PROVE  /\ prior[s] # None => prior[s].sequence <= book[s].sequence
                          /\ \A i \in 1..Len(queue') : UpdateAt(i, s)' =>
                                /\ queue'[i].of.sequence <= book[s].sequence
                                /\ prior[s] # None => prior[s].sequence <= queue'[i].of.sequence
                                /\ \A j \in 1..Len(queue') :
                                      i < j /\ UpdateAt(j, s)' =>
                                         queue'[i].of.sequence <= queue'[j].of.sequence
        BY <2>1, <3>1 DEF ImagesInOrder
      <4>1. \A i, j \in 1..Len(queue') : i < j => i + 1 < j + 1
        BY <1>1, <2>1
      <4> QED BY <2>2, <4>1 DEF ImagesInOrder
    <3>3. DeltasForward'
      BY <2>1, <3>1 DEF DeltasForward, GoesForward, BookMessages
    <3> QED BY <3>2, <3>3
  <2>4. CASE queue[1].type = "BOOK_UPDATE"
    <3>1. PICK t \in Symbol, u \in Image : t = queue[1].symbol /\ u = queue[1].of
      BY <1>6, <2>1, <2>4, TakeEventEffect
    <3>2. /\ u \in Image /\ prior' = [prior EXCEPT ![t] = u]
          /\ sending' = [message |-> Project(t, u), reaches |-> connected /\ t \in subs]
      BY <1>6, <2>4, <3>1, TakeEventEffect
    <3>3. UpdateAt(1, t) /\ 1 \in 1..n /\ t \in Symbol
      BY <1>1, <2>1, <2>4, <3>1 DEF UpdateAt
    <3>4. \A s \in Symbol : prior'[s] = IF s = t THEN u ELSE prior[s]
      BY <3>2 DEF Typed
    <3>5. u.sequence \in Nat /\ u.sequence <= book[t].sequence
      BY <3>1, <3>2, <3>3 DEF ImagesInOrder, Image
    <3>6. ASSUME NEW i \in 1..Len(queue'), UpdateAt(i, t)'
          PROVE  u.sequence <= queue'[i].of.sequence
      <4>1. i + 1 \in 1..n /\ 1 < i + 1 /\ queue'[i] = queue[i + 1] /\ UpdateAt(i + 1, t)
        BY <2>2, <3>3, <3>6
      <4>2. queue[1].of.sequence <= queue[i + 1].of.sequence
        BY <3>3, <4>1 DEF ImagesInOrder
      <4> QED BY <3>1, <4>1, <4>2
    <3>7. ImagesInOrder'
      <4> SUFFICES ASSUME NEW s \in Symbol
                   PROVE  /\ prior'[s] # None => prior'[s].sequence <= book[s].sequence
                          /\ \A i \in 1..Len(queue') : UpdateAt(i, s)' =>
                                /\ queue'[i].of.sequence <= book[s].sequence
                                /\ prior'[s] # None => prior'[s].sequence <= queue'[i].of.sequence
                                /\ \A j \in 1..Len(queue') :
                                      i < j /\ UpdateAt(j, s)' =>
                                         queue'[i].of.sequence <= queue'[j].of.sequence
        BY <2>1 DEF ImagesInOrder
      <4>1. \A i, j \in 1..Len(queue') : i < j => i + 1 < j + 1
        BY <1>1, <2>1
      <4>2. prior'[s] # None => prior'[s].sequence <= book[s].sequence
        BY <3>4, <3>5 DEF ImagesInOrder
      <4>3. ASSUME NEW i \in 1..Len(queue'), UpdateAt(i, s)'
            PROVE  /\ queue'[i].of.sequence <= book[s].sequence
                   /\ prior'[s] # None => prior'[s].sequence <= queue'[i].of.sequence
        <5>1. i + 1 \in 1..n /\ queue'[i] = queue[i + 1] /\ UpdateAt(i + 1, s)
          BY <2>2, <4>3
        <5>2. /\ queue[i + 1].of.sequence <= book[s].sequence
              /\ prior[s] # None => prior[s].sequence <= queue[i + 1].of.sequence
          BY <5>1 DEF ImagesInOrder
        <5>3. CASE s = t
          BY <3>4, <3>6, <4>3, <5>1, <5>2, <5>3
        <5>4. CASE s # t
          BY <3>4, <5>1, <5>2, <5>4
        <5> QED BY <5>3, <5>4
      <4>4. ASSUME NEW i \in 1..Len(queue'), NEW j \in 1..Len(queue'), i < j,
                   UpdateAt(i, s)', UpdateAt(j, s)'
            PROVE  queue'[i].of.sequence <= queue'[j].of.sequence
        BY <2>2, <4>1, <4>4 DEF ImagesInOrder
      <4> QED BY <4>2, <4>3, <4>4
    <3>8. GoesForward(Project(t, u))
      <4>1. CASE prior[t] = None
        BY <4>1 DEF Project, SnapshotMessage, GoesForward
      <4>2. CASE prior[t] # None
        <5>1. prior[t].sequence <= u.sequence
          BY <3>1, <3>3, <4>2 DEF ImagesInOrder
        <5> QED BY <4>2, <5>1 DEF Project, GoesForward
      <4> QED BY <4>1, <4>2
    <3>9. DeltasForward'
      <4>1. sending'.message = Project(t, u)
        BY <3>2
      <4> QED BY <2>1, <3>8, <4>1 DEF DeltasForward
    <3> QED BY <3>7, <3>9
  <2> QED BY <2>3, <2>4
<1>7. ASSUME UNCHANGED <<book, prior, queue>>
      PROVE  ImagesInOrder'
  BY <1>7 DEF ImagesInOrder, UpdateAt
<1>8. ASSUME NEW m \in BookMessage, GoesForward(m), channel' = Append(channel, m)
      PROVE  \A j \in 1..Len(channel') : GoesForward(channel'[j])
  <2>1. /\ Len(channel') = Len(channel) + 1
        /\ \A i \in 1..Len(channel) : channel'[i] = channel[i]
        /\ channel'[Len(channel) + 1] = m
    BY <1>8, ChannelAppend
  <2>2. \A j \in 1..Len(channel') : j \in 1..Len(channel) \/ j = Len(channel) + 1
    BY <1>1, <2>1
  <2> QED BY <1>8, <2>1, <2>2 DEF DeltasForward
<1>9. CASE Send
  <2>1. UNCHANGED <<book, prior, queue>> /\ sending # None /\ sending' = None
    BY <1>9 DEF Send
  <2>2. \A j \in 1..Len(channel') : GoesForward(channel'[j])
    <3>1. CASE sending.reaches /\ sending.message.type \in BookMessages
      <4>1. sending.message \in BookMessage /\ channel' = Append(channel, sending.message)
        BY <1>9, <3>1, SendEffect
      <4>2. GoesForward(sending.message)
        BY <2>1 DEF DeltasForward
      <4> QED BY <1>8, <4>1, <4>2
    <3>2. CASE ~(sending.reaches /\ sending.message.type \in BookMessages)
      <4>1. channel' = channel
        BY <1>9, <3>2 DEF Send
      <4> QED BY <4>1 DEF DeltasForward
    <3> QED BY <3>1, <3>2
  <2> QED BY <1>7, <2>1, <2>2 DEF DeltasForward
<1>10. CASE Connect
  BY <1>7, <1>10, DownstreamForward DEF Connect
<1>11. CASE Disconnect
  <2>1. UNCHANGED <<book, prior, queue>> /\ channel' = <<>>
        /\ sending' = IF sending = None THEN None ELSE [sending EXCEPT !.reaches = FALSE]
    BY <1>11 DEF Disconnect
  <2>2. sending' # None => sending # None /\ sending'.message = sending.message
    BY <2>1 DEF Typed, Sending
  <2> QED BY <1>7, <2>1, <2>2 DEF DeltasForward
<1>12. CASE Subscribe \/ SendSnapshot
  <2>1. UNCHANGED <<book, prior, queue, sending>>
    BY <1>12 DEF Subscribe, SendSnapshot
  <2> DEFINE m == SnapshotMessage(Head(todo).symbol, book[Head(todo).symbol])
  <2>2. m \in BookMessage /\ channel' = Append(channel, m)
    BY <1>12, SnapshotEffect
  <2>3. GoesForward(m)
    BY DEF SnapshotMessage, GoesForward
  <2> HIDE DEF m
  <2>4. \A j \in 1..Len(channel') : GoesForward(channel'[j])
    BY <1>8, <2>2, <2>3
  <2> QED BY <1>7, <2>1, <2>4 DEF DeltasForward
<1>13. CASE SubscribeAll
  BY <1>7, <1>13, DownstreamForward DEF SubscribeAll
<1>14. CASE Receive
  <2>1. UNCHANGED <<book, prior, queue, sending>>
    BY <1>14 DEF Receive
  <2>2. Len(channel') = Len(channel) - 1 /\ \A i \in 1..Len(channel') : channel'[i] = channel[i + 1]
    BY <1>14, ReceiveEffect
  <2>3. \A i \in 1..Len(channel') : i + 1 \in 1..Len(channel)
    BY <1>1, <2>2
  <2> QED BY <1>7, <2>1, <2>2, <2>3 DEF DeltasForward
<1>15. CASE UNCHANGED vars
  BY <1>7, <1>15, DownstreamForward DEF vars
<1> QED BY <1>4, <1>5, <1>6, <1>9, <1>10, <1>11, <1>12, <1>13, <1>14, <1>15
        DEF Next, Broadcast, Endpoint, Quiet

\* The types hold initially.
LEMMA InitTyped == Init => Typed
<1> SUFFICES ASSUME Init PROVE Typed
  OBVIOUS
<1>1. Empty \in Levels
  BY DEF Empty, Levels
<1>2. [sequence |-> 0, levels |-> Empty] \in Image
  BY <1>1 DEF Image
<1>3. book \in [Symbol -> Image]
  BY <1>2 DEF Init
<1>4. /\ queue \in Seq(StreamEvent) /\ Len(queue) = 0
      /\ todo \in Seq(Task) /\ channel \in Seq(BookMessage)
  BY EmptySeq DEF Init
<1>5. prior \in [Symbol -> Image \union {None}]
  BY DEF Init
<1>6. ops \in Nat /\ dropped \in Nat /\ connected \in BOOLEAN /\ subs \subseteq Symbol
  BY DEF Init
<1>7. sending \in Sending \union {None} /\ client \in ClientBook \union {None}
  BY DEF Init
<1>8. Len(queue) <= QueueDepth
  BY <1>4
<1> QED BY <1>3, <1>4, <1>5, <1>6, <1>7, <1>8 DEF Typed

\* So does the rest of the invariant, on an empty stream.
LEMMA InitForward == Init => ForwardInv
<1> SUFFICES ASSUME Init PROVE ForwardInv
  OBVIOUS
<1>1. Typed
  BY InitTyped
<1>2. Len(queue) = 0 /\ Len(channel) = 0 /\ sending = None
  BY DEF Init
<1>3. ImagesInOrder
  BY <1>2 DEF Init, ImagesInOrder
<1>4. DeltasForward
  BY <1>2 DEF DeltasForward
<1> QED BY <1>1, <1>3, <1>4 DEF ForwardInv

\* One step never takes the client back by a delta.
LEMMA DeltaStep ==
    ASSUME ForwardInv, [Next]_vars, client # None, client' # client, channel # <<>>,
           Head(channel).type = "BOOK_DELTA"
    PROVE  client'.sequence >= client.sequence
<1>1. Typed /\ DeltasForward
  BY DEF ForwardInv
<1>2. Receive
  BY DEF Next, vars, Engine, SubmitOrder, CancelOrder, RejectOrder, PublishTicks, Broadcast,
         TakeEvent, Send, Connect, Disconnect, Endpoint, Subscribe, SubscribeAll, SendSnapshot
<1> DEFINE m == channel[1]
<1>3. m.type = "BOOK_DELTA" /\ m \in BookMessage /\ 1 \in 1..Len(channel)
  BY <1>1, <1>2, ReceiveEffect, HeadTailProperties DEF Typed
<1>4. /\ client.sequence = m.previous_sequence
      /\ client' = [client EXCEPT !.sequence = m.sequence,
                                  !.levels = Applied(client.levels, m.changes)]
  BY <1>1, <1>2, <1>3, ReceiveEffect
<1>5. client \in ClientBook
  BY <1>1 DEF Typed
<1>6. client'.sequence = m.sequence
  BY <1>4, <1>5 DEF ClientBook
<1>7. m.previous_sequence <= m.sequence /\ m.previous_sequence \in Nat /\ m.sequence \in Nat
  BY <1>1, <1>3, BookMessageFields DEF DeltasForward, GoesForward
<1> QED BY <1>4, <1>6, <1>7

\* However snapshots overtake queued deltas, and whatever the bus drops, a delta never
\* takes the client's book back to an older sequence; for any number of symbols.
THEOREM NeverGoesBack == Spec => DeltasNeverGoBack
<1>1. Init => ForwardInv
  BY InitForward
<1>2. ForwardInv /\ [Next]_vars => ForwardInv'
  BY ForwardStep
<1>3. ForwardInv /\ [Next]_vars =>
        [(/\ client # None /\ client' # client /\ channel # <<>>
          /\ Head(channel).type = "BOOK_DELTA")
         => client'.sequence >= client.sequence]_vars
  BY DeltaStep
<1> QED BY <1>1, <1>2, <1>3, PTL DEF Spec, DeltasNeverGoBack

-----------------------------------------------------------------------------
(* The client converges.  Of the symbols only Mine: a snapshot of another symbol  *)
(* would replace the client's book.  Along the stream from the book back to the   *)
(* client everything is a position in one chain of images C[0], ..., C[N], the    *)
(* last of which is the book; the projector has come to C[P].                      *)

\* Broadcasts of the symbol reach the client.
Live == connected /\ Mine \in subs

\* The loop is about to send the client a message about the book.
Reaching == sending # None /\ sending.reaches /\ sending.message.type \in BookMessages

\* The endpoint subscribes a connection before anything is sent on it.
Session ==
    /\ ~connected => subs = {} /\ todo = <<>>
    /\ ~Live => channel = <<>> /\ (sending # None => ~sending.reaches)
    /\ connected /\ ~Live => todo # <<>> /\ Head(todo).action = "subscribe"

Chain(C, N) ==
    /\ C \in [Nat -> Image] /\ N \in Nat
    /\ C[N] = book[Mine]
    /\ \A i, j \in 0..N : i <= j => C[i].sequence <= C[j].sequence

\* Each queued update is the image after the one before it, from C[P] to the book.
QueueFollows(C, N, P, q) ==
    /\ P \in 0..N /\ q \in [Nat -> Nat]
    /\ prior[Mine] # None => prior[Mine] = C[P]
    /\ q[0] = P /\ q[Len(queue)] = N
    /\ \A i \in 0..Len(queue) : q[i] \in 0..N
    /\ \A i \in 1..Len(queue) :
          IF queue[i].type = "BOOK_UPDATE" THEN q[i] = q[i - 1] + 1 /\ queue[i].of = C[q[i]]
          ELSE q[i] = q[i - 1]

\* A delta leads from C[i] to the next image; a snapshot is C[j] or newer, since the
\* endpoint takes it from the engine past the queue.
Leads(m, C, N, i, j) ==
    /\ i \in 0..N /\ j \in 0..N
    /\ m.type = "BOOK_DELTA" =>
          /\ j = i + 1
          /\ m.previous_sequence = C[i].sequence /\ m.sequence = C[j].sequence
          /\ m.changes = Changes(C[i].levels, C[j].levels)
    /\ m.type = "BOOK_SNAPSHOT" =>
          \E k \in j..N : m.sequence = C[k].sequence /\ m.levels = C[k].levels

\* The client has received all up to C[i].  It shows an image C[k] that may be newer, or is
\* on the way to it again: deltas it has already seen are applied a second time when
\* cancels have kept the sequence number, and then the levels that no image from C[i]
\* to C[k] changes are right.
ClientAt(C, N, i) ==
    /\ client # None
    /\ \E k \in i..N :
          /\ client.sequence = C[k].sequence
          /\ C[i].sequence < C[k].sequence => client.levels = C[k].levels
          /\ \A p \in Price : (\A j \in i..k : C[j].levels[p] = C[k].levels[p]) =>
                client.levels[p] = C[k].levels[p]

\* The messages in the channel and the one being sent lead from the client to C[P].
Delivery(C, N, P, at) ==
    /\ at \in [Nat -> Nat]
    /\ \A i \in 1..Len(channel) : Leads(channel[i], C, N, at[i - 1], at[i])
    /\ IF Reaching THEN Leads(sending.message, C, N, at[Len(channel)], P)
       ELSE at[Len(channel)] = P
    /\ \/ Len(channel) >= 1 /\ channel[1].type = "BOOK_SNAPSHOT"
       \/ ClientAt(C, N, at[0])

Stream(C, N, P, q, at) ==
    Chain(C, N) /\ QueueFollows(C, N, P, q) /\ (Live => Delivery(C, N, P, at))

Followed == \E C, N, P, q, at : Stream(C, N, P, q, at)

StreamInv == Typed /\ Session /\ (dropped = 0 => Followed)

\* Steps that touch neither the book nor the queue leave the chain alone.
LEMMA ChainKept ==
    ASSUME NEW C, NEW N, NEW P, NEW q, Chain(C, N), QueueFollows(C, N, P, q),
           UNCHANGED <<book, queue, prior>>
    PROVE  Chain(C, N)' /\ QueueFollows(C, N, P, q)'
BY DEF Chain, QueueFollows

\* A chain may grow at its end.
LEMMA LeadsOn ==
    ASSUME NEW C \in [Nat -> Image], NEW D \in [Nat -> Image], NEW N \in Nat, NEW M \in Nat,
           N <= M, \A i \in 0..N : D[i] = C[i],
           NEW m, NEW i, NEW j, Leads(m, C, N, i, j)
    PROVE  Leads(m, D, M, i, j)
<1>1. i \in 0..N /\ j \in 0..N /\ i \in 0..M /\ j \in 0..M
  BY DEF Leads
<1>2. D[i] = C[i] /\ D[j] = C[j]
  BY <1>1
<1>3. \A k \in j..N : k \in 0..N /\ k \in j..M
  BY <1>1
<1> QED BY <1>1, <1>2, <1>3 DEF Leads

\* And the client stays where it is.
LEMMA ClientAtOn ==
    ASSUME NEW C \in [Nat -> Image], NEW D \in [Nat -> Image], NEW N \in Nat, NEW M \in Nat,
           N <= M, \A i \in 0..N : D[i] = C[i],
           NEW i \in Nat, ClientAt(C, N, i)
    PROVE  ClientAt(D, M, i)
<1>1. PICK k \in i..N :
          /\ client.sequence = C[k].sequence
          /\ C[i].sequence < C[k].sequence => client.levels = C[k].levels
          /\ \A p \in Price : (\A j \in i..k : C[j].levels[p] = C[k].levels[p]) =>
                client.levels[p] = C[k].levels[p]
  BY DEF ClientAt
<1>2. k \in i..M /\ \A j \in i..k : D[j] = C[j]
  OBVIOUS
<1>3. D[k] = C[k] /\ D[i] = C[i]
  BY <1>2
<1>4. \A p \in Price : (\A j \in i..k : D[j].levels[p] = D[k].levels[p]) =>
                client.levels[p] = D[k].levels[p]
  BY <1>1, <1>2, <1>3
<1> QED BY <1>1, <1>2, <1>3, <1>4 DEF ClientAt

\* Positions r as q up to n, and for l more events: the last is at b, those before it at a.
Placed(r, q, n, l, a, b) ==
    /\ r \in [Nat -> Nat]
    /\ \A i \in 0..n : r[i] = q[i]
    /\ \A i \in Nat : n < i /\ i < n + l => r[i] = a
    /\ l >= 1 => r[n + l] = b

\* There are such positions.
LEMMA Positions ==
    ASSUME NEW q, q \in [Nat -> Nat], NEW n \in Nat, NEW l \in Nat, NEW a \in Nat, NEW b \in Nat
    PROVE  \E r : Placed(r, q, n, l, a, b)
<1>1. PICK r : r = [i \in Nat |-> IF i <= n THEN q[i] ELSE IF i < n + l THEN a ELSE b]
  OBVIOUS
<1>2. r \in [Nat -> Nat]
  BY <1>1
<1>3. \A i \in 0..n : r[i] = q[i]
  BY <1>1
<1>4. \A i \in Nat : n < i /\ i < n + l => r[i] = a
  BY <1>1
<1>5. l >= 1 => r[n + l] = b
  BY <1>1
<1> QED BY <1>2, <1>3, <1>4, <1>5 DEF Placed

\* The engine changes the book: the chain grows by one image, which the queue gets too.
LEMMA BookStepFollowed ==
    ASSUME Typed, Typed', NEW image, NEW events, BookStep(Mine, image, events), Symbol = {Mine},
           dropped' = 0, dropped = 0 => Followed
    PROVE  Followed'
<1>1. /\ events \in Seq(StreamEvent) /\ Publish(events) /\ Len(events) >= 1
      /\ \A i \in 1..Len(events) : i < Len(events) => events[i].type # "BOOK_UPDATE"
      /\ events[Len(events)] = [type |-> "BOOK_UPDATE", symbol |-> Mine, of |-> image]
      /\ image \in Image /\ book[Mine].sequence <= image.sequence
      /\ book' = [book EXCEPT ![Mine] = image]
      /\ UNCHANGED downstream
  BY DEF BookStep
<1>2. /\ dropped = 0 /\ Len(queue') = Len(queue) + Len(events)
      /\ \A i \in 1..Len(queue) : queue'[i] = queue[i]
      /\ \A i \in 1..Len(queue') : i > Len(queue) => queue'[i] = events[i - Len(queue)]
  BY <1>1, PublishEffect
<1>3. PICK C, N, P, q, at : Stream(C, N, P, q, at)
  BY <1>2 DEF Followed
<1>4. C \in [Nat -> Image] /\ N \in Nat /\ C[N] = book[Mine] /\ N + 1 \in Nat
      /\ \A i, j \in 0..N : i <= j => C[i].sequence <= C[j].sequence
  BY <1>3 DEF Stream, Chain
<1>5. PICK n \in Nat, l \in Nat : n = Len(queue) /\ l = Len(events)
  BY <1>1, LenProperties DEF Typed
<1>6. PICK D : D = [C EXCEPT ![N + 1] = image]
  OBVIOUS
<1>7. /\ P \in 0..N /\ q[0] = P /\ q[n] = N
      /\ \A i \in 0..n : q[i] \in 0..N
  BY <1>3, <1>5 DEF Stream, Chain, QueueFollows
<1>8. q \in [Nat -> Nat]
  BY <1>3 DEF Stream, QueueFollows
<1>9. N \in Nat /\ N + 1 \in Nat
  BY <1>4
<1>10. PICK r : Placed(r, q, n, l, N, N + 1)
  BY <1>8, <1>9, Positions
<1>11. /\ \A i \in 0..n : r[i] = q[i]
       /\ \A i \in Nat : n < i /\ i < n + l => r[i] = N
       /\ l >= 1 => r[n + l] = N + 1
  BY <1>10 DEF Placed
<1>12. r \in [Nat -> Nat]
  BY <1>10 DEF Placed
<1>13. /\ D \in [Nat -> Image] /\ D[N + 1] = image
       /\ \A i \in 0..N : D[i] = C[i]
  BY <1>1, <1>4, <1>6
<1>14. book'[Mine] = image
  BY <1>1 DEF Typed
<1>15. Chain(D, N + 1)'
  <2>1. \A i, j \in 0..N + 1 : i <= j => D[i].sequence <= D[j].sequence
    <3> SUFFICES ASSUME NEW i \in 0..N + 1, NEW j \in 0..N + 1, i <= j
                 PROVE  D[i].sequence <= D[j].sequence
      OBVIOUS
    <3>1. CASE j \in 0..N
      BY <1>4, <1>13, <3>1
    <3>2. CASE j = N + 1 /\ i \in 0..N
      <4>1. C[i].sequence <= C[N].sequence /\ C[i] \in Image /\ C[N] \in Image
        BY <1>4, <3>2
      <4>2. D[i] = C[i] /\ D[j] = image
        BY <1>13, <3>2
      <4>3. C[i].sequence \in Nat /\ C[N].sequence \in Nat /\ image.sequence \in Nat
        BY <1>1, <4>1 DEF Image
      <4> QED BY <1>1, <1>4, <4>1, <4>2, <4>3
    <3>3. CASE j = N + 1 /\ i = N + 1
      BY <1>1, <1>13, <3>3 DEF Image
    <3> QED BY <1>4, <3>1, <3>2, <3>3
  <2> QED BY <1>4, <1>13, <1>14, <2>1 DEF Chain
<1>16. QueueFollows(D, N + 1, P, r)'
  <2>1. /\ prior[Mine] # None => prior[Mine] = C[P]
        /\ \A i \in 1..n :
              IF queue[i].type = "BOOK_UPDATE"
              THEN q[i] = q[i - 1] + 1 /\ queue[i].of = C[q[i]] ELSE q[i] = q[i - 1]
    BY <1>3, <1>5 DEF Stream, QueueFollows
  <2>2. l >= 1 /\ 0 \in 0..n /\ n \in 0..n
    BY <1>1, <1>5
  <2>3. r[0] = P /\ r[n] = N /\ r[n + l] = N + 1
    BY <1>7, <1>11, <2>2
  <2>4. P \in 0..N + 1 /\ (prior'[Mine] # None => prior'[Mine] = D[P])
    <3>1. P \in 0..N + 1 /\ D[P] = C[P]
      BY <1>7, <1>13
    <3>2. prior' = prior
      BY <1>1 DEF downstream
    <3> QED BY <2>1, <3>1, <3>2
  <2>5. Len(queue') = n + l
    BY <1>2, <1>5
  <2>6. \A i \in 0..n + l : r[i] \in 0..N + 1
    <3> SUFFICES ASSUME NEW i \in 0..n + l PROVE r[i] \in 0..N + 1
      OBVIOUS
    <3>1. i \in 0..n \/ (n < i /\ i < n + l) \/ i = n + l
      OBVIOUS
    <3>2. CASE i \in 0..n
      <4>1. q[i] \in 0..N /\ r[i] = q[i]
        BY <1>7, <1>11, <3>2
      <4> QED BY <1>9, <4>1
    <3>3. CASE n < i /\ i < n + l
      BY <1>9, <1>11, <3>3
    <3> QED BY <1>9, <2>3, <3>1, <3>2, <3>3
  <2>7. ASSUME NEW i \in 1..n + l
        PROVE  IF queue'[i].type = "BOOK_UPDATE"
               THEN r[i] = r[i - 1] + 1 /\ queue'[i].of = D[r[i]] ELSE r[i] = r[i - 1]
    <3>1. CASE i \in 1..n
      <4>1. i \in 0..n /\ i - 1 \in 0..n
        BY <3>1
      <4>2. r[i] = q[i] /\ r[i - 1] = q[i - 1] /\ queue'[i] = queue[i]
        BY <1>2, <1>5, <1>11, <3>1, <4>1
      <4>3. q[i] \in 0..N
        BY <1>7, <4>1
      <4>4. D[q[i]] = C[q[i]]
        BY <1>13, <4>3
      <4> QED BY <2>1, <3>1, <4>2, <4>4
    <3>2. CASE i > n /\ i < n + l
      <4>1. i - n \in 1..l /\ i - n < l /\ i \in 1..Len(queue')
        BY <2>5, <2>7, <3>2
      <4>2. queue'[i].type # "BOOK_UPDATE"
        BY <1>1, <1>2, <1>5, <3>2, <4>1
      <4>3. r[i] = N /\ r[i - 1] = N
        <5>1. i - 1 = n \/ (i - 1 > n /\ i - 1 < n + l)
          BY <3>2
        <5>2. i \in Nat /\ i - 1 \in Nat /\ n \in 0..n
          BY <3>2
        <5> QED BY <1>11, <2>3, <3>2, <5>1, <5>2
      <4> QED BY <4>2, <4>3
    <3>3. CASE i = n + l
      <4>1. i - n = l /\ i > n /\ i \in 1..Len(queue')
        BY <1>1, <1>5, <2>5, <2>7, <3>3
      <4>2. queue'[i] = [type |-> "BOOK_UPDATE", symbol |-> Mine, of |-> image]
        BY <1>1, <1>2, <1>5, <4>1
      <4>3. r[i - 1] = N
        <5>1. i - 1 = n \/ (i - 1 > n /\ i - 1 < n + l)
          BY <1>1, <1>5, <3>3
        <5>2. i - 1 \in Nat /\ n \in 0..n
          BY <2>7
        <5> QED BY <1>11, <2>3, <5>1, <5>2
      <4> QED BY <1>13, <2>3, <3>3, <4>2, <4>3
    <3> QED BY <2>7, <3>1, <3>2, <3>3
  <2> QED BY <1>12, <2>3, <2>4, <2>5, <2>6, <2>7 DEF QueueFollows
<1>17. Live' => Delivery(D, N + 1, P, at)'
  <2> SUFFICES ASSUME Live' PROVE Delivery(D, N + 1, P, at)'
    OBVIOUS
  <2>1. UNCHANGED <<channel, sending, client>> /\ Live
    BY <1>1 DEF downstream, Live
  <2>2. Delivery(C, N, P, at)
    BY <1>3, <2>1 DEF Stream
  <2>3. N <= N + 1 /\ Len(channel) \in Nat
    BY <1>4, LenProperties DEF Typed
  <2>4. \A m, i, j : Leads(m, C, N, i, j) => Leads(m, D, N + 1, i, j)
    BY <1>4, <1>13, <2>3, LeadsOn
  <2>5. \A i \in 1..Len(channel) : Leads(channel[i], D, N + 1, at[i - 1], at[i])
    BY <2>2, <2>4 DEF Delivery
  <2>6. IF Reaching THEN Leads(sending.message, D, N + 1, at[Len(channel)], P)
        ELSE at[Len(channel)] = P
    BY <2>2, <2>4 DEF Delivery
  <2>7. at \in [Nat -> Nat] /\ at[0] \in Nat
    BY <2>2 DEF Delivery
  <2>8. ClientAt(C, N, at[0]) => ClientAt(D, N + 1, at[0])
    BY <1>4, <1>13, <2>3, <2>7, ClientAtOn
  <2>9. /\ Reaching' = Reaching
        /\ ClientAt(D, N + 1, at[0])' = ClientAt(D, N + 1, at[0])
    BY <2>1 DEF Reaching, ClientAt
  <2>10. \A i \in 1..Len(channel') : Leads(channel'[i], D, N + 1, at[i - 1], at[i])
    BY <2>1, <2>5
  <2>11. IF Reaching' THEN Leads(sending'.message, D, N + 1, at[Len(channel')], P)
         ELSE at[Len(channel')] = P
    BY <2>1, <2>6, <2>9
  <2>12. \/ Len(channel') >= 1 /\ channel'[1].type = "BOOK_SNAPSHOT"
         \/ ClientAt(D, N + 1, at[0])'
    BY <2>1, <2>2, <2>8, <2>9 DEF Delivery
  <2> QED BY <2>7, <2>10, <2>11, <2>12 DEF Delivery, Leads
<1> QED BY <1>15, <1>16, <1>17 DEF Stream, Followed

\* What is on its way to the client stays on its way.
LEMMA DeliveryKept ==
    ASSUME NEW C, NEW N, NEW P, NEW at, Delivery(C, N, P, at),
           UNCHANGED <<channel, sending, client>>
    PROVE  Delivery(C, N, P, at)'
BY DEF Delivery, Reaching, Leads, ClientAt

\* Events that are not about the book go to the end of the queue.
LEMMA QuietStepFollowed ==
    ASSUME Typed, Typed', NEW events, QuietStep(events), dropped' = 0, dropped = 0 => Followed
    PROVE  Followed'
<1>1. /\ events \in Seq(StreamEvent) /\ Publish(events)
      /\ \A i \in 1..Len(events) : events[i].type # "BOOK_UPDATE"
      /\ book' = book /\ UNCHANGED downstream
  BY DEF QuietStep
<1>2. /\ dropped = 0 /\ Len(queue') = Len(queue) + Len(events)
      /\ \A i \in 1..Len(queue) : queue'[i] = queue[i]
      /\ \A i \in 1..Len(queue') : i > Len(queue) => queue'[i] = events[i - Len(queue)]
  BY <1>1, PublishEffect
<1>3. PICK C, N, P, q, at : Stream(C, N, P, q, at)
  BY <1>2 DEF Followed
<1>4. PICK n \in Nat, l \in Nat : n = Len(queue) /\ l = Len(events)
  BY <1>1, LenProperties DEF Typed
<1>5. /\ P \in 0..N /\ q[0] = P /\ q[n] = N
      /\ \A i \in 0..n : q[i] \in 0..N
  BY <1>3, <1>4 DEF Stream, QueueFollows
<1>6. q \in [Nat -> Nat] /\ N \in Nat
  BY <1>3 DEF Stream, Chain, QueueFollows
<1>7. PICK r : Placed(r, q, n, l, N, N)
  BY <1>6, Positions
<1>8. /\ \A i \in 0..n : r[i] = q[i]
      /\ \A i \in Nat : n < i /\ i < n + l => r[i] = N
      /\ l >= 1 => r[n + l] = N
  BY <1>7 DEF Placed
<1>9. r \in [Nat -> Nat]
  BY <1>7 DEF Placed
<1>10. Chain(C, N)'
  BY <1>1, <1>3 DEF Stream, Chain
<1>11. r[0] = P /\ \A i \in n..n + l : r[i] = N
  <2>1. 0 \in 0..n /\ n \in 0..n
    OBVIOUS
  <2>2. ASSUME NEW i \in n..n + l PROVE r[i] = N
    <3>1. i = n \/ (i \in Nat /\ n < i /\ i < n + l) \/ (i = n + l /\ l >= 1)
      OBVIOUS
    <3>2. CASE i = n
      BY <1>5, <1>8, <2>1, <3>2
    <3>3. CASE i \in Nat /\ n < i /\ i < n + l
      BY <1>8, <3>3
    <3>4. CASE i = n + l /\ l >= 1
      BY <1>8, <3>4
    <3> QED BY <3>1, <3>2, <3>3, <3>4
  <2>3. r[0] = P
    BY <1>5, <1>8, <2>1
  <2> QED BY <2>2, <2>3
<1>12. QueueFollows(C, N, P, r)'
  <2>1. /\ prior[Mine] # None => prior[Mine] = C[P]
        /\ \A i \in 1..n :
              IF queue[i].type = "BOOK_UPDATE"
              THEN q[i] = q[i - 1] + 1 /\ queue[i].of = C[q[i]] ELSE q[i] = q[i - 1]
    BY <1>3, <1>4 DEF Stream, QueueFollows
  <2>2. prior'[Mine] # None => prior'[Mine] = C[P]
    BY <1>1, <2>1 DEF downstream
  <2>3. Len(queue') = n + l /\ n + l \in n..n + l
    BY <1>2, <1>4
  <2>4. ASSUME NEW i \in 0..n + l PROVE r[i] \in 0..N
    <3>1. i \in 0..n \/ i \in n..n + l
      OBVIOUS
    <3>2. N \in 0..N
      BY <1>6
    <3> QED BY <1>5, <1>8, <1>11, <3>1, <3>2
  <2>5. ASSUME NEW i \in 1..n + l
        PROVE  IF queue'[i].type = "BOOK_UPDATE"
               THEN r[i] = r[i - 1] + 1 /\ queue'[i].of = C[r[i]] ELSE r[i] = r[i - 1]
    <3>1. CASE i \in 1..n
      <4>1. i \in 0..n /\ i - 1 \in 0..n
        BY <3>1
      <4>2. r[i] = q[i] /\ r[i - 1] = q[i - 1] /\ queue'[i] = queue[i]
        BY <1>2, <1>4, <1>8, <3>1, <4>1
      <4> QED BY <2>1, <3>1, <4>2
    <3>2. CASE i > n
      <4>1. i - n \in 1..l /\ i \in 1..Len(queue') /\ i \in n..n + l /\ i - 1 \in n..n + l
        BY <2>3, <2>5, <3>2
      <4>2. queue'[i].type # "BOOK_UPDATE"
        BY <1>1, <1>2, <1>4, <3>2, <4>1
      <4> QED BY <1>11, <4>1, <4>2
    <3> QED BY <2>5, <3>1, <3>2
  <2> QED BY <1>5, <1>9, <1>11, <2>2, <2>3, <2>4, <2>5 DEF QueueFollows
<1>13. Live' => Delivery(C, N, P, at)'
  <2>1. UNCHANGED <<channel, sending, client>> /\ Live' = Live
    BY <1>1 DEF downstream, Live
  <2> QED BY <1>3, <2>1, DeliveryKept DEF Stream
<1> QED BY <1>10, <1>12, <1>13 DEF Stream, Followed

\* What the projector makes of the next image leads to it.
LEMMA ProjectLeads ==
    ASSUME NEW C \in [Nat -> Image], NEW N \in Nat, NEW i \in 0..N, i + 1 \in 0..N,
           prior[Mine] # None => prior[Mine] = C[i]
    PROVE  Leads(Project(Mine, C[i + 1]), C, N, i, i + 1)
<1> DEFINE m == Project(Mine, C[i + 1])
<1>1. CASE prior[Mine] = None
  <2>1. /\ m.type = "BOOK_SNAPSHOT" /\ m.sequence = C[i + 1].sequence
        /\ m.levels = C[i + 1].levels
    BY <1>1 DEF Project, SnapshotMessage
  <2>2. i + 1 \in (i + 1)..N
    OBVIOUS
  <2> HIDE DEF m
  <2>3. Leads(m, C, N, i, i + 1)
    BY <2>1, <2>2 DEF Leads
  <2> QED BY <2>3 DEF m
<1>2. CASE prior[Mine] # None
  <2>1. /\ m.type = "BOOK_DELTA" /\ m.sequence = C[i + 1].sequence
        /\ m.previous_sequence = C[i].sequence
        /\ m.changes = Changes(C[i].levels, C[i + 1].levels)
    BY <1>2 DEF Project
  <2> HIDE DEF m
  <2>2. Leads(m, C, N, i, i + 1)
    BY <2>1 DEF Leads
  <2> QED BY <2>2 DEF m
<1> QED BY <1>1, <1>2

\* Positions one further along.
LEMMA Shifted ==
    ASSUME NEW q, q \in [Nat -> Nat]
    PROVE  \E r : r \in [Nat -> Nat] /\ \A i \in Nat : r[i] = q[i + 1]
<1>1. PICK r : r = [i \in Nat |-> q[i + 1]]
  OBVIOUS
<1>2. \A i \in Nat : q[i + 1] \in Nat
  <2> SUFFICES ASSUME NEW i \in Nat PROVE q[i + 1] \in Nat
    OBVIOUS
  <2>1. i + 1 \in Nat
    OBVIOUS
  <2> QED BY <2>1
<1>3. r \in [Nat -> Nat]
  BY <1>2, <1>1
<1>4. \A i \in Nat : r[i] = q[i + 1]
  BY <1>1
<1> QED BY <1>3, <1>4

\* The loop takes an event: an update takes the projector one image on.
LEMMA TakeEventFollowed ==
    ASSUME Typed, Typed', TakeEvent, Symbol = {Mine}, dropped = 0 => Followed, dropped' = 0
    PROVE  Followed'
<1>1. /\ sending = None /\ queue # <<>> /\ Len(queue') = Len(queue) - 1
      /\ \A i \in 1..Len(queue') : queue'[i] = queue[i + 1]
      /\ queue[1].symbol = Mine
  BY TakeEventEffect
<1>2. /\ UNCHANGED <<book, dropped, subs, connected, channel, client>>
  BY DEF TakeEvent
<1>3. PICK C, N, P, q, at : Stream(C, N, P, q, at)
  BY <1>2 DEF Followed
<1>4. PICK n \in Nat : n = Len(queue)
  BY LenProperties DEF Typed
<1>5. n >= 1 /\ Len(queue') = n - 1 /\ 1 \in 0..n /\ 1 \in 1..n /\ 0 \in Nat /\ 1 \in Nat
  BY <1>1, <1>4, EmptySeq DEF Typed
<1>6. /\ P \in 0..N /\ q[0] = P /\ q[n] = N
      /\ \A i \in 0..n : q[i] \in 0..N
      /\ prior[Mine] # None => prior[Mine] = C[P]
  BY <1>3, <1>4 DEF Stream, QueueFollows
<1>7. \A i \in 1..n :
         IF queue[i].type = "BOOK_UPDATE"
         THEN q[i] = q[i - 1] + 1 /\ queue[i].of = C[q[i]] ELSE q[i] = q[i - 1]
  BY <1>3, <1>4 DEF Stream, QueueFollows
<1>8. q \in [Nat -> Nat] /\ N \in Nat /\ C \in [Nat -> Image]
  BY <1>3 DEF Stream, Chain, QueueFollows
<1>9. PICK r : r \in [Nat -> Nat] /\ \A i \in Nat : r[i] = q[i + 1]
  BY <1>8, Shifted
<1>10. PICK Q : Q = q[1]
  OBVIOUS
<1>11. Chain(C, N)'
  BY <1>2, <1>3 DEF Stream, Chain
<1>12. Q \in 0..N /\ r[0] = Q /\ r[n - 1] = N
  <2>1. n - 1 \in Nat /\ (n - 1) + 1 = n /\ 0 + 1 = 1
    BY <1>5
  <2> QED BY <1>5, <1>6, <1>9, <1>10, <2>1
<1>13. \A i \in 0..n - 1 : r[i] \in 0..N
  <2> SUFFICES ASSUME NEW i \in 0..n - 1 PROVE r[i] \in 0..N
    OBVIOUS
  <2>1. i \in Nat /\ i + 1 \in 0..n
    BY <1>5
  <2> QED BY <1>6, <1>9, <2>1
<1>14. \A i \in 1..n - 1 :
          IF queue'[i].type = "BOOK_UPDATE"
          THEN r[i] = r[i - 1] + 1 /\ queue'[i].of = C[r[i]] ELSE r[i] = r[i - 1]
  <2> SUFFICES ASSUME NEW i \in 1..n - 1
               PROVE  IF queue'[i].type = "BOOK_UPDATE"
                      THEN r[i] = r[i - 1] + 1 /\ queue'[i].of = C[r[i]] ELSE r[i] = r[i - 1]
    OBVIOUS
  <2>1. i \in Nat /\ i - 1 \in Nat /\ i + 1 \in 1..n /\ (i - 1) + 1 = i /\ (i + 1) - 1 = i
    BY <1>5
  <2>2. r[i] = q[i + 1] /\ r[i - 1] = q[i] /\ queue'[i] = queue[i + 1]
    BY <1>1, <1>5, <1>9, <2>1
  <2>3. IF queue[i + 1].type = "BOOK_UPDATE"
        THEN q[i + 1] = q[(i + 1) - 1] + 1 /\ queue[i + 1].of = C[q[i + 1]]
        ELSE q[i + 1] = q[(i + 1) - 1]
    BY <1>7, <2>1
  <2> QED BY <2>1, <2>2, <2>3
<1>15. Live' = Live
  BY <1>2 DEF Live
<1>16. Live => /\ at \in [Nat -> Nat]
               /\ \A i \in 1..Len(channel) : Leads(channel[i], C, N, at[i - 1], at[i])
               /\ at[Len(channel)] = P
               /\ \/ Len(channel) >= 1 /\ channel[1].type = "BOOK_SNAPSHOT"
                  \/ ClientAt(C, N, at[0])
  BY <1>1, <1>3 DEF Stream, Delivery, Reaching
<1>17. ClientAt(C, N, at[0])' = ClientAt(C, N, at[0])
  BY <1>2 DEF ClientAt
<1>18. CASE queue[1].type = "BOOK_UPDATE"
  <2>1. Q = P + 1 /\ queue[1].of = C[P + 1] /\ P + 1 \in 0..N
    <3>1. q[1] = q[1 - 1] + 1 /\ queue[1].of = C[q[1]]
      BY <1>5, <1>7, <1>18
    <3> QED BY <1>6, <1>10, <1>12, <3>1
  <2>2. /\ prior' = [prior EXCEPT ![Mine] = C[P + 1]]
        /\ sending' = [message |-> Project(Mine, C[P + 1]),
                       reaches |-> connected /\ Mine \in subs]
        /\ sending' \in Sending /\ sending'.message \in BookMessage
    BY <1>1, <1>18, <2>1, TakeEventEffect
  <2>3. prior'[Mine] = C[Q]
    BY <2>1, <2>2 DEF Typed
  <2>4. QueueFollows(C, N, Q, r)'
    BY <1>5, <1>9, <1>12, <1>13, <1>14, <2>3 DEF QueueFollows
  <2>5. ASSUME Live' PROVE Delivery(C, N, Q, at)'
    <3>1. Reaching'
      <4>1. sending'.reaches /\ sending' # None
        BY <1>15, <2>2, <2>5 DEF Live
      <4>2. sending'.message.type \in BookMessages
        BY <2>2 DEF BookMessage
      <4> QED BY <4>1, <4>2 DEF Reaching
    <3>2. Leads(Project(Mine, C[P + 1]), C, N, P, P + 1)
      BY <1>6, <1>8, <2>1, ProjectLeads
    <3>3. sending'.message = Project(Mine, C[P + 1])
      BY <2>2
    <3>4. Leads(sending'.message, C, N, at[Len(channel')], Q)
      BY <1>2, <1>15, <1>16, <2>1, <2>5, <3>2, <3>3
    <3>5. \A i \in 1..Len(channel') : Leads(channel'[i], C, N, at[i - 1], at[i])
      BY <1>2, <1>15, <1>16, <2>5
    <3>6. \/ Len(channel') >= 1 /\ channel'[1].type = "BOOK_SNAPSHOT"
          \/ ClientAt(C, N, at[0])'
      BY <1>2, <1>15, <1>16, <1>17, <2>5
    <3> QED BY <1>15, <1>16, <2>5, <3>1, <3>4, <3>5, <3>6 DEF Delivery, Leads
  <2> QED BY <1>11, <2>4, <2>5 DEF Stream, Followed
<1>19. CASE queue[1].type # "BOOK_UPDATE"
  <2>1. Q = P
    <3>1. q[1] = q[1 - 1]
      BY <1>5, <1>7, <1>19
    <3> QED BY <1>6, <1>10, <3>1
  <2>2. prior' = prior /\ ~Reaching'
    BY <1>19, TakeEventEffect DEF Reaching
  <2>3. QueueFollows(C, N, Q, r)'
    BY <1>5, <1>6, <1>9, <1>12, <1>13, <1>14, <2>1, <2>2 DEF QueueFollows
  <2>4. ASSUME Live' PROVE Delivery(C, N, Q, at)'
    <3>1. \A i \in 1..Len(channel') : Leads(channel'[i], C, N, at[i - 1], at[i])
      BY <1>2, <1>15, <1>16, <2>4
    <3>2. \/ Len(channel') >= 1 /\ channel'[1].type = "BOOK_SNAPSHOT"
          \/ ClientAt(C, N, at[0])'
      BY <1>2, <1>15, <1>16, <1>17, <2>4
    <3>3. at \in [Nat -> Nat] /\ at[Len(channel')] = Q
      BY <1>2, <1>15, <1>16, <2>1, <2>4
    <3> QED BY <2>2, <3>1, <3>2, <3>3 DEF Delivery, Leads
  <2> QED BY <1>11, <2>3, <2>4 DEF Stream, Followed
<1> QED BY <1>18, <1>19

\* The part of Delivery about the channel and the client.
Arriving(C, N, at) ==
    /\ at \in [Nat -> Nat]
    /\ \A i \in 1..Len(channel) : Leads(channel[i], C, N, at[i - 1], at[i])
    /\ \/ Len(channel) >= 1 /\ channel[1].type = "BOOK_SNAPSHOT"
       \/ ClientAt(C, N, at[0])

\* A message that leads on from the last one in the channel may follow it.
LEMMA Appended ==
    ASSUME Typed, NEW C, NEW N, NEW at, Arriving(C, N, at), NEW m \in BookMessage, NEW t \in Nat,
           Leads(m, C, N, at[Len(channel)], t), channel' = Append(channel, m), client' = client
    PROVE  \E a : Arriving(C, N, a)' /\ a[Len(channel')] = t
<1>1. /\ Len(channel') = Len(channel) + 1
      /\ \A i \in 1..Len(channel) : channel'[i] = channel[i]
      /\ channel'[Len(channel) + 1] = m
  BY ChannelAppend
<1>2. PICK n \in Nat : n = Len(channel)
  BY LenProperties DEF Typed
<1>3. at \in [Nat -> Nat]
  BY DEF Arriving
<1>4. /\ \A i \in 1..n : Leads(channel[i], C, N, at[i - 1], at[i])
      /\ \/ n >= 1 /\ channel[1].type = "BOOK_SNAPSHOT"
         \/ ClientAt(C, N, at[0])
  BY <1>2 DEF Arriving
<1>5. PICK a : a = [at EXCEPT ![n + 1] = t]
  OBVIOUS
<1>6. a \in [Nat -> Nat]
  BY <1>3, <1>5
<1>7. a[n + 1] = t /\ \A i \in 0..n : a[i] = at[i]
  BY <1>3, <1>5
<1>8. ASSUME NEW i \in 1..n + 1 PROVE Leads(channel'[i], C, N, a[i - 1], a[i])
  <2>1. CASE i \in 1..n
    <3>1. i \in 0..n /\ i - 1 \in 0..n
      BY <2>1
    <3>2. a[i] = at[i] /\ a[i - 1] = at[i - 1] /\ channel'[i] = channel[i]
      BY <1>1, <1>2, <1>7, <2>1, <3>1
    <3> QED BY <1>4, <2>1, <3>2
  <2>2. CASE i = n + 1
    <3>1. i - 1 = n /\ n \in 0..n
      BY <2>2
    <3>2. a[i - 1] = at[n] /\ a[i] = t /\ channel'[i] = m
      BY <1>1, <1>2, <1>7, <2>2, <3>1
    <3>3. Leads(m, C, N, at[n], t)
      BY <1>2
    <3> QED BY <3>2, <3>3, Zenon
  <2>3. i \in 1..n \/ i = n + 1
    BY <1>8
  <2> QED BY <2>1, <2>2, <2>3, Zenon
<1>9. \/ n + 1 >= 1 /\ channel'[1].type = "BOOK_SNAPSHOT"
      \/ ClientAt(C, N, a[0])'
  <2>1. 0 \in 0..n /\ a[0] = at[0]
    BY <1>7
  <2>2. ClientAt(C, N, a[0])' = ClientAt(C, N, a[0])
    BY DEF ClientAt
  <2>3. n >= 1 => channel'[1] = channel[1]
    BY <1>1, <1>2
  <2>4. CASE n >= 1 /\ channel[1].type = "BOOK_SNAPSHOT"
    BY <2>3, <2>4
  <2>5. CASE ClientAt(C, N, at[0])
    <3>1. ClientAt(C, N, a[0])
      BY <2>1, <2>5, Zenon
    <3> QED BY <2>2, <3>1
  <2> QED BY <1>4, <2>4, <2>5
<1>10. Len(channel') = n + 1
  BY <1>1, <1>2
<1>11. Arriving(C, N, a)'
  BY <1>6, <1>8, <1>9, <1>10 DEF Arriving, Leads
<1> QED BY <1>7, <1>10, <1>11

\* Delivery in terms of Arriving.
LEMMA DeliveryArriving ==
    ASSUME NEW C, NEW N, NEW P, NEW at
    PROVE  Delivery(C, N, P, at) <=>
              /\ Arriving(C, N, at)
              /\ IF Reaching THEN Leads(sending.message, C, N, at[Len(channel)], P)
                 ELSE at[Len(channel)] = P
BY DEF Delivery, Arriving

\* A message sent to the client is the next one in the channel.
LEMMA SendFollowed ==
    ASSUME Typed, Typed', Send, dropped = 0 => Followed, dropped' = 0
    PROVE  Followed'
<1>1. UNCHANGED <<book, queue, dropped, prior, subs, connected, client>> /\ sending' = None
  BY DEF Send
<1>2. PICK C, N, P, q, at : Stream(C, N, P, q, at)
  BY <1>1 DEF Followed
<1>3. Chain(C, N)' /\ QueueFollows(C, N, P, q)'
  BY <1>1, <1>2, ChainKept DEF Stream
<1>4. Live' = Live /\ ~Reaching'
  BY <1>1 DEF Live, Reaching
<1>5. CASE ~Live
  BY <1>3, <1>4, <1>5 DEF Stream, Followed
<1>6. CASE Live /\ ~Reaching
  <2>1. channel' = channel /\ sending # None
    BY <1>6, SendEffect DEF Reaching
  <2>2. Arriving(C, N, at) /\ at[Len(channel)] = P
    BY <1>2, <1>6, DeliveryArriving DEF Stream
  <2>3. Arriving(C, N, at)' /\ at[Len(channel')] = P
    BY <1>1, <2>1, <2>2 DEF Arriving, Leads, ClientAt
  <2>4. Delivery(C, N, P, at)'
    BY <1>4, <2>3 DEF Delivery, Arriving
  <2> QED BY <1>3, <2>4 DEF Stream, Followed
<1>7. CASE Live /\ Reaching
  <2>1. sending.message \in BookMessage /\ channel' = Append(channel, sending.message)
    BY <1>7, SendEffect DEF Reaching
  <2>2. Arriving(C, N, at) /\ Leads(sending.message, C, N, at[Len(channel)], P)
    BY <1>2, <1>7, DeliveryArriving DEF Stream
  <2>3. P \in Nat
    BY <1>2 DEF Stream, Chain, QueueFollows
  <2>4. PICK a : Arriving(C, N, a)' /\ a[Len(channel')] = P
    BY <1>1, <2>1, <2>2, <2>3, Appended
  <2>5. Delivery(C, N, P, a)'
    BY <1>4, <2>4 DEF Delivery, Arriving
  <2> QED BY <1>3, <2>5 DEF Stream, Followed
<1> QED BY <1>5, <1>6, <1>7

\* A snapshot of the engine's book is the end of the chain, wherever in the stream it is put.
LEMMA SnapshotLeads ==
    ASSUME NEW C, NEW N, Chain(C, N), NEW i \in 0..N
    PROVE  Leads(SnapshotMessage(Mine, book[Mine]), C, N, i, i)
<1>1. PICK m : m = SnapshotMessage(Mine, book[Mine])
  OBVIOUS
<1>2. m.type = "BOOK_SNAPSHOT" /\ m.sequence = C[N].sequence /\ m.levels = C[N].levels
  BY <1>1 DEF SnapshotMessage, Chain
<1>3. N \in i..N /\ N \in Nat
  BY DEF Chain
<1>4. Leads(m, C, N, i, i)
  BY <1>2, <1>3 DEF Leads
<1> QED BY <1>1, <1>4

\* The endpoint sends a snapshot past the queue, on subscription and after it.
LEMMA SnapshotFollowed ==
    ASSUME Typed, Typed', Session, Subscribe \/ SendSnapshot, Symbol = {Mine},
           dropped = 0 => Followed, dropped' = 0
    PROVE  Followed'
<1>1. UNCHANGED <<book, queue, dropped, prior, sending, connected, client>>
  BY DEF Subscribe, SendSnapshot
<1>2. PICK C, N, P, q, at : Stream(C, N, P, q, at)
  BY <1>1 DEF Followed
<1>3. Chain(C, N)' /\ QueueFollows(C, N, P, q)'
  BY <1>1, <1>2, ChainKept DEF Stream
<1>4. PICK m : m = SnapshotMessage(Mine, book[Mine])
  OBVIOUS
<1>5. m \in BookMessage /\ channel' = Append(channel, m)
  <2>1. Head(todo).symbol = Mine
    BY SnapshotEffect DEF Task
  <2> QED BY <1>4, <2>1, SnapshotEffect
<1>6. Reaching' = Reaching
  BY <1>1 DEF Reaching
<1>7. /\ N \in Nat /\ P \in 0..N
      /\ \A i \in 0..N : Leads(m, C, N, i, i)
  BY <1>2, <1>4, SnapshotLeads DEF Stream, Chain, QueueFollows
<1>8. CASE Live
  <2>1. /\ Arriving(C, N, at)
        /\ IF Reaching THEN Leads(sending.message, C, N, at[Len(channel)], P)
           ELSE at[Len(channel)] = P
    BY <1>2, <1>8, DeliveryArriving DEF Stream
  <2>2. PICK t : t = at[Len(channel)]
    OBVIOUS
  <2>3. t \in 0..N /\ t \in Nat
    BY <1>7, <2>1, <2>2 DEF Leads
  <2>4. Leads(m, C, N, at[Len(channel)], t)
    BY <1>7, <2>2, <2>3
  <2>5. PICK a : Arriving(C, N, a)' /\ a[Len(channel')] = t
    BY <1>1, <1>5, <2>1, <2>3, <2>4, Appended
  <2>6. IF Reaching' THEN Leads(sending'.message, C, N, a[Len(channel')], P)
        ELSE a[Len(channel')] = P
    BY <1>1, <1>6, <2>1, <2>2, <2>5
  <2>7. Delivery(C, N, P, a)'
    BY <2>5, <2>6 DEF Delivery, Arriving, Leads
  <2> QED BY <1>3, <2>7 DEF Stream, Followed
<1>9. CASE ~Live
  <2>1. channel = <<>> /\ ~Reaching
    BY <1>9 DEF Session, Reaching
  <2>2. Len(channel) = 0
    BY <2>1
  <2>3. Len(channel') = 1 /\ channel'[1] = m
    BY <1>5, <2>2, ChannelAppend
  <2>4. PICK a : a = [i \in Nat |-> P]
    OBVIOUS
  <2>5. a \in [Nat -> Nat] /\ a[0] = P /\ a[1] = P
    BY <1>7, <2>4
  <2>6. \A i \in 1..Len(channel') : Leads(channel'[i], C, N, a[i - 1], a[i])
    <3>1. Leads(channel'[1], C, N, a[1 - 1], a[1])
      BY <1>7, <2>3, <2>5
    <3> QED BY <2>3, <3>1
  <2>7. channel'[1].type = "BOOK_SNAPSHOT"
    BY <1>4, <2>3 DEF SnapshotMessage
  <2>8. ~Reaching' /\ a[Len(channel')] = P /\ Len(channel') >= 1
    BY <1>6, <2>1, <2>3, <2>5
  <2>9. Delivery(C, N, P, a)'
    BY <2>5, <2>6, <2>7, <2>8 DEF Delivery, Leads
  <2> QED BY <1>3, <2>9 DEF Stream, Followed
<1> QED BY <1>8, <1>9

\* Applying the changes from one image to the next gives the next image's level at every
\* price they differ at, and leaves the other prices alone.
LEMMA AppliedChanges ==
    ASSUME NEW levels \in Levels, NEW a \in Levels, NEW b \in Levels, NEW p \in Price
    PROVE  Applied(levels, Changes(a, b))[p] = IF a[p] # b[p] THEN b[p] ELSE levels[p]
BY DEF Applied, Changes

\* The client receives a snapshot.
LEMMA ReceivesSnapshot ==
    ASSUME NEW C \in [Nat -> Image], NEW N \in Nat, NEW m, NEW i, NEW j, Leads(m, C, N, i, j),
           m.type = "BOOK_SNAPSHOT", client' # None,
           client'.sequence = m.sequence, client'.levels = m.levels
    PROVE  ClientAt(C, N, j)'
<1>1. PICK k \in j..N : m.sequence = C[k].sequence /\ m.levels = C[k].levels
  BY DEF Leads
<1> QED BY <1>1 DEF ClientAt

\* The client receives a delta: it applies it, again or for the first time, or it has
\* already gone beyond it.
LEMMA ReceivesDelta ==
    ASSUME NEW C \in [Nat -> Image], NEW N \in Nat,
           \A i, j \in 0..N : i <= j => C[i].sequence <= C[j].sequence,
           NEW m, NEW i, NEW j, Leads(m, C, N, i, j), m.type = "BOOK_DELTA",
           ClientAt(C, N, i), client \in ClientBook,
           IF m.previous_sequence = client.sequence
           THEN client' = [client EXCEPT !.sequence = m.sequence,
                                         !.levels = Applied(client.levels, m.changes)]
           ELSE client' = client,
           client' # None
    PROVE  ClientAt(C, N, j)'
<1>1. /\ i \in 0..N /\ j \in 0..N /\ j = i + 1
      /\ m.previous_sequence = C[i].sequence /\ m.sequence = C[j].sequence
      /\ m.changes = Changes(C[i].levels, C[j].levels)
  BY DEF Leads
<1>2. PICK k \in i..N :
         /\ client.sequence = C[k].sequence
         /\ C[i].sequence < C[k].sequence => client.levels = C[k].levels
         /\ \A p \in Price : (\A h \in i..k : C[h].levels[p] = C[k].levels[p]) =>
               client.levels[p] = C[k].levels[p]
  BY DEF ClientAt
<1>3. k \in 0..N /\ i <= k
  BY <1>1
<1>4. /\ C[i] \in Image /\ C[j] \in Image /\ C[k] \in Image
  BY <1>1, <1>3
<1>5. /\ C[i].levels \in Levels /\ C[j].levels \in Levels /\ C[k].levels \in Levels
      /\ C[i].sequence \in Nat /\ C[j].sequence \in Nat /\ C[k].sequence \in Nat
      /\ client.levels \in Levels
  BY <1>4 DEF Image, ClientBook
<1>6. C[i].sequence <= C[k].sequence
  BY <1>1, <1>3
<1>7. CASE C[i].sequence = C[k].sequence
  <2>1. client' = [client EXCEPT !.sequence = C[j].sequence,
                                 !.levels = Applied(client.levels, m.changes)]
    BY <1>1, <1>2, <1>7
  <2>2. /\ client'.sequence = C[j].sequence
        /\ client'.levels = Applied(client.levels, Changes(C[i].levels, C[j].levels))
    BY <1>1, <2>1 DEF ClientBook
  <2>3. \A p \in Price : client'.levels[p] = IF C[i].levels[p] # C[j].levels[p] THEN C[j].levels[p]
                                             ELSE client.levels[p]
    BY <1>5, <2>2, AppliedChanges
  <2>4. CASE k = i
    <3>1. \A p \in Price : client.levels[p] = C[i].levels[p]
      BY <1>2, <1>3, <2>4
    <3>2. \A p \in Price : client'.levels[p] = C[j].levels[p]
      BY <2>3, <3>1
    <3>3. j \in j..N /\ ~(C[j].sequence < C[j].sequence)
      BY <1>1, <1>5
    <3> QED BY <2>2, <3>2, <3>3 DEF ClientAt
  <2>5. CASE k # i
    <3>1. k \in j..N /\ j <= k
      BY <1>1, <1>3, <2>5
    <3>2. C[j].sequence = C[k].sequence
      <4>1. C[i].sequence <= C[j].sequence /\ C[j].sequence <= C[k].sequence
        BY <1>1, <1>3, <3>1
      <4> QED BY <1>5, <1>7, <4>1
    <3>3. ASSUME NEW p \in Price, \A h \in j..k : C[h].levels[p] = C[k].levels[p]
          PROVE  client'.levels[p] = C[k].levels[p]
      <4>1. j \in j..k
        BY <1>1, <3>1
      <4>2. C[j].levels[p] = C[k].levels[p]
        BY <3>3, <4>1
      <4>3. CASE C[i].levels[p] # C[j].levels[p]
        BY <2>3, <4>2, <4>3
      <4>4. CASE C[i].levels[p] = C[j].levels[p]
        <5>1. \A h \in i..k : h = i \/ h \in j..k
          BY <1>1
        <5>2. \A h \in i..k : C[h].levels[p] = C[k].levels[p]
          BY <3>3, <4>2, <4>4, <5>1
        <5> QED BY <1>2, <2>3, <4>4, <5>2
      <4> QED BY <4>3, <4>4
    <3>4. client'.sequence = C[k].sequence /\ ~(C[j].sequence < C[k].sequence)
      BY <1>5, <2>2, <3>2
    <3> QED BY <3>1, <3>3, <3>4 DEF ClientAt
  <2> QED BY <2>4, <2>5
<1>8. CASE C[i].sequence # C[k].sequence
  <2>1. client' = client /\ client.levels = C[k].levels
    BY <1>1, <1>2, <1>5, <1>6, <1>8
  <2>2. k \in j..N
    BY <1>1, <1>3, <1>8
  <2> QED BY <1>2, <2>1, <2>2 DEF ClientAt
<1> QED BY <1>7, <1>8

\* The client receives the first message of the channel.
LEMMA ReceiveFollowed ==
    ASSUME Typed, Typed', Session, Receive, dropped = 0 => Followed, dropped' = 0
    PROVE  Followed'
<1>1. UNCHANGED <<book, queue, dropped, prior, sending, subs, connected>> /\ channel # <<>>
  BY DEF Receive
<1>2. PICK C, N, P, q, at : Stream(C, N, P, q, at)
  BY <1>1 DEF Followed
<1>3. Chain(C, N)' /\ QueueFollows(C, N, P, q)'
  BY <1>1, <1>2, ChainKept DEF Stream
<1>4. Live /\ Reaching' = Reaching
  BY <1>1 DEF Session, Reaching
<1>5. Delivery(C, N, P, at)
  BY <1>2, <1>4 DEF Stream
<1>6. /\ C \in [Nat -> Image] /\ N \in Nat
      /\ \A i, j \in 0..N : i <= j => C[i].sequence <= C[j].sequence
  BY <1>2 DEF Stream, Chain
<1>7. PICK n \in Nat : n = Len(channel)
  BY LenProperties DEF Typed
<1>8. PICK m \in BookMessage : m = channel[1]
  BY ReceiveEffect
<1>9. /\ n >= 1 /\ Len(channel') = n - 1 /\ 1 \in 1..n
      /\ \A i \in 1..n - 1 : channel'[i] = channel[i + 1]
  BY <1>7, ReceiveEffect
<1>10. /\ at \in [Nat -> Nat]
       /\ \A i \in 1..n : Leads(channel[i], C, N, at[i - 1], at[i])
       /\ m.type = "BOOK_SNAPSHOT" \/ ClientAt(C, N, at[0])
       /\ IF Reaching THEN Leads(sending.message, C, N, at[n], P) ELSE at[n] = P
  BY <1>5, <1>7, <1>8 DEF Delivery
<1>11. PICK r : r \in [Nat -> Nat] /\ \A i \in Nat : r[i] = at[i + 1]
  BY <1>10, Shifted
<1>12. Leads(m, C, N, at[0], at[1])
  <2>1. Leads(channel[1], C, N, at[1 - 1], at[1])
    BY <1>9, <1>10
  <2> QED BY <1>8, <2>1
<1>13. ClientAt(C, N, at[1])'
  <2>1. CASE m.type = "BOOK_SNAPSHOT"
    <3>1. client' = [symbol |-> m.symbol, sequence |-> m.sequence, levels |-> m.levels]
      BY <1>8, <2>1, ReceiveEffect
    <3>2. m.levels \in Levels /\ m.symbol \in Symbol /\ m.sequence \in Nat
      BY <2>1, BookMessageFields
    <3>3. client' # None
      BY <3>1, <3>2 DEF ClientBook
    <3>4. client'.sequence = m.sequence /\ client'.levels = m.levels
      BY <3>1
    <3> QED BY <1>6, <1>12, <2>1, <3>3, <3>4, ReceivesSnapshot
  <2>2. CASE m.type = "BOOK_DELTA"
    <3>1. ClientAt(C, N, at[0])
      BY <1>10, <2>2
    <3>2. client # None /\ client \in ClientBook
      BY <3>1 DEF ClientAt, Typed
    <3>3. IF m.previous_sequence = client.sequence
          THEN client' = [client EXCEPT !.sequence = m.sequence,
                                        !.levels = Applied(client.levels, m.changes)]
          ELSE client' = client
      BY <1>8, <2>2, <3>2, ReceiveEffect
    <3>4. client' # None
      <4>1. CASE client' = client
        BY <3>2, <4>1
      <4>2. CASE client' # client
        <5>1. \E changed \in SUBSET Price : m.changes \in [changed -> 0..MaxLevel]
          BY <2>2, BookMessageFields
        <5>2. client.levels \in Levels /\ m.sequence \in Nat /\ client.symbol \in Symbol
          BY <3>2, BookMessageFields DEF ClientBook
        <5>3. Applied(client.levels, m.changes) \in Levels
          BY <5>1, <5>2, AppliedTyped
        <5>4. client' \in ClientBook
          BY <3>2, <3>3, <4>2, <5>2, <5>3 DEF ClientBook
        <5> QED BY <5>4
      <4> QED BY <4>1, <4>2
    <3> QED BY <1>6, <1>12, <2>2, <3>1, <3>2, <3>3, <3>4, ReceivesDelta
  <2> QED BY <2>1, <2>2, BookMessageFields
<1>14. r[0] = at[1] /\ r[n - 1] = at[n]
  <2>1. 0 \in Nat /\ 0 + 1 = 1 /\ n - 1 \in Nat /\ (n - 1) + 1 = n
    BY <1>9
  <2> QED BY <1>11, <2>1
<1>15. ASSUME NEW i \in 1..n - 1 PROVE Leads(channel'[i], C, N, r[i - 1], r[i])
  <2>1. i \in Nat /\ i - 1 \in Nat /\ (i - 1) + 1 = i /\ i + 1 \in 1..n /\ (i + 1) - 1 = i
    BY <1>9, <1>15
  <2>2. r[i] = at[i + 1] /\ r[i - 1] = at[i] /\ channel'[i] = channel[i + 1]
    BY <1>9, <1>11, <1>15, <2>1
  <2>3. Leads(channel[i + 1], C, N, at[(i + 1) - 1], at[i + 1])
    BY <1>10, <2>1
  <2> QED BY <2>1, <2>2, <2>3
<1>16. IF Reaching' THEN Leads(sending'.message, C, N, r[Len(channel')], P)
       ELSE r[Len(channel')] = P
  BY <1>1, <1>4, <1>9, <1>10, <1>14
<1>17. ClientAt(C, N, r[0])'
  BY <1>13, <1>14
<1>18. Delivery(C, N, P, r)'
  BY <1>9, <1>11, <1>15, <1>16, <1>17 DEF Delivery, Leads
<1> QED BY <1>3, <1>18 DEF Stream, Followed

\* A connection is subscribed before anything else is done for it.
LEMMA SessionStep ==
    ASSUME Typed, Session, [Next]_vars, Symbol = {Mine}
    PROVE  Session'
<1>1. ASSUME UNCHANGED <<connected, subs, todo, channel, sending>>
      PROVE  Session'
  BY <1>1 DEF Session, Live
<1>2. CASE Engine \/ PublishTicks
  BY <1>1, <1>2 DEF Engine, SubmitOrder, CancelOrder, RejectOrder, PublishTicks
<1>3. CASE TakeEvent
  <2>1. UNCHANGED <<connected, subs, todo, channel>> /\ Live' = Live
    BY <1>3 DEF TakeEvent, Live
  <2>2. sending' # None => sending'.reaches = (connected /\ Head(queue).symbol \in subs)
    BY <1>3 DEF TakeEvent
  <2>3. Head(queue).symbol = Mine
    <3>1. queue # <<>> /\ queue[1].symbol = Mine
      BY <1>3, TakeEventEffect
    <3> QED BY <3>1, HeadTailProperties DEF Typed
  <2>4. ~Live' => (sending' # None => ~sending'.reaches)
    BY <2>1, <2>2, <2>3 DEF Live
  <2> QED BY <2>1, <2>4 DEF Session
<1>4. CASE Send
  <2>1. UNCHANGED <<connected, subs, todo>> /\ Live' = Live /\ sending' = None
    BY <1>4 DEF Send, Live
  <2>2. ~Live => channel' = channel
    BY <1>4 DEF Send, Session
  <2> QED BY <2>1, <2>2 DEF Session
<1>5. CASE Connect
  <2>1. /\ connected' = TRUE /\ UNCHANGED <<subs, channel, sending>> /\ ~Live
        /\ todo' = <<[action |-> "subscribe", symbol |-> Mine],
                     [action |-> "subscribe_all", symbol |-> Mine]>>
    BY <1>5 DEF Connect, Live
  <2>2. todo' # <<>> /\ Head(todo').action = "subscribe"
    BY <2>1
  <2> QED BY <2>1, <2>2 DEF Session
<1>6. CASE Disconnect
  <2>1. /\ connected' = FALSE /\ subs' = {} /\ todo' = <<>> /\ channel' = <<>> /\ ~Live'
        /\ sending' = IF sending = None THEN None ELSE [sending EXCEPT !.reaches = FALSE]
    BY <1>6 DEF Disconnect, Live
  <2>2. sending' # None => sending'.reaches = FALSE
    BY <2>1 DEF Typed, Sending
  <2> QED BY <2>1, <2>2 DEF Session
<1>7. CASE Subscribe
  <2>1. /\ todo # <<>> /\ connected' = connected /\ subs' = subs \union {Head(todo).symbol}
    BY <1>7 DEF Subscribe
  <2>2. Head(todo).symbol = Mine
    BY <1>7, SnapshotEffect DEF Task
  <2>3. connected
    BY <2>1 DEF Session
  <2> QED BY <2>1, <2>2, <2>3 DEF Session, Live
<1>8. CASE SubscribeAll \/ SendSnapshot
  <2>1. /\ todo # <<>> /\ Head(todo).action # "subscribe" /\ connected' = connected
        /\ subs' = subs \/ subs' = Symbol
    BY <1>8 DEF SubscribeAll, SendSnapshot
  <2>2. Live
    BY <2>1 DEF Session
  <2> QED BY <2>1, <2>2 DEF Session, Live
<1>9. CASE Receive
  <2>1. UNCHANGED <<connected, subs, todo, sending>> /\ channel # <<>>
    BY <1>9 DEF Receive
  <2> QED BY <2>1 DEF Session, Live
<1>10. CASE UNCHANGED vars
  BY <1>1, <1>10 DEF vars
<1> QED BY <1>2, <1>3, <1>4, <1>5, <1>6, <1>7, <1>8, <1>9, <1>10
        DEF Next, Broadcast, Endpoint, Quiet

\* Every step keeps the chain: the invariant is inductive.
LEMMA StreamStep ==
    ASSUME StreamInv, [Next]_vars, Symbol = {Mine}
    PROVE  StreamInv'
<1>1. Typed /\ Session /\ Typed' /\ Session' /\ (dropped = 0 => Followed)
  BY TypedStep, SessionStep DEF StreamInv
<1> SUFFICES ASSUME dropped' = 0 PROVE Followed'
  BY <1>1 DEF StreamInv
<1>2. CASE Engine
  <2>1. SubmitOrder(Mine) \/ CancelOrder(Mine) \/ RejectOrder(Mine)
    BY <1>2 DEF Engine
  <2>2. CASE SubmitOrder(Mine) \/ CancelOrder(Mine)
    <3>1. PICK image, events : BookStep(Mine, image, events)
      BY <1>1, <2>2, SubmitOrderEffect, CancelOrderEffect
    <3> QED BY <1>1, <3>1, BookStepFollowed
  <2>3. CASE RejectOrder(Mine)
    <3>1. PICK events : QuietStep(events)
      BY <1>1, <2>3, RejectOrderEffect
    <3> QED BY <1>1, <3>1, QuietStepFollowed
  <2> QED BY <2>1, <2>2, <2>3
<1>3. CASE PublishTicks
  <2>1. PICK events : QuietStep(events)
    BY <1>1, <1>3, PublishTicksEffect
  <2> QED BY <1>1, <2>1, QuietStepFollowed
<1>4. CASE TakeEvent
  BY <1>1, <1>4, TakeEventFollowed
<1>5. CASE Send
  BY <1>1, <1>5, SendFollowed
<1>6. CASE Subscribe \/ SendSnapshot
  BY <1>1, <1>6, SnapshotFollowed
<1>7. CASE Receive
  BY <1>1, <1>7, ReceiveFollowed
<1>8. ASSUME UNCHANGED <<book, queue, prior, dropped>>,
             ~Live' \/ (Live /\ UNCHANGED <<channel, sending, client>>)
      PROVE  Followed'
  <2>1. PICK C, N, P, q, at : Stream(C, N, P, q, at)
    BY <1>1, <1>8 DEF Followed
  <2>2. Chain(C, N)' /\ QueueFollows(C, N, P, q)'
    BY <1>8, <2>1, ChainKept DEF Stream
  <2>3. Live' => Delivery(C, N, P, at)'
    BY <1>8, <2>1, DeliveryKept DEF Stream
  <2> QED BY <2>2, <2>3 DEF Stream, Followed
<1>9. CASE Connect
  <2>1. UNCHANGED <<book, queue, prior, dropped>> /\ ~Live'
    BY <1>1, <1>9 DEF Connect, Session, Live
  <2> QED BY <1>8, <2>1
<1>10. CASE Disconnect
  <2>1. UNCHANGED <<book, queue, prior, dropped>> /\ ~Live'
    BY <1>10 DEF Disconnect, Live
  <2> QED BY <1>8, <2>1
<1>11. CASE SubscribeAll
  <2>1. /\ UNCHANGED <<book, queue, prior, dropped, channel, sending, client>>
        /\ todo # <<>> /\ Head(todo).action = "subscribe_all"
    BY <1>11 DEF SubscribeAll
  <2>2. Live
    BY <1>1, <2>1 DEF Session
  <2> QED BY <1>8, <2>1, <2>2
<1>12. CASE UNCHANGED vars
  <2>1. UNCHANGED <<book, queue, prior, dropped, channel, sending, client>> /\ Live' = Live
    BY <1>12 DEF vars, Live
  <2> QED BY <1>8, <2>1
<1> QED BY <1>2, <1>3, <1>4, <1>5, <1>6, <1>7, <1>9, <1>10, <1>11, <1>12
        DEF Next, Broadcast, Endpoint, Quiet

\* Initially the chain is the empty book alone.
LEMMA InitStream == Init => StreamInv
<1> SUFFICES ASSUME Init PROVE StreamInv
  OBVIOUS
<1>1. Typed
  BY InitTyped
<1>2. Session
  BY DEF Init, Session, Live
<1>3. book[Mine] \in Image /\ Len(queue) = 0 /\ ~Live /\ prior[Mine] = None
  BY <1>1 DEF Init, Typed, Live
<1>4. PICK C : C \in [Nat -> Image] /\ C[0] = book[Mine]
  <2>1. [i \in Nat |-> book[Mine]] \in [Nat -> Image]
    BY <1>3
  <2>2. [i \in Nat |-> book[Mine]][0] = book[Mine]
    OBVIOUS
  <2> QED BY <2>1, <2>2
<1>5. PICK q : q \in [Nat -> Nat] /\ q[0] = 0
  <2>1. [i \in Nat |-> 0] \in [Nat -> Nat] /\ [i \in Nat |-> 0][0] = 0
    OBVIOUS
  <2> QED BY <2>1
<1>6. \A i \in 0..0 : i = 0
  OBVIOUS
<1>7. Chain(C, 0)
  <2>1. C[0].sequence \in Nat
    BY <1>3, <1>4 DEF Image
  <2>2. C[0].sequence <= C[0].sequence
    BY <2>1
  <2>3. \A i, j \in 0..0 : i <= j => C[i].sequence <= C[j].sequence
    BY <1>6, <2>2
  <2>4. 0 \in Nat
    OBVIOUS
  <2> QED BY <1>4, <2>3, <2>4, Zenon DEF Chain
<1>8. QueueFollows(C, 0, 0, q)
  <2>1. \A i \in 1..Len(queue) : FALSE
    BY <1>3
  <2>2. 0 \in 0..0 /\ q[Len(queue)] = 0 /\ \A i \in 0..Len(queue) : q[i] \in 0..0
    BY <1>3, <1>5, <1>6
  <2> QED BY <1>3, <1>5, <2>1, <2>2 DEF QueueFollows
<1>9. Followed
  BY <1>3, <1>7, <1>8 DEF Stream, Followed
<1> QED BY <1>1, <1>2, <1>9 DEF StreamInv

\* Once everything has been received, the one place left in the chain is its end.
LEMMA StreamConverges ==
    ASSUME StreamInv, Symbol = {Mine}
    PROVE  ClientConverges
<1> SUFFICES ASSUME Delivered(Mine), dropped = 0
             PROVE  /\ client # None
                    /\ client.sequence = book[Mine].sequence
                    /\ client.levels = book[Mine].levels
  BY DEF ClientConverges
<1>1. connected /\ todo = <<>> /\ channel = <<>> /\ Typed /\ Session /\ Len(channel) = 0
  BY DEF Delivered, StreamInv
<1>2. Live
  BY <1>1 DEF Session
<1>3. PICK C, N, P, q, at : Stream(C, N, P, q, at)
  BY DEF StreamInv, Followed
<1>4. ~Reaching
  <2> SUFFICES ASSUME sending # None, sending.message.type \in BookMessages PROVE FALSE
    BY DEF Reaching
  <2>1. sending.message \in BookMessage
    BY <1>1 DEF Typed, Sending, BookMessage
  <2>2. sending.message.symbol = Mine
    BY <2>1, BookMessageFields
  <2> QED BY <2>2 DEF Delivered
<1>5. Len(queue) = 0
  <2>1. queue \in Seq(StreamEvent) /\ Len(queue) \in Nat
    BY <1>1, LenProperties DEF Typed
  <2>2. CASE Len(queue) >= 1
    <3>1. 1 \in 1..Len(queue)
      BY <2>1, <2>2
    <3>2. queue[1] \in StreamEvent
      BY <2>1, <3>1, ElementOfSeq
    <3>3. queue[1].symbol = Mine
      BY <3>2 DEF StreamEvent
    <3> QED BY <3>1, <3>3 DEF Delivered
  <2> QED BY <2>1, <2>2
<1>6. P = N /\ at[0] = P
  <2>1. P = N
    BY <1>3, <1>5 DEF Stream, QueueFollows
  <2>2. Delivery(C, N, P, at)
    BY <1>2, <1>3 DEF Stream
  <2>3. at[0] = P
    BY <1>1, <1>4, <2>2 DEF Delivery
  <2> QED BY <2>1, <2>3
<1>7. ClientAt(C, N, N)
  <2>1. Delivery(C, N, P, at)
    BY <1>2, <1>3 DEF Stream
  <2>2. ClientAt(C, N, at[0])
    BY <1>1, <2>1 DEF Delivery
  <2> QED BY <1>6, <2>2
<1>8. N \in Nat /\ C \in [Nat -> Image] /\ C[N] = book[Mine]
  BY <1>3 DEF Stream, Chain
<1>9. /\ client # None /\ client.sequence = C[N].sequence
      /\ \A p \in Price : client.levels[p] = C[N].levels[p]
  <2>1. \A k \in N..N : k = N
    BY <1>8
  <2> QED BY <1>7, <2>1 DEF ClientAt
<1>10. client.levels \in Levels /\ C[N].levels \in Levels
  <2>1. client \in ClientBook /\ C[N] \in Image
    BY <1>1, <1>8, <1>9 DEF Typed
  <2> QED BY <2>1 DEF ClientBook, Image
<1>11. client.levels = C[N].levels
  BY <1>9, <1>10 DEF Levels
<1> QED BY <1>8, <1>9, <1>11

\* However subscriptions, snapshots, queued deltas, cancels that keep the sequence number
\* and reconnections interleave: in a market of one symbol a client that has received
\* everything shows the engine's book, unless the bus has counted a drop.
THEOREM ClientAlwaysConverges ==
    ASSUME Symbol = {Mine}
    PROVE  Spec => []ClientConverges
<1>1. Init => StreamInv
  BY InitStream
<1>2. StreamInv /\ [Next]_vars => StreamInv'
  BY StreamStep
<1>3. StreamInv => ClientConverges
  BY StreamConverges
<1> QED BY <1>1, <1>2, <1>3, PTL DEF Spec
=============================================================================
