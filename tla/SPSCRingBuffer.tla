--------------------------- MODULE SPSCRingBuffer ---------------------------
(***************************************************************************)
(* The single-producer single-consumer ring (engine/core/ring_buffer.py).  *)
(*                                                                         *)
(* put and get run concurrently, in two threads or in a host and a device  *)
(* that share the buffer, with no lock: each is split at every access to   *)
(* shared memory.  An item is copied word by word (two words stand for a   *)
(* frame), so that a consumer overtaking the producer, or a producer       *)
(* lapping the consumer, would be seen as a torn or a foreign frame.       *)
(* Memory is sequentially consistent, as the class comment assumes.        *)
(***************************************************************************)
EXTENDS RingBuffer

CONSTANTS
    Item,      \* the frames the producer may enqueue
    Blank      \* the content of a word that was never written

\* Here buffer maps each slot to the two words of the frame in it.
VARIABLES
    putting,   \* the producer inside put: where it is, and its local item
    getting,   \* the consumer inside get or peek: where it is, and what it read
    sent,      \* history: the items put has accepted, in order
    got        \* history: the frames get has returned, in order

vars == <<head, tail, buffer, putting, getting, sent, got>>

-----------------------------------------------------------------------------
\* The constructor's loop: the first power of two that is at least
\* max(capacity, 2), by doubling from 1.
RoundUp(capacity) ==
    LET least == IF capacity > 2 THEN capacity ELSE 2
        cap[c \in 1..2 * least] == IF c < least THEN cap[2 * c] ELSE c
    IN  cap[1]

\* Both words of item x.
Whole(x) == [k \in 1..2 |-> x]

-----------------------------------------------------------------------------
(* Producer: put(item)                                                     *)

PutFull ==
    /\ putting.at = "idle"
    /\ Full
    /\ UNCHANGED vars

PutStart(x) ==
    /\ putting.at = "idle"
    /\ ~Full
    /\ Len(sent) < MaxPuts
    /\ putting' = [at |-> "word1", item |-> x]
    /\ UNCHANGED <<head, tail, buffer, getting, sent, got>>

PutWord(k, here, next) ==
    /\ putting.at = here
    /\ buffer' = [buffer EXCEPT ![Slot(head)][k] = putting.item]
    /\ putting' = [putting EXCEPT !.at = next]
    /\ UNCHANGED <<head, sent, tail, getting, got>>

\* Mutant: the counter moves before the second word is written.
PutPublishEarly ==
    /\ putting.at = "word2"
    /\ head' = head + 1
    /\ sent' = Append(sent, putting.item)
    /\ putting' = [putting EXCEPT !.at = "idle"]
    /\ UNCHANGED <<buffer, tail, getting, got>>

\* The counter moves after both words are in place.
PutPublish ==
    /\ putting.at = "publish"
    /\ head' = head + 1
    /\ sent' = Append(sent, putting.item)
    /\ putting' = [putting EXCEPT !.at = "idle"]
    /\ UNCHANGED <<buffer, tail, getting, got>>

-----------------------------------------------------------------------------
(* Consumer: get() and peek()                                              *)

GetEmpty ==
    /\ getting.at = "idle"
    /\ Empty
    /\ UNCHANGED vars

\* op is "get" or "peek": the same reads, but peek leaves the counter alone.
GetStart(op) ==
    /\ getting.at = "idle"
    /\ ~Empty
    /\ getting' = [getting EXCEPT !.at = "word1", !.op = op]
    /\ UNCHANGED <<tail, got, head, buffer, putting, sent>>

GetWord(k, here, next) ==
    /\ getting.at = here
    /\ getting' = [getting EXCEPT !.at = next, !.frame[k] = buffer[Slot(tail)][k]]
    /\ UNCHANGED <<tail, got, head, buffer, putting, sent>>

\* The slot is released after the frame has been read.
GetRelease ==
    /\ getting.at = "release"
    /\ getting.op = "get"
    /\ tail' = tail + 1
    /\ got' = Append(got, getting.frame)
    /\ getting' = [getting EXCEPT !.at = "idle"]
    /\ UNCHANGED <<head, buffer, putting, sent>>

PeekReturn ==
    /\ getting.at = "release"
    /\ getting.op = "peek"
    /\ getting' = [getting EXCEPT !.at = "idle"]
    /\ UNCHANGED <<head, tail, buffer, putting, sent, got>>

-----------------------------------------------------------------------------
Init ==
    /\ head = 0
    /\ tail = 0
    /\ buffer = [i \in 0..Capacity - 1 |-> Whole(Blank)]
    /\ putting = [at |-> "idle", item |-> Blank]
    /\ getting = [at |-> "idle", op |-> "get", frame |-> Whole(Blank)]
    /\ sent = <<>>
    /\ got = <<>>

Producer ==
    \/ PutFull
    \/ \E x \in Item : PutStart(x)
    \/ PutWord(1, "word1", "word2")
    \/ PutWord(2, "word2", "publish")
    \/ PutPublish

ConsumerStep ==
    \/ GetWord(1, "word1", "word2")
    \/ GetWord(2, "word2", "release")
    \/ GetRelease
    \/ PeekReturn

Consumer ==
    \/ GetEmpty
    \/ GetStart("get")
    \/ GetStart("peek")
    \/ ConsumerStep

Next == Producer \/ Consumer

\* The consumer polls: a call it has started ends, and between peeks it comes
\* back to get.  The producer may stop at any point.
Fairness == WF_vars(ConsumerStep) /\ SF_vars(GetStart("get"))

Spec == Init /\ [][Next]_vars /\ Fairness

-----------------------------------------------------------------------------
(* Properties.                                                             *)

Word == Item \union {Blank}

\* The type invariant; in particular get never returns a blank word.
TypeOK ==
    /\ head \in Nat /\ tail \in Nat
    /\ buffer \in [0..Capacity - 1 -> [1..2 -> Word]]
    /\ putting \in [at: {"idle", "word1", "word2", "publish"}, item: Word]
    /\ getting \in [at: {"idle", "word1", "word2", "release"},
                    op: {"get", "peek"}, frame: [1..2 -> Word]]
    /\ sent \in Seq(Item)
    /\ got \in Seq([1..2 -> Item])

\* The ring never holds more than Capacity items nor fewer than none, although
\* each side decides on a counter the other may be about to move.
OccupancyBounded == tail <= head /\ head <= tail + Capacity

\* get returns whole frames, each once and in the order they were put: no torn
\* frame, none lost, none twice.
DeliveredInOrder ==
    /\ Len(got) <= Len(sent)
    /\ \A i \in 1..Len(got) : got[i] = Whole(sent[i])

\* A peek that returns shows the whole frame the next get will return.
PeekShowsNext ==
    getting.at = "release" =>
        /\ tail < head
        /\ getting.frame = Whole(sent[tail + 1])

\* The frames in the ring, read from the slots.
Waiting == [i \in 1..head - tail |-> buffer[Slot(tail + i - 1)][1]]

Fifo == INSTANCE BoundedFifo WITH
    waiting <- Waiting, output <- [i \in 1..Len(got) |-> got[i][1]]

\* The ring is a bounded first-in first-out queue, and what was put is
\* eventually got by a consumer that keeps polling.
ImplementsFifo == Fifo!Spec
=============================================================================
