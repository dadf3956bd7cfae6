-------------------------- MODULE RingBufferProofs --------------------------
(***************************************************************************)
(* Proofs about the rings, for every capacity and any number of puts:      *)
(* SPSCRingBuffer and, at the end, BinaryEventRing for every frame size    *)
(* and all frames.                                                         *)
(***************************************************************************)
EXTENDS SPSCRingBuffer, BinaryEventRing, SequenceTheorems, TLAPS

-----------------------------------------------------------------------------
(* Slots.                                                                  *)

\* Quotient and remainder, the arithmetic behind the mask of the ring.
LEMMA DivMod ==
    ASSUME NEW i \in Nat, NEW c \in Nat \ {0}
    PROVE  /\ i % c \in 0..c - 1
           /\ i \div c \in Nat
           /\ i = c * (i \div c) + (i % c)
<1>1. i % c \in 0..c - 1
  OBVIOUS
<1>2. i = c * (i \div c) + (i % c)
  OBVIOUS
<1>3. i \div c \in Nat
  OBVIOUS
<1> QED BY <1>1, <1>2, <1>3

\* Counters less than a lap apart use different slots.
LEMMA SlotsDiffer ==
    ASSUME NEW i \in Nat, NEW j \in Nat, i < j, j < i + Capacity
    PROVE  Slot(i) # Slot(j)
<1> SUFFICES ASSUME Slot(i) = Slot(j) PROVE FALSE
  OBVIOUS
<1> DEFINE a == i \div Capacity
           b == j \div Capacity
<1>1. a \in Nat /\ b \in Nat /\ Capacity \in Nat \ {0}
  BY DivMod, CapacityAssumption
<1>2. i = Capacity * a + Slot(i) /\ j = Capacity * b + Slot(j)
      /\ Slot(i) \in Nat /\ Slot(j) \in Nat
  BY DivMod, CapacityAssumption DEF Slot
<1> HIDE DEF a, b
<1>3. Capacity * a \in Nat /\ Capacity * b \in Nat
  BY <1>1
<1>4. Capacity * a < Capacity * b /\ Capacity * b < Capacity * a + Capacity
  BY <1>1, <1>2, <1>3
<1>5. Capacity * a + Capacity = Capacity * (a + 1)
  BY <1>1
<1>6. CASE b <= a
  <2>1. Capacity * b <= Capacity * a BY <1>6, <1>1
  <2> QED BY <2>1, <1>3, <1>4
<1>7. CASE a + 1 <= b
  <2>1. Capacity * (a + 1) <= Capacity * b BY <1>7, <1>1
  <2> QED BY <2>1, <1>1, <1>3, <1>4, <1>5
<1> QED BY <1>1, <1>6, <1>7

\* The slot of a counter is one of the ring.
LEMMA SlotInRange == \A i \in Nat : Slot(i) \in 0..Capacity - 1
BY DivMod, CapacityAssumption DEF Slot

-----------------------------------------------------------------------------
(* The inductive invariant.                                                *)

\* The counters are the lengths of the two histories.
CountersExact == head = Len(sent) /\ tail = Len(got)

\* Every slot between tail and head holds the whole frame that was put there.
SlotsHoldSent == \A i \in tail..head - 1 : buffer[Slot(i)] = Whole(sent[i + 1])

\* A producer inside put owns the slot at head, a free one, and has written
\* there the words it has passed.
ProducerOwnsSlot ==
    putting.at # "idle" =>
        /\ head < tail + Capacity
        /\ putting.item \in Item
        /\ putting.at # "word1" => buffer[Slot(head)][1] = putting.item
        /\ putting.at = "publish" => buffer[Slot(head)][2] = putting.item

\* A consumer inside get or peek owns the slot at tail, a full one, and has read
\* there the words it has passed.
ConsumerOwnsSlot ==
    getting.at # "idle" =>
        /\ tail < head
        /\ getting.at # "word1" => getting.frame[1] = sent[tail + 1]
        /\ getting.at = "release" => getting.frame[2] = sent[tail + 1]

RingInv ==
    /\ TypeOK
    /\ OccupancyBounded
    /\ CountersExact
    /\ SlotsHoldSent
    /\ DeliveredInOrder
    /\ ProducerOwnsSlot
    /\ ConsumerOwnsSlot

\* The empty ring satisfies the invariant.
LEMMA InitRingInv == Init => RingInv
<1> SUFFICES ASSUME Init PROVE RingInv
  OBVIOUS
<1>1. TypeOK
  BY CapacityAssumption, EmptySeq DEF Init, TypeOK, Whole, Word
<1>2. Len(sent) = 0 /\ Len(got) = 0
  BY EmptySeq DEF Init
<1> QED BY <1>1, <1>2, CapacityAssumption
       DEF Init, RingInv, OccupancyBounded, CountersExact, SlotsHoldSent,
           DeliveredInOrder, ProducerOwnsSlot, ConsumerOwnsSlot

\* The producer's write to the slot at head changes no slot in use.
LEMMA PutWordRingInv ==
    ASSUME RingInv, NEW k \in 1..2, NEW here, NEW next,
           PutWord(k, here, next),
           \/ k = 1 /\ here = "word1" /\ next = "word2"
           \/ k = 2 /\ here = "word2" /\ next = "publish"
    PROVE  RingInv'
<1>1. /\ putting.at = here /\ here # "idle"
      /\ buffer' = [buffer EXCEPT ![Slot(head)][k] = putting.item]
      /\ putting' = [putting EXCEPT !.at = next]
      /\ UNCHANGED <<head, sent, tail, getting, got>>
  BY DEF PutWord
<1>2. head \in Nat /\ tail \in Nat /\ Slot(head) \in 0..Capacity - 1
      /\ Capacity \in Nat /\ putting.item \in Item /\ head < tail + Capacity
      /\ tail <= head
  BY <1>1, SlotInRange, CapacityAssumption
     DEF RingInv, TypeOK, ProducerOwnsSlot, OccupancyBounded
<1>3. TypeOK'
  <2>1. buffer' \in [0..Capacity - 1 -> [1..2 -> Word]]
    BY <1>1, <1>2 DEF RingInv, TypeOK, Word
  <2>2. putting' \in [at: {"idle", "word1", "word2", "publish"}, item: Word]
    BY <1>1 DEF RingInv, TypeOK
  <2> QED BY <2>1, <2>2, <1>1 DEF RingInv, TypeOK
<1>4. SlotsHoldSent'
  <2> SUFFICES ASSUME NEW i \in tail..head - 1
               PROVE  buffer'[Slot(i)] = buffer[Slot(i)]
    BY <1>1 DEF RingInv, SlotsHoldSent
  <2>1. i \in Nat /\ i < head /\ head < i + Capacity
    BY <1>2
  <2>2. Slot(i) # Slot(head) /\ Slot(i) \in 0..Capacity - 1
    BY <2>1, <1>2, SlotsDiffer, SlotInRange
  <2> QED BY <2>2, <1>1, <1>2 DEF RingInv, TypeOK
<1>5. ProducerOwnsSlot'
  <2>1. \A j \in 1..2 : buffer'[Slot(head)][j] =
           IF j = k THEN putting.item ELSE buffer[Slot(head)][j]
    BY <1>1, <1>2 DEF RingInv, TypeOK
  <2>2. putting'.at = next /\ putting'.item = putting.item
    BY <1>1 DEF RingInv, TypeOK
  <2>3. here # "word1" => buffer[Slot(head)][1] = putting.item
    BY <1>1 DEF RingInv, ProducerOwnsSlot
  <2> QED BY <2>1, <2>2, <2>3, <1>1, <1>2 DEF ProducerOwnsSlot
<1>6. (OccupancyBounded /\ CountersExact /\ DeliveredInOrder /\ ConsumerOwnsSlot)'
  BY <1>1 DEF RingInv, OccupancyBounded, CountersExact, DeliveredInOrder,
              ConsumerOwnsSlot
<1> QED BY <1>3, <1>4, <1>5, <1>6 DEF RingInv

\* Moving head hands a completely written slot to the consumer.
LEMMA PutPublishRingInv ==
    ASSUME RingInv, PutPublish
    PROVE  RingInv'
<1>1. /\ putting.at = "publish"
      /\ head' = head + 1
      /\ sent' = Append(sent, putting.item)
      /\ putting' = [putting EXCEPT !.at = "idle"]
      /\ UNCHANGED <<buffer, tail, getting, got>>
  BY DEF PutPublish
<1>2. /\ head \in Nat /\ tail \in Nat /\ Capacity \in Nat
      /\ tail <= head /\ head < tail + Capacity
      /\ putting.item \in Item /\ sent \in Seq(Item) /\ head = Len(sent)
      /\ buffer[Slot(head)][1] = putting.item
      /\ buffer[Slot(head)][2] = putting.item
  BY <1>1, CapacityAssumption
     DEF RingInv, TypeOK, OccupancyBounded, ProducerOwnsSlot, CountersExact
<1>3. /\ sent' \in Seq(Item) /\ Len(sent') = head + 1
      /\ \A i \in 1..head : sent'[i] = sent[i]
      /\ sent'[head + 1] = putting.item
  BY <1>1, <1>2, AppendProperties
<1>4. TypeOK'
  <2>1. putting' \in [at: {"idle", "word1", "word2", "publish"}, item: Word]
    BY <1>1 DEF RingInv, TypeOK
  <2> QED BY <2>1, <1>1, <1>2, <1>3 DEF RingInv, TypeOK
<1>5. SlotsHoldSent'
  <2> SUFFICES ASSUME NEW i \in tail..head
               PROVE  buffer[Slot(i)] = Whole(sent'[i + 1])
    BY <1>1, <1>2 DEF SlotsHoldSent
  <2>1. CASE i = head
    <3>1. buffer[Slot(head)] \in [1..2 -> Word]
      BY <1>2, SlotInRange DEF RingInv, TypeOK
    <3>2. buffer[Slot(head)] = [k \in 1..2 |-> putting.item]
      BY <3>1, <1>2
    <3> QED BY <3>2, <2>1, <1>3 DEF Whole
  <2>2. CASE i < head
    <3>1. i \in tail..head - 1 /\ i + 1 \in 1..head BY <2>2, <1>2
    <3> QED BY <3>1, <1>3 DEF RingInv, SlotsHoldSent
  <2> QED BY <2>1, <2>2, <1>2
<1>6. DeliveredInOrder'
  <2>1. Len(got) <= head /\ Len(got) \in Nat
    BY <1>2 DEF RingInv, CountersExact
  <2>2. \A i \in 1..Len(got) : sent'[i] = sent[i]
    BY <2>1, <1>2, <1>3
  <2> QED BY <2>1, <2>2, <1>1, <1>2, <1>3 DEF RingInv, DeliveredInOrder
<1>7. ConsumerOwnsSlot'
  <2>1. tail < head => tail + 1 \in 1..head
    BY <1>2
  <2> QED BY <2>1, <1>1, <1>2, <1>3 DEF RingInv, ConsumerOwnsSlot
<1>8. ProducerOwnsSlot'
  BY <1>1 DEF RingInv, TypeOK, ProducerOwnsSlot
<1>9. OccupancyBounded' /\ CountersExact'
  BY <1>1, <1>2, <1>3 DEF RingInv, OccupancyBounded, CountersExact
<1> QED BY <1>4, <1>5, <1>6, <1>7, <1>8, <1>9 DEF RingInv

\* The consumer reads the word of the frame it is to return.
LEMMA GetWordRingInv ==
    ASSUME RingInv, NEW k \in 1..2, NEW here, NEW next,
           GetWord(k, here, next),
           \/ k = 1 /\ here = "word1" /\ next = "word2"
           \/ k = 2 /\ here = "word2" /\ next = "release"
    PROVE  RingInv'
<1>1. /\ getting.at = here /\ here # "idle"
      /\ getting' = [getting EXCEPT !.at = next, !.frame[k] = buffer[Slot(tail)][k]]
      /\ UNCHANGED <<tail, got, head, buffer, putting, sent>>
  BY DEF GetWord
<1>2. /\ head \in Nat /\ tail \in Nat /\ tail < head /\ Slot(tail) \in 0..Capacity - 1
      /\ buffer[Slot(tail)] \in [1..2 -> Word]
      /\ getting.frame \in [1..2 -> Word]
  BY <1>1, SlotInRange DEF RingInv, TypeOK, ConsumerOwnsSlot
<1>3. buffer[Slot(tail)][k] = sent[tail + 1]
  <2>1. buffer[Slot(tail)] = Whole(sent[tail + 1])
    BY <1>2 DEF RingInv, SlotsHoldSent
  <2> QED BY <2>1 DEF Whole
<1>4. TypeOK'
  <2>1. getting' \in [at: {"idle", "word1", "word2", "release"},
                      op: {"get", "peek"}, frame: [1..2 -> Word]]
    BY <1>1, <1>2 DEF RingInv, TypeOK
  <2> QED BY <2>1, <1>1 DEF RingInv, TypeOK
<1>5. ConsumerOwnsSlot'
  <2>1. getting'.at = next
    BY <1>1 DEF RingInv, TypeOK
  <2>2. \A j \in 1..2 : getting'.frame[j] =
           IF j = k THEN sent[tail + 1] ELSE getting.frame[j]
    BY <1>1, <1>2, <1>3 DEF RingInv, TypeOK
  <2>3. here # "word1" => getting.frame[1] = sent[tail + 1]
    BY <1>1 DEF RingInv, ConsumerOwnsSlot
  <2> QED BY <2>1, <2>2, <2>3, <1>1, <1>2 DEF ConsumerOwnsSlot
<1>6. (OccupancyBounded /\ CountersExact /\ SlotsHoldSent /\ DeliveredInOrder
          /\ ProducerOwnsSlot)'
  BY <1>1 DEF RingInv, OccupancyBounded, CountersExact, SlotsHoldSent,
              DeliveredInOrder, ProducerOwnsSlot
<1> QED BY <1>4, <1>5, <1>6 DEF RingInv

\* What the consumer has when it has read both words.
LEMMA FrameRead ==
    ASSUME RingInv, getting.at = "release"
    PROVE  /\ tail < head
           /\ sent[tail + 1] \in Item
           /\ getting.frame = Whole(sent[tail + 1])
<1>1. /\ tail < head /\ head \in Nat /\ tail \in Nat /\ head = Len(sent)
      /\ getting.frame[1] = sent[tail + 1] /\ getting.frame[2] = sent[tail + 1]
      /\ getting.frame \in [1..2 -> Word] /\ sent \in Seq(Item)
  BY DEF RingInv, TypeOK, ConsumerOwnsSlot, CountersExact
<1>2. getting.frame = [k \in 1..2 |-> sent[tail + 1]]
  BY <1>1
<1>3. tail + 1 \in 1..Len(sent)
  BY <1>1
<1>4. sent[tail + 1] \in Item
  BY <1>1, <1>3, ElementOfSeq
<1> QED BY <1>1, <1>2, <1>4 DEF Whole

\* Moving tail gives the slot back after its frame was read.
LEMMA GetReleaseRingInv ==
    ASSUME RingInv, GetRelease
    PROVE  RingInv'
<1>1. /\ getting.at = "release"
      /\ tail' = tail + 1
      /\ got' = Append(got, getting.frame)
      /\ getting' = [getting EXCEPT !.at = "idle"]
      /\ UNCHANGED <<head, buffer, putting, sent>>
  BY DEF GetRelease
<1>2. /\ head \in Nat /\ tail \in Nat /\ Capacity \in Nat /\ tail < head
      /\ head <= tail + Capacity /\ head = Len(sent) /\ tail = Len(got)
      /\ got \in Seq([1..2 -> Item])
  BY <1>1, FrameRead, CapacityAssumption
     DEF RingInv, TypeOK, OccupancyBounded, CountersExact
<1>3. getting.frame = Whole(sent[tail + 1]) /\ getting.frame \in [1..2 -> Item]
  BY <1>1, FrameRead DEF Whole
<1>4. /\ got' \in Seq([1..2 -> Item]) /\ Len(got') = tail + 1
      /\ \A i \in 1..tail : got'[i] = got[i]
      /\ got'[tail + 1] = Whole(sent[tail + 1])
  BY <1>1, <1>2, <1>3, AppendProperties
<1>5. TypeOK'
  <2>1. getting' \in [at: {"idle", "word1", "word2", "release"},
                      op: {"get", "peek"}, frame: [1..2 -> Word]]
    BY <1>1 DEF RingInv, TypeOK
  <2>2. tail' \in Nat
    BY <1>1, <1>2
  <2>3. /\ head' \in Nat /\ sent' \in Seq(Item)
        /\ buffer' \in [0..Capacity - 1 -> [1..2 -> Word]]
        /\ putting' \in [at: {"idle", "word1", "word2", "publish"}, item: Word]
    BY <1>1 DEF RingInv, TypeOK
  <2>4. got' \in Seq([1..2 -> Item])
    BY <1>4
  <2> QED BY <2>1, <2>2, <2>3, <2>4 DEF TypeOK
<1>6. SlotsHoldSent'
  BY <1>1, <1>2 DEF RingInv, SlotsHoldSent
<1>7. DeliveredInOrder'
  <2> SUFFICES ASSUME NEW i \in 1..tail + 1 PROVE got'[i] = Whole(sent[i])
    BY <1>1, <1>2, <1>4 DEF DeliveredInOrder
  <2>1. CASE i = tail + 1 BY <2>1, <1>4
  <2>2. CASE i \in 1..tail
    BY <2>2, <1>2, <1>4 DEF RingInv, DeliveredInOrder
  <2> QED BY <2>1, <2>2, <1>2
<1>8. ProducerOwnsSlot'
  BY <1>1, <1>2 DEF RingInv, ProducerOwnsSlot
<1>9. ConsumerOwnsSlot'
  BY <1>1 DEF RingInv, TypeOK, ConsumerOwnsSlot
<1>10. OccupancyBounded' /\ CountersExact'
  BY <1>1, <1>2, <1>4 DEF RingInv, OccupancyBounded, CountersExact
<1> QED BY <1>5, <1>6, <1>7, <1>8, <1>9, <1>10 DEF RingInv

\* Every step of either side preserves the invariant.
LEMMA NextRingInv == RingInv /\ [Next]_vars => RingInv'
<1> SUFFICES ASSUME RingInv, [Next]_vars PROVE RingInv'
  OBVIOUS
<1> USE DEF RingInv, OccupancyBounded, CountersExact, SlotsHoldSent,
            DeliveredInOrder, ProducerOwnsSlot, ConsumerOwnsSlot
<1>1. ASSUME NEW x \in Item, PutStart(x) PROVE RingInv'
  <2>1. /\ ~Full /\ putting' = [at |-> "word1", item |-> x]
        /\ UNCHANGED <<head, tail, buffer, getting, sent, got>>
    BY <1>1 DEF PutStart
  <2>2. TypeOK'
    BY <2>1 DEF TypeOK, Word
  <2>3. ProducerOwnsSlot'
    BY <2>1, CapacityAssumption DEF Full, TypeOK
  <2> QED BY <2>1, <2>2, <2>3
<1>2. ASSUME NEW op \in {"get", "peek"}, GetStart(op) PROVE RingInv'
  <2>1. /\ ~Empty /\ getting' = [getting EXCEPT !.at = "word1", !.op = op]
        /\ UNCHANGED <<tail, got, head, buffer, putting, sent>>
    BY <1>2 DEF GetStart
  <2>2. TypeOK'
    BY <2>1 DEF TypeOK
  <2>3. ConsumerOwnsSlot'
    BY <2>1 DEF Empty, TypeOK
  <2> QED BY <2>1, <2>2, <2>3
<1>3. CASE PeekReturn
  <2>1. /\ getting' = [getting EXCEPT !.at = "idle"]
        /\ UNCHANGED <<head, tail, buffer, putting, sent, got>>
    BY <1>3 DEF PeekReturn
  <2>2. TypeOK'
    BY <2>1 DEF TypeOK
  <2>3. ConsumerOwnsSlot'
    BY <2>1 DEF TypeOK
  <2> QED BY <2>1, <2>2, <2>3
<1>4. CASE UNCHANGED vars
  BY <1>4 DEF vars, TypeOK
<1>5. CASE Producer
  BY <1>1, <1>4, <1>5, PutWordRingInv, PutPublishRingInv DEF Producer, PutFull
<1>6. CASE Consumer
  BY <1>2, <1>3, <1>4, <1>6, GetWordRingInv, GetReleaseRingInv
     DEF Consumer, ConsumerStep, GetEmpty
<1> QED BY <1>4, <1>5, <1>6 DEF Next

\* The inductive invariant holds in every reachable state of put, get and peek.
THEOREM RingInvariant == Spec => []RingInv
BY InitRingInv, NextRingInv, PTL DEF Spec

\* get returns whole frames, in the order of put, each exactly once.
THEOREM AlwaysInOrder == Spec => []DeliveredInOrder
<1>1. RingInv => DeliveredInOrder BY DEF RingInv
<1> QED BY <1>1, RingInvariant, PTL

\* The ring is never overfull, whichever side moves between a test and a write.
THEOREM NeverOverfull == Spec => []OccupancyBounded
<1>1. RingInv => OccupancyBounded BY DEF RingInv
<1> QED BY <1>1, RingInvariant, PTL

\* A peek shows the frame the next get returns.
THEOREM PeekIsNext == Spec => []PeekShowsNext
<1>1. RingInv => PeekShowsNext
  BY FrameRead DEF PeekShowsNext
<1> QED BY <1>1, RingInvariant, PTL

\* Counters, slots, frames and histories keep their types; no blank word is ever
\* handed out (the ctypes array starts zeroed).
THEOREM RingTyped == Spec => []TypeOK
<1>1. RingInv => TypeOK BY DEF RingInv
<1> QED BY <1>1, RingInvariant, PTL

-----------------------------------------------------------------------------
(* The ring implements a bounded first-in first-out queue.                 *)

\* What the consumer has taken, word by word, and what still waits.
Output == [i \in 1..Len(got) |-> got[i][1]]

\* What waits in the slots is the part of sent that is not got yet.
WaitingSound ==
    /\ head - tail \in Nat
    /\ Waiting \in Seq(Item)
    /\ Len(Waiting) = head - tail
    /\ \A i \in 1..head - tail : Waiting[i] = sent[tail + i]

\* What get has returned, as the abstract queue sees it.
OutputSound ==
    /\ Output \in Seq(Item)
    /\ Len(Output) = Len(got)
    /\ \A i \in 1..Len(got) : Output[i] = got[i][1]

\* The slots between the counters, read in order, are the items still to be got.
LEMMA WaitingIsSent == RingInv => WaitingSound
<1> SUFFICES ASSUME RingInv PROVE WaitingSound
  OBVIOUS
<1>1. /\ head \in Nat /\ tail \in Nat /\ tail <= head /\ head = Len(sent)
      /\ sent \in Seq(Item)
  BY DEF RingInv, TypeOK, OccupancyBounded, CountersExact
<1>2. ASSUME NEW i \in 1..head - tail
      PROVE  buffer[Slot(tail + i - 1)][1] = sent[tail + i] /\ sent[tail + i] \in Item
  <2>1. tail + i - 1 \in tail..head - 1 /\ (tail + i - 1) + 1 = tail + i
    BY <1>1
  <2>2. buffer[Slot(tail + i - 1)] = Whole(sent[tail + i])
    BY <2>1 DEF RingInv, SlotsHoldSent
  <2>3. tail + i \in 1..Len(sent)
    BY <1>1
  <2> QED BY <1>1, <2>2, <2>3, ElementOfSeq DEF Whole
<1>3. Waiting \in [1..head - tail -> Item]
  BY <1>2 DEF Waiting
<1>4. head - tail \in Nat
  BY <1>1
<1>5. Waiting \in Seq(Item)
  BY <1>3, <1>4, SeqDef
<1>6. DOMAIN Waiting = 1..head - tail
  BY <1>3
<1>7. Len(Waiting) = head - tail
  BY <1>4, <1>5, <1>6, LenProperties
<1> QED BY <1>2, <1>4, <1>5, <1>7 DEF Waiting, WaitingSound

\* The frames of got are whole, so one word of each is the item.
LEMMA OutputIsGot == RingInv => OutputSound
<1> SUFFICES ASSUME RingInv PROVE OutputSound
  OBVIOUS
<1>1. Len(got) \in Nat /\ \A i \in 1..Len(got) : got[i] \in [1..2 -> Item]
  BY LenProperties, ElementOfSeq DEF RingInv, TypeOK
<1>2. Output \in [1..Len(got) -> Item]
  BY <1>1 DEF Output
<1>3. Output \in Seq(Item)
  BY <1>1, <1>2, SeqDef
<1>4. DOMAIN Output = 1..Len(got)
  BY <1>2
<1> QED BY <1>1, <1>3, <1>4, LenProperties DEF Output, OutputSound

\* Publishing the counter appends the item.
LEMMA PublishEnqueues ==
    ASSUME RingInv, RingInv', PutPublish
    PROVE  \E x \in Item : Fifo!Enqueue(x)
<1>1. /\ putting.at = "publish" /\ head' = head + 1 /\ tail' = tail /\ got' = got
      /\ sent' = Append(sent, putting.item)
  BY DEF PutPublish
<1>2. /\ head \in Nat /\ tail \in Nat /\ Capacity \in Nat /\ tail <= head
      /\ putting.item \in Item /\ head < tail + Capacity
      /\ head = Len(sent) /\ sent \in Seq(Item)
  BY <1>1, CapacityAssumption
     DEF RingInv, TypeOK, OccupancyBounded, CountersExact, ProducerOwnsSlot
<1>3. /\ \A i \in 1..head : sent'[i] = sent[i]
      /\ sent'[head + 1] = putting.item
  BY <1>1, <1>2, AppendProperties
<1>4. /\ Waiting \in Seq(Item) /\ Len(Waiting) = head - tail
      /\ \A i \in 1..head - tail : Waiting[i] = sent[tail + i]
  BY WaitingIsSent DEF WaitingSound
<1>5. /\ Waiting' \in Seq(Item) /\ Len(Waiting') = head + 1 - tail
      /\ \A i \in 1..head + 1 - tail : Waiting'[i] = sent'[tail + i]
  <2>A. WaitingSound'
    BY WaitingIsSent, PTL
  <2>1. /\ Waiting' \in Seq(Item) /\ Len(Waiting') = head' - tail'
        /\ \A i \in 1..head' - tail' : Waiting'[i] = sent'[tail' + i]
    BY <2>A DEF WaitingSound
  <2>2. head' - tail' = head + 1 - tail
    BY <1>1, <1>2
  <2> QED BY <2>1, <2>2, <1>1
<1>6. /\ Append(Waiting, putting.item) \in Seq(Item)
      /\ Len(Append(Waiting, putting.item)) = head - tail + 1
      /\ \A i \in 1..head - tail : Append(Waiting, putting.item)[i] = Waiting[i]
      /\ Append(Waiting, putting.item)[head - tail + 1] = putting.item
  BY <1>2, <1>4, AppendProperties
<1>7. ASSUME NEW i \in 1..head + 1 - tail
      PROVE  Waiting'[i] = Append(Waiting, putting.item)[i]
  <2>1. CASE i = head - tail + 1
    <3>1. tail + i = head + 1
      BY <2>1, <1>2
    <3> QED BY <2>1, <3>1, <1>3, <1>5, <1>6
  <2>2. CASE i \in 1..head - tail
    <3>1. tail + i \in 1..head
      BY <2>2, <1>2
    <3> QED BY <2>2, <3>1, <1>3, <1>4, <1>5, <1>6
  <2>3. i = head - tail + 1 \/ i \in 1..head - tail
    BY <1>2
  <2> QED BY <2>1, <2>2, <2>3
<1>8. Waiting' = Append(Waiting, putting.item)
  BY <1>2, <1>5, <1>6, <1>7, SeqEqual
<1>9. Output' = Output
  BY <1>1 DEF Output
<1>10. Len(Waiting) < Capacity
  BY <1>2, <1>4
<1> QED BY <1>2, <1>8, <1>9, <1>10 DEF Fifo!Enqueue, Output

\* Releasing the slot takes the oldest item.
LEMMA ReleaseDequeues ==
    ASSUME RingInv, RingInv', GetRelease
    PROVE  Fifo!Dequeue
<1>1. /\ getting.at = "release" /\ head' = head /\ tail' = tail + 1 /\ sent' = sent
      /\ got' = Append(got, getting.frame)
  BY DEF GetRelease
<1>2. /\ head \in Nat /\ tail \in Nat /\ tail < head /\ tail = Len(got)
      /\ got \in Seq([1..2 -> Item])
      /\ getting.frame = Whole(sent[tail + 1]) /\ getting.frame \in [1..2 -> Item]
  BY <1>1, FrameRead DEF RingInv, TypeOK, CountersExact, Whole
<1>3. /\ Waiting \in Seq(Item) /\ Len(Waiting) = head - tail
      /\ \A i \in 1..head - tail : Waiting[i] = sent[tail + i]
  BY WaitingIsSent DEF WaitingSound
<1>4. /\ Waiting' \in Seq(Item) /\ Len(Waiting') = head - tail - 1
      /\ \A i \in 1..head - tail - 1 : Waiting'[i] = sent[tail + 1 + i]
  <2>A. WaitingSound'
    BY WaitingIsSent, PTL
  <2>1. /\ Waiting' \in Seq(Item) /\ Len(Waiting') = head' - tail'
        /\ \A i \in 1..head' - tail' : Waiting'[i] = sent'[tail' + i]
    BY <2>A DEF WaitingSound
  <2>2. head' - tail' = head - tail - 1
    BY <1>1, <1>2
  <2> QED BY <2>1, <2>2, <1>1
<1>5. Waiting # <<>>
  BY <1>2, <1>3, EmptySeq
<1>6. /\ Tail(Waiting) \in Seq(Item) /\ Len(Tail(Waiting)) = head - tail - 1
      /\ \A i \in 1..head - tail - 1 : Tail(Waiting)[i] = Waiting[i + 1]
  BY <1>3, <1>5, HeadTailProperties
<1>7. ASSUME NEW i \in 1..head - tail - 1
      PROVE  Waiting'[i] = Tail(Waiting)[i]
  <2>1. i + 1 \in 1..head - tail /\ tail + (i + 1) = tail + 1 + i
    BY <1>2
  <2> QED BY <2>1, <1>3, <1>4, <1>6
<1>8. Waiting' = Tail(Waiting)
  BY <1>2, <1>4, <1>6, <1>7, SeqEqual
<1>9. Head(Waiting) = sent[tail + 1] /\ Head(Waiting) \in Item
  <2>1. 1 \in 1..head - tail
    BY <1>2
  <2>2. Waiting[1] = sent[tail + 1]
    BY <1>3, <2>1
  <2> QED BY <1>3, <1>5, <2>2, HeadTailProperties
<1>10. Output' = Append(Output, Head(Waiting))
  <2>1. Output \in Seq(Item) /\ Len(Output) = tail /\ \A i \in 1..tail : Output[i] = got[i][1]
    BY <1>2, OutputIsGot DEF OutputSound
  <2>2. /\ Len(got') = tail + 1 /\ \A i \in 1..tail : got'[i] = got[i]
        /\ got'[tail + 1] = getting.frame
    BY <1>1, <1>2, AppendProperties
  <2>3. /\ Output' \in Seq(Item) /\ Len(Output') = tail + 1
        /\ \A i \in 1..tail + 1 : Output'[i] = got'[i][1]
    <3>1. OutputSound'
      BY OutputIsGot, PTL
    <3> QED BY <3>1, <2>2 DEF OutputSound
  <2>4. getting.frame[1] = Head(Waiting)
    BY <1>2, <1>9 DEF Whole
  <2>5. /\ Append(Output, Head(Waiting)) \in Seq(Item)
        /\ Len(Append(Output, Head(Waiting))) = tail + 1
        /\ \A i \in 1..tail : Append(Output, Head(Waiting))[i] = Output[i]
        /\ Append(Output, Head(Waiting))[tail + 1] = Head(Waiting)
    BY <1>9, <2>1, AppendProperties
  <2>6. ASSUME NEW i \in 1..tail + 1
        PROVE  Output'[i] = Append(Output, Head(Waiting))[i]
    <3>1. CASE i = tail + 1
      BY <3>1, <2>2, <2>3, <2>4, <2>5
    <3>2. CASE i \in 1..tail
      BY <3>2, <2>1, <2>2, <2>3, <2>5
    <3>3. i = tail + 1 \/ i \in 1..tail
      BY <1>2
    <3> QED BY <3>1, <3>2, <3>3
  <2> QED BY <1>2, <2>3, <2>5, <2>6, SeqEqual
<1> QED BY <1>5, <1>8, <1>10 DEF Fifo!Dequeue, Output

\* The other steps, a producer or a consumer inside its copy, move nothing in the
\* queue: a frame that is half written or half read is invisible.
LEMMA CopyingIsInvisible ==
    ASSUME RingInv, RingInv', UNCHANGED <<head, tail, sent, got>>
    PROVE  UNCHANGED Fifo!vars
<1>1. WaitingSound /\ WaitingSound'
  BY WaitingIsSent, PTL
<1>2. /\ Waiting \in Seq(Item) /\ Waiting' \in Seq(Item) /\ Len(Waiting) = Len(Waiting')
      /\ \A i \in 1..Len(Waiting) : Waiting'[i] = Waiting[i]
  BY <1>1 DEF WaitingSound
<1>3. Waiting' = Waiting
  BY <1>2, SeqEqual
<1>4. Output' = Output
  BY DEF Output
<1> QED BY <1>3, <1>4 DEF Fifo!vars, Output

\* put, get and peek, interleaved at every word they copy, behave as one bounded
\* first-in first-out queue.
THEOREM RingImplementsFifo == Spec => Fifo!Safety
<1>1. Init => Fifo!Init
  <2> SUFFICES ASSUME Init PROVE Fifo!Init
    OBVIOUS
  <2>1. RingInv /\ head - tail = 0 /\ Len(got) = 0
    BY InitRingInv, EmptySeq DEF Init
  <2>2. Waiting \in Seq(Item) /\ Len(Waiting) = 0
    BY <2>1, WaitingIsSent DEF WaitingSound
  <2>3. Output \in Seq(Item) /\ Len(Output) = 0
    BY <2>1, OutputIsGot DEF OutputSound
  <2>4. Waiting = <<>> /\ Output = <<>>
    BY <2>2, <2>3, EmptySeq
  <2> QED BY <2>4 DEF Fifo!Init, Output
<1>2. ASSUME RingInv, RingInv', [Next]_vars
      PROVE  [Fifo!Next]_(Fifo!vars)
  <2>1. CASE PutPublish
    BY <1>2, <2>1, PublishEnqueues DEF Fifo!Next
  <2>2. CASE GetRelease
    BY <1>2, <2>2, ReleaseDequeues DEF Fifo!Next
  <2>3. CASE UNCHANGED <<head, tail, sent, got>>
    BY <1>2, <2>3, CopyingIsInvisible
  <2> QED BY <1>2, <2>1, <2>2, <2>3
          DEF Next, Producer, Consumer, ConsumerStep, PutFull, PutStart, PutWord,
              GetEmpty, GetStart, GetWord, PeekReturn, vars
<1> QED BY <1>1, <1>2, RingInvariant, PTL DEF Spec, Fifo!Safety

-----------------------------------------------------------------------------
(* BinaryEventRing: slices of its storage.                                 *)

\* A prefix of a sequence.
LEMMA TakeFacts ==
    ASSUME NEW S, NEW s \in Seq(S), NEW n \in Nat
    PROVE  /\ Take(s, n) \in Seq(S)
           /\ Len(Take(s, n)) = IF n < Len(s) THEN n ELSE Len(s)
           /\ \A i \in 1..Len(Take(s, n)) : Take(s, n)[i] = s[i]
<1> DEFINE k == IF n < Len(s) THEN n ELSE Len(s)
<1>1. /\ k \in Nat /\ k <= Len(s) /\ Len(s) \in Nat
      /\ \A i \in 1..Len(s) : s[i] \in S
  BY LenProperties, ElementOfSeq
<1>2. Take(s, n) = SubSeq(s, 1, k)
  BY DEF Take
<1> HIDE DEF k
<1>3. \A i \in 1..k : s[i] \in S
  BY <1>1
<1>4. /\ SubSeq(s, 1, k) \in Seq(S)
      /\ Len(SubSeq(s, 1, k)) = IF 1 <= k THEN k - 1 + 1 ELSE 0
      /\ \A i \in 1..k - 1 + 1 : SubSeq(s, 1, k)[i] = s[1 + i - 1]
  BY <1>1, <1>3, SubSeqProperties
<1>5. Len(Take(s, n)) = k
  BY <1>1, <1>2, <1>4
<1>6. \A i \in 1..k : Take(s, n)[i] = s[i]
  BY <1>1, <1>2, <1>4
<1> QED BY <1>2, <1>4, <1>5, <1>6 DEF k

\* The rest of a sequence.
LEMMA DropFacts ==
    ASSUME NEW S, NEW s \in Seq(S), NEW n \in Nat, n <= Len(s)
    PROVE  /\ Drop(s, n) \in Seq(S)
           /\ Len(Drop(s, n)) = Len(s) - n
           /\ \A i \in 1..Len(s) - n : Drop(s, n)[i] = s[n + i]
<1>1. Len(s) \in Nat /\ \A i \in 1..Len(s) : s[i] \in S
  BY LenProperties, ElementOfSeq
<1>2. Drop(s, n) = SubSeq(s, n + 1, Len(s))
  BY DEF Drop
<1>3. \A i \in n + 1..Len(s) : s[i] \in S
  BY <1>1
<1>4. /\ SubSeq(s, n + 1, Len(s)) \in Seq(S)
      /\ Len(SubSeq(s, n + 1, Len(s)))
            = IF n + 1 <= Len(s) THEN Len(s) - (n + 1) + 1 ELSE 0
      /\ \A i \in 1..Len(s) - (n + 1) + 1 :
            SubSeq(s, n + 1, Len(s))[i] = s[(n + 1) + i - 1]
  BY <1>1, <1>3, SubSeqProperties
<1>5. Len(Drop(s, n)) = Len(s) - n
  BY <1>1, <1>2, <1>4
<1>6. \A i \in 1..Len(s) - n : Drop(s, n)[i] = s[n + i]
  BY <1>1, <1>2, <1>4
<1> QED BY <1>2, <1>4, <1>5, <1>6

\* A prefix as long as the sequence is the sequence.
LEMMA TakeWhole ==
    ASSUME NEW S, NEW s \in Seq(S)
    PROVE  Take(s, Len(s)) = s
<1>1. PICK t : t = Take(s, Len(s))
  OBVIOUS
<1>2. t \in Seq(S) /\ Len(t) = Len(s) /\ \A i \in 1..Len(t) : t[i] = s[i]
  BY <1>1, TakeFacts, LenProperties
<1> QED BY ONLY <1>1, <1>2, SeqEqual

\* Wherever it starts, the rest has elements of the sequence.
LEMMA DropTyped ==
    ASSUME NEW S, NEW s \in Seq(S), NEW n \in Nat
    PROVE  Drop(s, n) \in Seq(S)
<1>1. Len(s) \in Nat /\ \A i \in 1..Len(s) : s[i] \in S
  BY LenProperties, ElementOfSeq
<1>2. \A i \in n + 1..Len(s) : s[i] \in S
  BY <1>1
<1> QED BY <1>1, <1>2, SubSeqProperties DEF Drop

\* s[a:a + len(x)] = x
Assigned(s, a, x) == Take(s, a) \o x \o Drop(s, a + Len(x))

\* Assigning as many elements to a slice as it has leaves the rest where it is.
LEMMA SliceAssigned ==
    ASSUME NEW S, NEW s \in Seq(S), NEW x \in Seq(S), NEW a \in Nat,
           a + Len(x) <= Len(s), NEW t, t = Assigned(s, a, x)
    PROVE  /\ t \in Seq(S) /\ Len(t) = Len(s)
           /\ \A i \in 1..Len(x) : t[a + i] = x[i]
           /\ \A i \in 1..Len(s) : ~(a < i /\ i <= a + Len(x)) => t[i] = s[i]
<1> DEFINE p == Take(s, a)
           q == Drop(s, a + Len(x))
<1>1. Len(s) \in Nat /\ Len(x) \in Nat /\ a + Len(x) \in Nat
  BY LenProperties
<1>2. p \in Seq(S) /\ Len(p) = a /\ \A i \in 1..a : p[i] = s[i]
  <2>1. /\ p \in Seq(S) /\ Len(p) = IF a < Len(s) THEN a ELSE Len(s)
        /\ \A i \in 1..Len(p) : p[i] = s[i]
    BY TakeFacts
  <2>2. Len(p) = a
    BY <2>1, <1>1
  <2> QED BY <2>1, <2>2
<1>3. /\ q \in Seq(S) /\ Len(q) = Len(s) - (a + Len(x))
      /\ \A i \in 1..Len(s) - (a + Len(x)) : q[i] = s[a + Len(x) + i]
  BY <1>1, DropFacts
<1> HIDE DEF p, q
<1>4. PICK u : u = p \o x
  OBVIOUS
<1>5. PICK m : m = a + Len(x)
  OBVIOUS
<1>6. /\ u \in Seq(S) /\ Len(u) = m /\ m \in Nat
      /\ \A i \in 1..m : u[i] = IF i <= a THEN p[i] ELSE x[i - a]
  BY <1>1, <1>2, <1>4, <1>5, ConcatProperties
<1>7. q \in Seq(S) /\ Len(q) = Len(s) - m /\ \A i \in 1..Len(s) - m : q[i] = s[m + i]
  BY <1>3, <1>5
<1>8. t = u \o q
  BY <1>4 DEF p, q, Assigned
<1>9. /\ t \in Seq(S) /\ Len(t) = Len(u) + Len(q)
      /\ \A i \in 1..Len(u) + Len(q) : t[i] = IF i <= Len(u) THEN u[i] ELSE q[i - Len(u)]
  <2>1. u \in Seq(S) /\ q \in Seq(S)
    BY <1>6, <1>7
  <2>2. /\ u \o q \in Seq(S) /\ Len(u \o q) = Len(u) + Len(q)
        /\ \A i \in 1..Len(u) + Len(q) :
              (u \o q)[i] = IF i <= Len(u) THEN u[i] ELSE q[i - Len(u)]
    BY ONLY <2>1, ConcatProperties
  <2> QED BY ONLY <2>2, <1>8
<1>10. Len(t) = Len(s)
  BY ONLY <1>1, <1>6, <1>7, <1>9
<1>11. Len(u) = m /\ Len(u) + Len(q) = Len(s)
  BY ONLY <1>1, <1>6, <1>7
<1>12. \A i \in 1..Len(s) : t[i] = IF i <= m THEN u[i] ELSE q[i - m]
  BY ONLY <1>9, <1>11
<1>13. ASSUME NEW i \in 1..Len(x) PROVE t[a + i] = x[i]
  <2>1. /\ a + i \in 1..m /\ a + i \in 1..Len(s) /\ a + i <= m
        /\ ~(a + i <= a) /\ (a + i) - a = i
    BY <1>1, <1>5, <1>6
  <2>2. t[a + i] = u[a + i]
    BY <2>1, <1>12
  <2> QED BY <2>1, <2>2, <1>6
<1>14. ASSUME NEW i \in 1..Len(s), ~(a < i /\ i <= a + Len(x)) PROVE t[i] = s[i]
  <2>1. CASE i <= a
    <3>1. i \in 1..m /\ i <= m /\ i \in 1..a
      BY <2>1, <1>1, <1>5
    <3> QED BY <3>1, <2>1, <1>2, <1>6, <1>12
  <2>2. CASE ~(i <= a)
    <3>1. ~(i <= m) /\ i - m \in 1..Len(s) - m /\ m + (i - m) = i
      BY <2>2, <1>14, <1>1, <1>5, <1>6
    <3>2. t[i] = q[i - m]
      BY <3>1, <1>12
    <3> QED BY <3>1, <3>2, <1>7
  <2> QED BY <2>1, <2>2
<1> QED BY <1>9, <1>10, <1>13, <1>14

-----------------------------------------------------------------------------
(* BinaryEventRing: its slots.                                             *)

\* Every slot lies within the storage.
LEMMA StartInRange ==
    ASSUME NEW n \in Nat
    PROVE  Start(n) \in Nat /\ Start(n) + Stride <= Capacity * Stride
<1>1. /\ Slot(n) \in Nat /\ Slot(n) + 1 <= Capacity /\ Capacity \in Nat
      /\ Stride \in Nat \ {0}
  BY SlotInRange, CapacityAssumption, FrameSizeAssumption DEF Stride
<1>2. Start(n) = Slot(n) * Stride
  BY DEF Start
<1>3. PICK c : c = Slot(n)
  OBVIOUS
<1>4. PICK w : w = Stride
  OBVIOUS
<1>5. c * w \in Nat /\ (c + 1) * w = c * w + w /\ (c + 1) * w <= Capacity * w
  BY <1>1, <1>3, <1>4
<1> QED BY <1>1, <1>2, <1>3, <1>4, <1>5

\* The slots of counters less than a lap apart do not overlap.
LEMMA SlotsApart ==
    ASSUME NEW i \in Nat, NEW j \in Nat, i < j, j < i + Capacity
    PROVE  Start(i) + Stride <= Start(j) \/ Start(j) + Stride <= Start(i)
<1>1. /\ Slot(i) \in Nat /\ Slot(j) \in Nat /\ Slot(i) # Slot(j)
      /\ Stride \in Nat \ {0}
  BY SlotInRange, SlotsDiffer, CapacityAssumption, FrameSizeAssumption DEF Stride
<1>2. PICK a : a = Slot(i)
  OBVIOUS
<1>3. PICK b : b = Slot(j)
  OBVIOUS
<1>4. PICK w : w = Stride
  OBVIOUS
<1>5. a \in Nat /\ b \in Nat /\ w \in Nat /\ a # b
  BY <1>1, <1>2, <1>3, <1>4
<1>6. Start(i) = a * w /\ Start(j) = b * w
  BY <1>2, <1>3, <1>4 DEF Start
<1>7. CASE a + 1 <= b
  <2>1. (a + 1) * w <= b * w /\ (a + 1) * w = a * w + w
    BY <1>5, <1>7
  <2> QED BY <2>1, <1>4, <1>6
<1>8. CASE b + 1 <= a
  <2>1. (b + 1) * w <= a * w /\ (b + 1) * w = b * w + w
    BY <1>5, <1>8
  <2> QED BY <2>1, <1>4, <1>6
<1> QED BY <1>5, <1>7, <1>8

\* What a slot of the storage b holds, byte by byte.
LEMMA SlotBytesFacts ==
    ASSUME NEW S, NEW b \in Seq(S), Len(b) = Capacity * Stride, NEW n \in Nat,
           NEW slot, slot = Take(Drop(b, Start(n)), Stride)
    PROVE  /\ slot \in Seq(S) /\ Len(slot) = Stride
           /\ \A i \in 1..Stride : slot[i] = b[Start(n) + i]
<1>1. Stride \in Nat /\ Start(n) \in Nat /\ Start(n) + Stride <= Len(b)
  <2>1. Stride \in Nat
    BY FrameSizeAssumption DEF Stride
  <2> QED BY <2>1, StartInRange
<1>2. PICK d : d = Drop(b, Start(n))
  OBVIOUS
<1>3. Len(b) \in Nat /\ Start(n) <= Len(b)
  BY <1>1, LenProperties
<1>4. /\ d \in Seq(S) /\ Len(d) = Len(b) - Start(n)
      /\ \A i \in 1..Len(b) - Start(n) : d[i] = b[Start(n) + i]
  BY <1>1, <1>2, <1>3, DropFacts
<1>5. /\ slot \in Seq(S)
      /\ Len(slot) = IF Stride < Len(d) THEN Stride ELSE Len(d)
      /\ \A i \in 1..Len(slot) : slot[i] = d[i]
  <2>1. slot = Take(d, Stride)
    BY <1>2
  <2>2. /\ Take(d, Stride) \in Seq(S)
        /\ Len(Take(d, Stride)) = IF Stride < Len(d) THEN Stride ELSE Len(d)
        /\ \A i \in 1..Len(Take(d, Stride)) : Take(d, Stride)[i] = d[i]
    BY <1>1, <1>4, TakeFacts
  <2> QED BY ONLY <2>1, <2>2
<1>6. Len(slot) = Stride
  BY ONLY <1>1, <1>3, <1>4, <1>5
<1>7. ASSUME NEW i \in 1..Stride PROVE slot[i] = b[Start(n) + i]
  <2>1. i \in 1..Len(slot) /\ i \in 1..Len(b) - Start(n)
    BY <1>1, <1>3, <1>6
  <2> QED BY <2>1, <1>4, <1>5
<1> QED BY <1>5, <1>6, <1>7

-----------------------------------------------------------------------------
(* BinaryEventRing: the inductive invariant.                               *)

\* The frames pending are those between the counters, the storage is made of
\* bytes, and until a frame was too short every pending one fills its slot.
FrameTypes ==
    /\ head \in Nat /\ tail \in Nat /\ head <= tail + Capacity
    /\ pending \in Seq(Seq(Byte)) /\ head = tail + Len(pending)
    /\ short \in BOOLEAN
    /\ buffer \in Seq(Byte)
    /\ ~short => \A i \in 1..Len(pending) : Len(pending[i]) = Stride

FrameInv == FrameTypes /\ FramesIntact

\* The empty ring satisfies the invariant.
LEMMA FrameInitInv == FrameInit => FrameInv
<1> SUFFICES ASSUME FrameInit PROVE FrameInv
  OBVIOUS
<1>1. /\ head = 0 /\ tail = 0 /\ pending = <<>> /\ short = FALSE
      /\ taken = [read |-> <<>>, put |-> <<>>]
      /\ Capacity \in Nat /\ pending \in Seq(Seq(Byte)) /\ Len(pending) = 0
  BY EmptySeq, CapacityAssumption DEF FrameInit
<1>2. PICK n : n = Capacity * Stride
  OBVIOUS
<1>3. n \in Nat
  BY <1>2, CapacityAssumption, FrameSizeAssumption DEF Stride
<1>4. buffer = [i \in 1..n |-> 0]
  BY <1>2 DEF FrameInit
<1>5. buffer \in [1..n -> Byte]
  BY <1>4 DEF Byte
<1>6. buffer \in Seq(Byte) /\ Len(buffer) = n
  BY <1>3, <1>5, IsASeq, LenProperties
<1>7. FrameTypes
  <2>1. head \in Nat /\ tail \in Nat /\ head <= tail + Capacity
        /\ head = tail + Len(pending)
    BY ONLY <1>1
  <2>2. \A i \in 1..Len(pending) : Len(pending[i]) = Stride
    BY <1>1
  <2>3. short \in BOOLEAN
    BY <1>1
  <2> QED BY <2>1, <2>2, <2>3, <1>1, <1>6 DEF FrameTypes
<1>8. FramesIntact
  BY <1>1, <1>2, <1>6 DEF FramesIntact
<1> QED BY <1>7, <1>8 DEF FrameInv

\* put_frame writes the slot at head, which no pending frame is in.
LEMMA PutFrameInv ==
    ASSUME FrameInv, NEW tag \in Tag, NEW frame \in Frames, PutFrame(tag, frame)
    PROVE  FrameInv'
<1>1. PICK item : item = <<tag>> \o Take(frame, FrameSize)
  OBVIOUS
<1>2. /\ head - tail < Capacity
      /\ buffer' = Take(buffer, Start(head)) \o Take(item, Stride)
                        \o Drop(buffer, Start(head) + Stride)
      /\ head' = head + 1 /\ tail' = tail /\ taken' = taken
      /\ pending' = Append(pending, item)
      /\ short' = (short \/ Len(frame) < FrameSize)
  BY <1>1, CapacityAssumption DEF PutFrame, Full, FrameInv, FrameTypes
<1>3. /\ head \in Nat /\ tail \in Nat /\ Capacity \in Nat
      /\ pending \in Seq(Seq(Byte)) /\ head = tail + Len(pending)
      /\ short \in BOOLEAN /\ buffer \in Seq(Byte) /\ Len(pending) \in Nat
  BY CapacityAssumption, LenProperties DEF FrameInv, FrameTypes
<1>4. /\ FrameSize \in Nat /\ Stride = FrameSize + 1 /\ Stride \in Nat
      /\ frame \in Seq(Byte) /\ tag \in Byte /\ Len(frame) \in Nat
  BY FrameSizeAssumption, FramesAssumption, LenProperties DEF Stride
<1>5. /\ item \in Seq(Byte)
      /\ Len(item) = 1 + (IF FrameSize < Len(frame) THEN FrameSize ELSE Len(frame))
  <2>1. PICK body : body = Take(frame, FrameSize)
    OBVIOUS
  <2>2. /\ body \in Seq(Byte)
        /\ Len(body) = IF FrameSize < Len(frame) THEN FrameSize ELSE Len(frame)
    BY <2>1, <1>4, TakeFacts
  <2>3. <<tag>> \in Seq(Byte) /\ Len(<<tag>>) = 1
    BY <1>4
  <2>4. <<tag>> \o body \in Seq(Byte) /\ Len(<<tag>> \o body) = Len(<<tag>>) + Len(body)
    BY ONLY <2>2, <2>3, ConcatProperties
  <2> QED BY ONLY <2>1, <2>2, <2>3, <2>4, <1>1
<1>6. /\ pending' \in Seq(Seq(Byte)) /\ Len(pending') = Len(pending) + 1
      /\ \A i \in 1..Len(pending) : pending'[i] = pending[i]
      /\ pending'[Len(pending) + 1] = item
  BY <1>2, <1>3, <1>5, AppendProperties
<1>7. ASSUME ~short' PROVE ~short /\ Len(item) = Stride
  <2>1. ~short /\ ~(Len(frame) < FrameSize)
    BY <1>2, <1>7
  <2> QED BY ONLY <2>1, <1>4, <1>5
<1>8. buffer' \in Seq(Byte)
  <2>1. Start(head) \in Nat
    BY <1>3, StartInRange
  <2>2. /\ Take(buffer, Start(head)) \in Seq(Byte) /\ Take(item, Stride) \in Seq(Byte)
    BY <2>1, <1>3, <1>4, <1>5, TakeFacts
  <2>3. Drop(buffer, Start(head) + Stride) \in Seq(Byte)
    BY <2>1, <1>3, <1>4, DropTyped
  <2> QED BY <2>2, <2>3, <1>2, ConcatProperties
<1>9. FrameTypes'
  <2>1. ASSUME ~short' PROVE \A i \in 1..Len(pending') : Len(pending'[i]) = Stride
    <3>1. ~short /\ Len(item) = Stride
      BY <2>1, <1>7
    <3>2. \A i \in 1..Len(pending) : Len(pending[i]) = Stride
      BY <3>1 DEF FrameInv, FrameTypes
    <3>3. ASSUME NEW i \in 1..Len(pending') PROVE Len(pending'[i]) = Stride
      <4>1. CASE i = Len(pending) + 1
        BY <4>1, <3>1, <1>6
      <4>2. CASE i \in 1..Len(pending)
        BY <4>2, <3>2, <1>6
      <4> QED BY <4>1, <4>2, <1>3, <1>6
    <3> QED BY <3>3
  <2>2. short' \in BOOLEAN
    BY <1>2
  <2>3. head' \in Nat /\ tail' \in Nat /\ head' <= tail' + Capacity
        /\ head' = tail' + Len(pending')
    BY <1>2, <1>3, <1>6
  <2>4. Stride' = Stride
    BY DEF Stride
  <2> QED BY <2>1, <2>2, <2>3, <2>4, <1>6, <1>8 DEF FrameTypes
<1>10. FramesIntact'
  <2> SUFFICES ASSUME ~short'
               PROVE  /\ Len(buffer') = Capacity * Stride
                      /\ \A i \in 1..Len(pending') :
                            SlotBytes(tail + i - 1)' = pending'[i]
                      /\ taken'.read = taken'.put
    BY <1>2 DEF FramesIntact, Stride, SlotBytes, Start, Slot
  <2>1. /\ ~short /\ Len(item) = Stride
    BY <1>7
  <2>2. /\ Len(buffer) = Capacity * Stride
        /\ \A i \in 1..Len(pending) : SlotBytes(tail + i - 1) = pending[i]
        /\ taken.read = taken.put
    BY <2>1 DEF FrameInv, FramesIntact
  <2>3. Start(head) \in Nat /\ Start(head) + Len(item) <= Len(buffer)
    BY <2>1, <2>2, <1>3, StartInRange
  <2>4. Take(item, Stride) = item
    BY <2>1, <1>5, TakeWhole
  <2>5. buffer' = Take(buffer, Start(head)) \o item \o Drop(buffer, Start(head) + Len(item))
    BY <2>1, <2>4, <1>2
  <2>6. /\ Len(buffer') = Len(buffer)
        /\ \A i \in 1..Len(item) : buffer'[Start(head) + i] = item[i]
        /\ \A i \in 1..Len(buffer) :
              ~(Start(head) < i /\ i <= Start(head) + Len(item)) => buffer'[i] = buffer[i]
    <3>1. PICK b : b = buffer'
      OBVIOUS
    <3>2. b = Assigned(buffer, Start(head), item)
      BY <3>1, <2>5 DEF Assigned
    <3>3. buffer \in Seq(Byte) /\ item \in Seq(Byte)
      BY <1>3, <1>5
    <3>4. PICK a : a = Start(head)
      OBVIOUS
    <3>5. a \in Nat /\ a + Len(item) <= Len(buffer)
          /\ b = Assigned(buffer, a, item)
      BY <3>2, <3>4, <2>3
    <3>6. /\ b \in Seq(Byte) /\ Len(b) = Len(buffer)
          /\ \A i \in 1..Len(item) : b[a + i] = item[i]
          /\ \A i \in 1..Len(buffer) : ~(a < i /\ i <= a + Len(item)) => b[i] = buffer[i]
      BY <3>3, <3>5, SliceAssigned
    <3> QED BY ONLY <3>1, <3>4, <3>6
  <2>7. Len(buffer') = Capacity * Stride
    BY <2>2, <2>6
  <2>8. ASSUME NEW n \in Nat
        PROVE  /\ SlotBytes(n)' \in Seq(Byte) /\ Len(SlotBytes(n)') = Stride
               /\ \A i \in 1..Stride : SlotBytes(n)'[i] = buffer'[Start(n) + i]
    <3>1. SlotBytes(n)' = Take(Drop(buffer', Start(n)), Stride)
      BY DEF SlotBytes, Start, Slot, Stride
    <3> QED BY <3>1, <2>7, <1>8, SlotBytesFacts
  <2>9. ASSUME NEW n \in Nat
        PROVE  /\ SlotBytes(n) \in Seq(Byte) /\ Len(SlotBytes(n)) = Stride
               /\ \A i \in 1..Stride : SlotBytes(n)[i] = buffer[Start(n) + i]
    BY <2>2, <1>3, SlotBytesFacts DEF SlotBytes
  <2>10. ASSUME NEW n, n = head PROVE SlotBytes(n)' = item
    <3>1. PICK t : t = SlotBytes(n)'
      OBVIOUS
    <3>2. /\ t \in Seq(Byte) /\ Len(t) = Len(item)
          /\ \A i \in 1..Len(t) : t[i] = item[i]
      <4>1. /\ t \in Seq(Byte) /\ Len(t) = Stride
            /\ \A i \in 1..Stride : t[i] = buffer'[Start(head) + i]
        BY <3>1, <2>8, <2>10, <1>3
      <4> QED BY ONLY <4>1, <2>1, <2>6
    <3> QED BY <3>1, <3>2, <1>5, SeqEqual
  <2>11. ASSUME NEW n \in Nat, tail <= n, n < head PROVE SlotBytes(n)' = SlotBytes(n)
    <3>1. Start(n) + Stride <= Start(head) \/ Start(head) + Stride <= Start(n)
      BY <2>11, <1>2, <1>3, SlotsApart
    <3>2. Start(n) \in Nat /\ Start(n) + Stride <= Len(buffer)
      BY <2>2, StartInRange
    <3>3. ASSUME NEW i \in 1..Stride PROVE buffer'[Start(n) + i] = buffer[Start(n) + i]
      <4>1. Len(buffer) \in Nat
        BY <1>3, LenProperties
      <4>2. PICK j : j = Start(n) + i
        OBVIOUS
      <4>3. j \in 1..Len(buffer) /\ ~(Start(head) < j /\ j <= Start(head) + Len(item))
        BY <4>1, <4>2, <3>1, <3>2, <2>1, <2>3, <1>4
      <4> QED BY <4>2, <4>3, <2>6
    <3>4. PICK t : t = SlotBytes(n)'
      OBVIOUS
    <3>5. PICK u : u = SlotBytes(n)
      OBVIOUS
    <3>6. t \in Seq(Byte) /\ Len(t) = Stride /\ \A i \in 1..Stride : t[i] = buffer'[Start(n) + i]
      BY <3>4, <2>8
    <3>7. u \in Seq(Byte) /\ Len(u) = Stride /\ \A i \in 1..Stride : u[i] = buffer[Start(n) + i]
      BY <3>5, <2>9
    <3>8. t = u
      <4>1. \A i \in 1..Len(t) : t[i] = u[i]
        BY ONLY <3>3, <3>6, <3>7
      <4> QED BY ONLY <4>1, <3>6, <3>7, SeqEqual
    <3> QED BY <3>4, <3>5, <3>8
  <2>12. ASSUME NEW i \in 1..Len(pending') PROVE SlotBytes(tail + i - 1)' = pending'[i]
    <3>1. CASE i = Len(pending) + 1
      <4>1. PICK n : n = tail + i - 1
        OBVIOUS
      <4>2. n = head
        BY <4>1, <3>1, <1>3
      <4>3. SlotBytes(tail + i - 1)' = SlotBytes(n)'
        BY <4>1, <1>2 DEF SlotBytes, Start, Slot
      <4> QED BY <4>2, <4>3, <3>1, <2>10, <1>6
    <3>2. CASE i # Len(pending) + 1
      <4>1. i \in 1..Len(pending)
        BY <3>2, <1>3, <1>6
      <4>2. PICK n : n = tail + i - 1
        OBVIOUS
      <4>3. n \in Nat /\ tail <= n /\ n < head
        BY <4>1, <4>2, <1>3
      <4>4. SlotBytes(n)' = SlotBytes(n) /\ SlotBytes(n) = pending[i]
        BY <4>1, <4>2, <4>3, <2>2, <2>11
      <4> QED BY <4>1, <4>2, <4>4, <1>2, <1>6 DEF SlotBytes, Start, Slot
    <3> QED BY <3>1, <3>2
  <2> QED BY <2>2, <2>7, <2>12, <1>2
<1> QED BY <1>9, <1>10 DEF FrameInv

\* get_frame takes the slot at tail, which holds the oldest frame pending.
LEMMA GetFrameInv == FrameInv /\ GetFrame => FrameInv'
<1> SUFFICES ASSUME FrameInv, GetFrame PROVE FrameInv'
  OBVIOUS
<1>1. /\ head \in Nat /\ tail \in Nat /\ Capacity \in Nat /\ head <= tail + Capacity
      /\ pending \in Seq(Seq(Byte)) /\ head = tail + Len(pending)
      /\ short \in BOOLEAN /\ buffer \in Seq(Byte) /\ Len(pending) \in Nat
  BY CapacityAssumption, LenProperties DEF FrameInv, FrameTypes
<1>2. /\ tail # head /\ tail' = tail + 1 /\ pending' = Tail(pending)
      /\ buffer' = buffer /\ head' = head /\ short' = short
      /\ taken' = [read |-> IF SlotBytes(tail) = <<>> THEN <<"IndexError">>
                            ELSE <<Head(SlotBytes(tail)), Tail(SlotBytes(tail))>>,
                   put |-> <<Head(Head(pending)), Tail(Head(pending))>>]
  BY DEF GetFrame, Empty
<1>3. Len(pending) >= 1 /\ pending # <<>>
  BY <1>1, <1>2, EmptySeq
<1>4. /\ pending' \in Seq(Seq(Byte)) /\ Len(pending') = Len(pending) - 1
      /\ \A i \in 1..Len(pending) - 1 : pending'[i] = pending[i + 1]
      /\ Head(pending) = pending[1]
  BY <1>1, <1>2, <1>3, HeadTailProperties
<1>5. FrameTypes'
  <2>1. ASSUME ~short' PROVE \A i \in 1..Len(pending') : Len(pending'[i]) = Stride
    <3>1. \A i \in 1..Len(pending) : Len(pending[i]) = Stride
      BY <2>1, <1>2 DEF FrameInv, FrameTypes
    <3>2. ASSUME NEW i \in 1..Len(pending') PROVE Len(pending'[i]) = Stride
      <4>1. i \in 1..Len(pending) - 1 /\ i + 1 \in 1..Len(pending)
        BY <1>1, <1>4
      <4> QED BY <4>1, <3>1, <1>4
    <3> QED BY <3>2
  <2>2. head' \in Nat /\ tail' \in Nat /\ head' <= tail' + Capacity
        /\ head' = tail' + Len(pending')
    BY <1>1, <1>2, <1>3, <1>4
  <2>3. Stride' = Stride
    BY DEF Stride
  <2> QED BY <2>1, <2>2, <2>3, <1>1, <1>2, <1>4 DEF FrameTypes
<1>6. FramesIntact'
  <2> SUFFICES ASSUME ~short'
               PROVE  /\ Len(buffer') = Capacity * Stride
                      /\ \A i \in 1..Len(pending') :
                            SlotBytes(tail' + i - 1) = pending'[i]
                      /\ taken'.read = taken'.put
    BY <1>2 DEF FramesIntact, Stride, SlotBytes, Start, Slot
  <2>1. /\ Len(buffer) = Capacity * Stride
        /\ \A i \in 1..Len(pending) : SlotBytes(tail + i - 1) = pending[i]
        /\ \A i \in 1..Len(pending) : Len(pending[i]) = Stride
    BY <1>2 DEF FrameInv, FramesIntact, FrameTypes
  <2>2. ASSUME NEW i \in 1..Len(pending') PROVE SlotBytes(tail' + i - 1) = pending'[i]
    <3>1. i + 1 \in 1..Len(pending) /\ i \in 1..Len(pending) - 1
          /\ tail' + i - 1 = tail + (i + 1) - 1
      BY <1>1, <1>2, <1>4
    <3> QED BY <3>1, <2>1, <1>4
  <2>3. SlotBytes(tail) = pending[1] /\ Len(pending[1]) = Stride
    <3>1. 1 \in 1..Len(pending) /\ tail + 1 - 1 = tail
      BY <1>1, <1>3
    <3> QED BY <3>1, <2>1
  <2>4. SlotBytes(tail) # <<>>
    <3>1. Stride # 0
      BY FrameSizeAssumption DEF Stride
    <3> QED BY <3>1, <2>3
  <2>5. taken'.read = taken'.put
    BY <2>3, <2>4, <1>2, <1>4
  <2> QED BY <2>1, <2>2, <2>5, <1>2
<1> QED BY <1>5, <1>6 DEF FrameInv

\* Every step of the frame ring keeps the invariant.
LEMMA FrameNextInv == FrameInv /\ [FrameNext]_frameVars => FrameInv'
<1> SUFFICES ASSUME FrameInv, [FrameNext]_frameVars PROVE FrameInv'
  OBVIOUS
<1>1. CASE UNCHANGED frameVars
  BY <1>1 DEF frameVars, FrameInv, FrameTypes, FramesIntact, SlotBytes, Start, Slot, Stride
<1>2. CASE PutFrameFull
  BY <1>1, <1>2 DEF PutFrameFull
<1>3. CASE GetFrameEmpty
  BY <1>1, <1>3 DEF GetFrameEmpty
<1>4. CASE GetFrame
  BY <1>4, GetFrameInv
<1>5. ASSUME NEW tag \in Tag, NEW frame \in Frames, PutFrame(tag, frame)
      PROVE  FrameInv'
  BY <1>5, PutFrameInv
<1> QED BY <1>1, <1>2, <1>3, <1>4, <1>5 DEF FrameNext

\* However often the ring of put_frame and get_frame wraps around, and whatever the
\* capacity, the frame size and the frames: unless a frame was too short, get_frame
\* returns what put_frame was given and no put touches a slot still to be read.
THEOREM FramesStayIntact == FrameSpec => []FramesIntact
<1>1. FrameInv => FramesIntact
  BY DEF FrameInv
<1> QED BY <1>1, FrameInitInv, FrameNextInv, PTL DEF FrameSpec
=============================================================================
