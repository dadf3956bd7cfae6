--------------------------- MODULE BinaryEventRing ---------------------------
(***************************************************************************)
(* BinaryEventRing (engine/core/ring_buffer.py) down to the bytes:         *)
(* put_frame and get_frame over put and get of SPSCRingBuffer, whose       *)
(* storage is one bytearray cut into slots of a type tag and a frame.      *)
(*                                                                         *)
(* The interleaving of a producer and a consumer is the subject of module  *)
(* SPSCRingBuffer; here the calls follow one another.  put assigns to a    *)
(* slice, and a slice assignment of fewer bytes than the slice shortens a  *)
(* bytearray: that happens for a frame of fewer than FrameSize bytes.      *)
(***************************************************************************)
EXTENDS RingBuffer

CONSTANTS
    FrameSize,  \* the bytes of a frame: 64 in the code
    Tag,        \* the type tags, one byte each
    Frames      \* the frames put

Byte == 0..255

ASSUME FrameSizeAssumption == FrameSize \in Nat \ {0}
ASSUME FramesAssumption == Tag \subseteq Byte /\ Frames \subseteq Seq(Byte)

\* Here buffer is the byte sequence itself.
VARIABLES
    taken,    \* what the last get_frame returned, and the frame put for it
    pending,  \* history: the tagged frames put and not yet taken, oldest first
    short     \* history: a frame of fewer than FrameSize bytes was put

frameVars == <<buffer, head, tail, taken, pending, short>>

\* Mutant: no room for the type tag.
StrideUntagged == FrameSize

\* _stride: item_size=65
Stride == FrameSize + 1

\* item[:n]
Take(s, n) == SubSeq(s, 1, IF n < Len(s) THEN n ELSE Len(s))

\* s[start:]
Drop(s, start) == SubSeq(s, start + 1, Len(s))

Start(n) == Slot(n) * Stride

\* The bytes of the slot of count n.
SlotBytes(n) == Take(Drop(buffer, Start(n)), Stride)

\* put_frame
PutFrame(tag, frame) ==
    LET item == <<tag>> \o Take(frame, FrameSize)
    IN  /\ head < MaxPuts
        /\ ~Full
        /\ buffer' = Take(buffer, Start(head)) \o Take(item, Stride)
                        \o Drop(buffer, Start(head) + Stride)
        /\ head' = head + 1
        /\ pending' = Append(pending, item)
        /\ short' = (short \/ Len(frame) < FrameSize)
        /\ UNCHANGED <<tail, taken>>

PutFrameFull == Full /\ UNCHANGED frameVars

\* get_frame: the slot is freed before the tag is split off, and there is no tag
\* in an empty slot (IndexError).
GetFrame ==
    /\ ~Empty
    /\ tail' = tail + 1
    /\ taken' = [read |-> IF SlotBytes(tail) = <<>> THEN <<"IndexError">>
                          ELSE <<Head(SlotBytes(tail)), Tail(SlotBytes(tail))>>,
                 put |-> <<Head(Head(pending)), Tail(Head(pending))>>]
    /\ pending' = Tail(pending)
    /\ UNCHANGED <<buffer, head, short>>

GetFrameEmpty == Empty /\ UNCHANGED frameVars

FrameInit ==
    /\ buffer = [i \in 1 .. Capacity * Stride |-> 0]
    /\ head = 0
    /\ tail = 0
    /\ taken = [read |-> <<>>, put |-> <<>>]
    /\ pending = <<>>
    /\ short = FALSE

FrameNext ==
    \/ \E tag \in Tag, frame \in Frames : PutFrame(tag, frame)
    \/ PutFrameFull
    \/ GetFrame
    \/ GetFrameEmpty

FrameSpec == FrameInit /\ [][FrameNext]_frameVars

\* Whatever passes through the ring, and however often it wraps around, each slot
\* that is still to be read holds its tag and the first FrameSize bytes of its
\* frame, get_frame returns what put_frame was given, and the storage keeps its
\* length; provided that every frame had at least FrameSize bytes, as the encoded
\* orders and trades have.  A shorter one moves all the slots behind it.
FramesIntact ==
    ~short => /\ Len(buffer) = Capacity * Stride
              /\ \A i \in 1..Len(pending) : SlotBytes(tail + i - 1) = pending[i]
              /\ taken.read = taken.put
=============================================================================
