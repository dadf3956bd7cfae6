----------------------------- MODULE RingBuffer -----------------------------
(***************************************************************************)
(* What every ring of engine/core/ring_buffer.py has: storage cut into     *)
(* slots, and two counters that only grow.  SPSCRingBuffer follows put and *)
(* get word by word, BinaryEventRing follows the bytes of its frames.      *)
(***************************************************************************)
EXTENDS Integers, Sequences

CONSTANTS
    Capacity,  \* the number of slots, after rounding up
    MaxPuts    \* bound: the calls of put that succeed

ASSUME CapacityAssumption == Capacity \in Nat \ {0}
ASSUME MaxPutsAssumption  == MaxPuts \in Nat

VARIABLES
    buffer,    \* _buffer
    head,      \* _head[0], the items ever enqueued; written by the producer
    tail       \* _tail[0], the items ever dequeued; written by the consumer

\* Mutant: a mask that is one too small.
SlotShortMask(counter) == counter % (Capacity - 1)

\* counter & _mask: Capacity is a power of two, so this is the remainder.
Slot(counter) == counter % Capacity

\* Mutant: the full test lets one more item in.
FullOffByOne == head - tail > Capacity

\* is_full: also the test at the entry of put.
Full == head - tail >= Capacity

\* Mutant: the consumer does not test for an empty ring.
NeverEmpty == FALSE

\* is_empty: also the test at the entry of get and peek.
Empty == tail = head
=============================================================================
