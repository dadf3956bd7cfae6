-------------------------- MODULE MCSPSCRingBuffer --------------------------
(***************************************************************************)
(* A ring asked for with three slots, which the constructor makes four.    *)
(***************************************************************************)
EXTENDS SPSCRingBuffer

SlotCount == RoundUp(3)
=============================================================================
