--------------------------- MODULE MCCenterQueues ---------------------------
(* CenterQueuesFifo for TLC: request slots are interchangeable, and so are *)
(* vehicles.                                                               *)
EXTENDS CenterQueuesFifo

Interchangeable == Permutations(Requests) \cup Permutations(Vehicles)
=============================================================================
