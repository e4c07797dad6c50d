------------------------------ MODULE MCTrips ------------------------------
(* Trips for TLC: request slots and vehicles are interchangeable.  Ids of  *)
(* rows are not, since FreshId picks among them.                           *)
EXTENDS Trips, TLC

Interchangeable == Permutations(Requests) \cup Permutations(Vehicles)
=============================================================================
