-------------------------- MODULE MCVehicleStatus --------------------------
(* VehicleStatus for TLC: vehicles, centers and slots are interchangeable. *)
EXTENDS VehicleStatus, TLC

Interchangeable ==
  Permutations(Vehicles) \cup Permutations(Centers) \cup Permutations(Requests)
=============================================================================
