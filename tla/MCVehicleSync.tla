--------------------------- MODULE MCVehicleSync ---------------------------
(* VehicleSync for TLC: two vehicles in groups of their own.  The ids of   *)
(* the groups at Malambi are small enough to be database ids as well; the  *)
(* details of the second vehicle come without a group.                     *)
EXTENDS VehicleSync

CONSTANTS v1, v2

MCVehicles == {v1, v2}
MCGroupOf == [v \in MCVehicles |-> IF v = v1 THEN 2 ELSE 1]
MCDetail == [v \in MCVehicles |-> IF v = v1 THEN 2 ELSE None]
=============================================================================
