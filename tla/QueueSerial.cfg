CONSTANTS
  Centers = {c1}
  Vehicles = {v1, v2}
  Trips = {t1}
  EntryIds = {e1, e2, e3}
  MaxDay = 2
  Requests = {r1}
  Endpoints = {"addToQueue", "startNext", "startVehicle"}
  MayFail = TRUE
  MidnightCuts = TRUE
SPECIFICATION Spec
SYMMETRY Interchangeable
INVARIANTS OneEntryPerVehicle ServedOnce
CHECK_DEADLOCK FALSE
