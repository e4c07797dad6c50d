CONSTANTS
  Centers = {c1}
  Vehicles = {v1, v2}
  Trips = {t1}
  EntryIds = {e1, e2}
  MaxDay = 2
  Requests = {r1, r2}
  Endpoints = {"addToQueue", "startNext", "startVehicle"}
  MayFail = FALSE
  MidnightCuts = TRUE
SPECIFICATION FairSpec
INVARIANTS TypeOK ServedAfterLeaving
PROPERTIES LeftForGood NoVehicleForgotten
CHECK_DEADLOCK FALSE
