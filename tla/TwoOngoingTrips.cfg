CONSTANTS
  Centers = {c1, c2}
  Vehicles = {v1}
  Trips = {t1, t2}
  EntryIds = {e1, e2}
  MaxDay = 1
  Requests = {r1, r2}
  Endpoints = {"createTrip"}
  RequestedCenters = {c2}
  PostedEvents = {}
  MayFail = FALSE
  NoCenter = NoCenter
  NoTrip = NoTrip
  NoVehicle = NoVehicle
  NoEntry = NoEntry
  NoPhase = NoPhase
  NoEvent = NoEvent
  NoQueue = NoQueue
SPECIFICATION Spec
INVARIANTS OneOngoingTrip
CHECK_DEADLOCK FALSE
