CONSTANTS
  Centers = {c1}
  Vehicles = {v1}
  Trips = {t1, t2}
  EntryIds = {e1, e2}
  MaxDay = 2
  Requests = {r1}
  Endpoints = {"createTrip", "startLoading", "endLoading", "setDestination", "exitOrigin", "arriveDestination", "startUnloading", "endUnloading", "completeTrip", "postEvent", "addToQueue", "startService"}
  RequestedCenters = {c1, c9}
  PostedEvents = {"SERVICE_STARTED", "READY_TO_EXIT"}
  MayFail = TRUE
  NoCenter = NoCenter
  NoTrip = NoTrip
  NoVehicle = NoVehicle
  NoEntry = NoEntry
  NoPhase = NoPhase
  NoEvent = NoEvent
  NoQueue = NoQueue
SPECIFICATION Spec
INVARIANTS OneOngoingTrip
PROPERTIES PhasesInOrder
CHECK_DEADLOCK FALSE
