CONSTANTS
  Centers = {c1, c2}
  Vehicles = {v1}
  Trips = {t1}
  EntryIds = {e1, e2}
  MaxDay = 1
  Requests = {r1, r2}
  Endpoints = {"createTrip", "startLoading", "endLoading", "setDestination", "exitOrigin", "arriveDestination", "startUnloading", "endUnloading", "completeTrip"}
  RequestedCenters = {c2, c9}
  PostedEvents = {}
  MayFail = TRUE
  NoCenter = NoCenter
  NoTrip = NoTrip
  NoVehicle = NoVehicle
  NoEntry = NoEntry
  NoPhase = NoPhase
  NoEvent = NoEvent
  NoQueue = NoQueue
SPECIFICATION Spec
SYMMETRY Interchangeable
INVARIANTS TypeOK PhaseHistory CompletedHistory DestinationReached FramesHold
PROPERTIES RecordKept
CHECK_DEADLOCK FALSE
