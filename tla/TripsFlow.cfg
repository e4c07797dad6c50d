CONSTANTS
  Centers = {c1, c2}
  Vehicles = {v1, v2}
  Trips = {t1, t2}
  EntryIds = {e1, e2, e3, e4}
  MaxDay = 1
  Requests = {r1}
  Endpoints = {"createTrip", "startLoading", "endLoading", "setDestination", "exitOrigin", "arriveDestination", "startUnloading", "endUnloading", "completeTrip"}
  RequestedCenters = {c2}
  PostedEvents = {}
  MayFail = FALSE
  NoCenter = NoCenter
  NoTrip = NoTrip
  NoVehicle = NoVehicle
  NoEntry = NoEntry
  NoPhase = NoPhase
  NoEvent = NoEvent
  NoQueue = NoQueue
SPECIFICATION FairSpec
INVARIANTS ArrivedInLoadingQueue ArrivedInUnloadingQueue ServiceOnRecord VehicleTracksTrip
PROPERTIES TripsComplete
CHECK_DEADLOCK FALSE
