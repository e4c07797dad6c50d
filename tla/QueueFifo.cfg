CONSTANTS
  Centers = {c1}
  Vehicles = {v1, v2, v3}
  Trips = {t1}
  EntryIds = {e1, e2, e3, e4}
  MaxDay = 2
  Requests = {r1}
  Endpoints = {"addToQueue", "startNext"}
  MayFail = FALSE
  MidnightCuts = FALSE
SPECIFICATION Spec
SYMMETRY Interchangeable
INVARIANTS PositionsSequential QueuedBeforeServed
PROPERTIES FirstComeFirstServed
CHECK_DEADLOCK FALSE
