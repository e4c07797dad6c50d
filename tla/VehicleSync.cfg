CONSTANTS
  v1 = v1
  v2 = v2
  Vehicles <- MCVehicles
  GroupOf <- MCGroupOf
  Detail <- MCDetail
  None = None
  Requests = {r1, r2}
  MaxGroups = 3
  MaxJobs = 1
  MaxMishaps = 1
SPECIFICATION FairSpec
INVARIANTS TypeOK GroupNotReassigned
PROPERTIES FleetSynced
CHECK_DEADLOCK FALSE
