CONSTANTS
  Vehicles = {v1}
  Centers = {c1}
  Agents = {u1}
  None = None
  Asked = {"IN_PROCESSING", "COMPLETED"}
  Requests = {r1, r2}
  MaxRequests = 3
  MaxMishaps = 1
  PageSize = 1
SPECIFICATION Spec
SYMMETRY Interchangeable
INVARIANTS TypeOK PrintedCodeScans StageTimes NothingSkipped
CHECK_DEADLOCK FALSE
