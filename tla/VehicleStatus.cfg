CONSTANTS
  Vehicles = {v1}
  Centers = {c1}
  None = None
  Asked = {"AVAILABLE", "LOADING", "IN_GARAGE"}
  Requests = {r1, r2}
  MaxChanges = 2
  MaxMishaps = 1
SPECIFICATION Spec
SYMMETRY Interchangeable
INVARIANTS TypeOK ManualChangesLogged
CHECK_DEADLOCK FALSE
