CONSTANTS
  Users = {u1, u2}
  Tokens = {k1, k2, k3, k4}
  Requests = {r1, r2}
  NoToken = NoToken
SPECIFICATION Spec
SYMMETRY Interchangeable
INVARIANTS TypeOK OldTokenInvalid LoggedOutStaysOut HeldTokenWorks
CHECK_DEADLOCK FALSE
