SPECIFICATION Spec
CONSTANTS
  Principals = {alice, bob, carol}
  Requests = {r1, r2, r3}
  Ids = {i1}
  None = None
  MaxPerPrincipal = 1
  MaxGlobal = 2
  MaxInFlight = 1
  MaxSessions = 2
SYMMETRY Symmetry
CHECK_DEADLOCK FALSE
INVARIANTS LimitsKept IdsKeptApart SessionsAreSomeones
