SPECIFICATION FairSpec
CONSTANTS
  Docs = {d1}
  Paths = {p1}
  short = short
  long = long
  bad = bad
  Contents = {short, long}
  Parts <- MCParts
  Unreadable = {}
  Writers = {w1}
  None = None
  Retained = 1
  MaxTasks = 2
  MaxRebuilds = 1
  MaxMishaps = 2
  MaxLosses = 1
CHECK_DEADLOCK FALSE
INVARIANTS NoForgottenDocument IngestedIsCurrent
PROPERTIES IndexReplacedWhole RebuildGateOpens TasksSettle
