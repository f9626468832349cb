SPECIFICATION Spec
CONSTANTS
  Docs = {d1, d2}
  Paths = {p1}
  short = short
  long = long
  bad = bad
  Contents = {short}
  Parts <- MCParts
  Unreadable = {}
  Writers = {w1}
  None = None
  Retained = 1
  MaxTasks = 2
  MaxRebuilds = 0
  MaxMishaps = 0
  MaxLosses = 0
CHECK_DEADLOCK FALSE
PROPERTY DeleteSparesOthers
