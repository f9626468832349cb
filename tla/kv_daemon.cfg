SPECIFICATION DaemonSpec
CONSTANTS
  Sessions = {s1, s2}
  Chunks = {c1}
  Requests = {r1, r2}
  NoSession = NoSession
  TurnStartPrefetch = FALSE
  LegacyForkEnd = FALSE
  MaxForks = 1
  MaxTurns = 2
  MaxLate = 0
  MaxDrops = 0
  SerialClients = TRUE
  MaxFaults = 0
  MaxRestarts = 1
SYMMETRY Symmetry
INVARIANTS StoreMatchesMemory CountsSurviveRestart
