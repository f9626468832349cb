SPECIFICATION DaemonSpec
CONSTANTS
  Sessions = {s1}
  Chunks = {c1}
  Requests = {r1, r2}
  NoSession = NoSession
  TurnStartPrefetch = FALSE
  LegacyForkEnd = TRUE
  MaxForks = 1
  MaxTurns = 1
  MaxLate = 0
  MaxDrops = 1
  SerialClients = FALSE
  MaxFaults = 1
  MaxRestarts = 1
SYMMETRY Symmetry
INVARIANTS RefcountCovers
PROPERTIES PinnedRowsStay
