SPECIFICATION FairSpec
CONSTANTS
  Sessions = {s1, s2}
  Chunks = {c1}
  Requests = {r1, r2}
  NoSession = NoSession
  TurnStartPrefetch = TRUE
  LegacyForkEnd = FALSE
  MaxForks = 1
  MaxTurns = 1
  MaxLate = 1
  MaxDrops = 0
INVARIANTS RefcountExact NoSilentLeak
PROPERTIES ImplementsLedger ReleasedChunksLeave
