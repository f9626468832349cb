SPECIFICATION FairSpec
CONSTANTS
  Keys = {k1}
  Inputs = {i1, i2}
  Workers = {w1, w2, w3}
  NoKey = NoKey
  NoInput = NoInput
  MaxAttempts = 5
  MaxOverlaps = 2
  MaxMishaps = 1
INVARIANTS OneOwner CompletedRunIsWhole
PROPERTIES ImplementsPromise ResumedRunsComplete
