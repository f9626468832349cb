SPECIFICATION Spec
CONSTANTS
  Principals = {alice}
  Handlers = {h1, h2, h3}
  None = None
  MaxInFlight = 4
  MaxPending = 2
  MaxTokens = 3
  MaxApplied = 4
  MaxMishaps = 1
SYMMETRY Symmetry
CHECK_DEADLOCK FALSE
INVARIANTS OneExecution AnswersAreTrue
PROPERTIES UsedUpStays
