SPECIFICATION FairSpec
CONSTANTS
  m1 = m1
  m2 = m2
  c1 = c1
  c2 = c2
  x1 = x1
  x2 = x2
  Messages = {m1, m2}
  Contents = {c1, c2}
  Memories = {x1, x2}
  Readings <- MCReadings
  Batches <- MCBatches
  Requests = {r1, r2}
  NoContent = NoContent
  GraphEnabled = TRUE
  MaxMishaps = 2
INVARIANTS AnswersAreWhole AnswersCoverTheMessage
PROPERTIES AnswersStay RepeatedIngestCompletes
