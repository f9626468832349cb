\* Everything is published, and the graph is not changed any more.
SPECIFICATION Spec
CHECK_DEADLOCK FALSE
CONSTANTS
  Records <- MCRecords
  Queries <- MCQueries
  StopWords <- MCStopWords
  WordPrefixes <- MCPrefixes
  MaxPublished = 5
  TopK = 2
  SeedLimit = 3
  EvidenceLimit = 2
INVARIANTS GraphIsWhatWasSaid AnswersKeepToTheTarget MatchesAreFound
