\* The functions Algorithms applies, each on every input of MCAlgorithms.
\* One step and the result is there: nothing follows it.
SPECIFICATION Spec
CHECK_DEADLOCK FALSE
CONSTANTS
  Conversations <- MCConversations
  WindowConfigs <- MCWindowConfigs
  Spans <- MCSpans
  Manuscripts <- MCManuscripts
  Documents <- MCDocuments
  ChunkBudgets <- MCChunkBudgets
  Bodies <- MCBodies
  ModelReplies <- MCModelReplies
  Names <- MCNames
  Stores <- MCStores
  Requests <- MCRequests
  SearchConfigs <- MCSearchConfigs
  Replies <- MCReplies
  MemoryTexts <- MCMemoryTexts
  Registries <- MCRegistries
  Queries <- MCQueries
  Settings <- MCSettings
  Words <- MCEdits
  Libraries <- MCLibraries
  Finds <- MCFinds
  Asked <- MCAsked
  TopKs <- MCTopKs
  Rows <- MCRows
  Services <- MCServices
  Batches <- MCBatches
  Additions <- MCAdditions
  Questions <- MCQuestions
  Contexts <- MCContexts
  Ranked <- MCRanked
  Wishes <- MCWishes
INVARIANTS WindowsAreSound IndexedIsTheText SearchAnswers EachItsOwnVector ExtractionIsSound RelatedIsKept CaseAnswers
