SPECIFICATION Spec
CONSTANTS
  Documents <- MCDocuments
  Chunkings <- MCChunkings
  Questions <- MCQuestions
  Calls <- MCCalls
  Tokens <- MCTokens
  Distinctive <- MCDistinctive
  Extensions <- MCExtensions
  Scores = {1, 2, 3, 4}
  Threshold = 2
  SemanticOnly = 4
  MinOverlap = 1
  MinTopK = 1
  DefaultTopK = 3
  MaxTopK = 3
  MaxChunks = 3
  MaxText = 3
  MaxQuery = 3
  MinDeclared = 1
  Labels = {"plants.md", "facts.md"}
  MaxSources = 12
  None = None
INVARIANTS
  IndexIsWhole
  AnswersComeFromOneCorpus
  LoadedCorporaAreUsable
  HitsAreRanked
  CitationNamesAShownSource
CHECK_DEADLOCK TRUE
