\* An empty library: the payload may be the synthetic chunk alone.
SPECIFICATION CalcSpec
CONSTANTS
  ChunkKinds <- FewChunks
  Unreadable = Unreadable
  MaxRows = 1
  CalcItems = 2
  HfItems = 1
  CompletionTokens = {5, 50, 256}
CHECK_DEADLOCK FALSE
INVARIANTS
  AnswersFromDocuments
