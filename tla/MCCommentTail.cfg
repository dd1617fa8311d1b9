\* Two pieces of one long comment, the second of which looks like a process.
CONSTANTS
  Tokens <- MCTokens
  Pieces <- MCPieces
  MaxItems = 2
  InitialCapacity = 2
  ConfigFiles <- MCConfigFiles
  MAX_MLFQ_QUEUES = 3
  Invalid = Invalid
  AlgorithmNames <- MCAlgorithmNames
  MaxOptions = 2
  MaxFailures = 0
SPECIFICATION Spec
INVARIANT CommentsIgnored
