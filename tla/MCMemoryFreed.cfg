\* Two options are enough for a repeated one, or a workload and an unknown algorithm.
CONSTANTS
  Tokens <- MCTokens
  Pieces <- MCPieces
  MaxItems = 2
  InitialCapacity = 2
  ConfigFiles <- MCConfigFiles
  MAX_MLFQ_QUEUES = 3
  Invalid = Invalid
  AlgorithmNames <- MCAlgorithmNames
  MaxOptions = 2
  MaxFailures = 0
SPECIFICATION Spec
INVARIANT AllMemoryFreed
