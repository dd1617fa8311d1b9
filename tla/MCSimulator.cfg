\* Three options: a workload, a mode or an algorithm, and one that is repeated, conflicts
\* or is rejected.  Three items exceed the first capacity of the array; MAX_MLFQ_QUEUES
\* is as small as the built-in configuration allows, so that files exceed it.
CONSTANTS
  Tokens <- MCTokens
  Pieces <- MCPieces
  MaxItems = 3
  InitialCapacity = 2
  ConfigFiles <- MCConfigFiles
  MAX_MLFQ_QUEUES = 3
  Invalid = Invalid
  AlgorithmNames <- MCAlgorithmNames
  MaxOptions = 3
  MaxFailures = 1
SPECIFICATION Spec
INVARIANTS
  TypeOK
  LoadedAsWritten
  ConfigUsable
  FreshStart
  MemoryReturned
PROPERTIES
  Returns
