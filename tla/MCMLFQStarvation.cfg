\* A long process and a stream of short ones.
CONSTANTS
  NumProcs = 4
  ArrivalTimes = {0, 1, 2, 3}
  BurstTimes = {1, 3}
  Pids <- MCPids
  Configs <- ShortPeriod
SPECIFICATION MLFQSpec
INVARIANTS
  NoStarvation
