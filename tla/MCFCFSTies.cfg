\* Two processes that differ in the second character of their names.
CONSTANTS
  NumProcs = 2
  ArrivalTimes = {0}
  BurstTimes = {1, 2}
  Pids <- MCPids
  Policies = {"FCFS"}
SPECIFICATION ScanSpec
INVARIANTS
  TiesAlphabetical
