\* Bursts up to 5 take a process through all the levels of a configuration; arrivals
\* preempt it on the way down and again after a boost.
CONSTANTS
  NumProcs = 3
  ArrivalTimes = {0, 1, 2, 4}
  BurstTimes = {0, 1, 3, 5}
  Pids <- MCPids
  Configs <- MCConfigs
SPECIFICATION MLFQSpec
INVARIANTS
  MLFQInv
  HighestPriorityRuns
  LevelFollowsCPUTime
  QuantumShared
PROPERTIES
  BoostLiftsEveryProcess
  ImplementsEngine
