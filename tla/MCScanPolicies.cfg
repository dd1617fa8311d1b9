\* Two names and equal arrivals, so that ties of every kind occur; a burst of 3 is
\* preempted by one of 1, or with one unit left by one of 0; gaps leave the CPU idle.
CONSTANTS
  NumProcs = 3
  ArrivalTimes = {0, 1, 2}
  BurstTimes = {0, 1, 2, 3}
  Pids <- MCPids
  Policies = {"FCFS", "SJF", "STCF"}
SPECIFICATION ScanSpec
INVARIANTS
  FirstComeFirstServed
  RunsToCompletion
  ShortestRuns
  ShortestFirstIsOptimal
PROPERTIES
  ImplementsEngine
