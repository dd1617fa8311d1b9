\* Three processes, so that two may wait while one runs; bursts from 0 (stage 4b)
\* to 2 (a process can be preempted); arrivals up to 3, so that idle gaps occur.
CONSTANTS
  NumProcs = 3
  ArrivalTimes = {0, 1, 3}
  BurstTimes = {0, 1, 3}
  Pids <- MCPids
  ConvoyThreshold = 2
SPECIFICATION Spec
INVARIANTS
  TypeOK
  OneRunning
  NoLateArrival
  CompletedCountsFinished
  LogAccountsForCPU
  MetricsMatchLog
  ContextSwitchesMatchLog
  MakespanIsPolicyIndependent
  ReportMatchesLog
PROPERTIES
  Termination
  ImplementsUniprocessor
