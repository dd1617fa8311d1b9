\* Quantum 0 is the default of --quantum; 1 and 2 end slices before the bursts of 3
\* do; arrivals fall on the ends of slices and between them.
CONSTANTS
  NumProcs = 3
  ArrivalTimes = {0, 1, 2, 5}
  BurstTimes = {0, 1, 3, 4}
  Pids <- MCPids
  Quanta = {0, 1, 2}
SPECIFICATION RRSpec
INVARIANTS
  RRInv
  ArrivalsAheadOfPreempted
  BoundedWait
  SliceRespected
PROPERTIES
  ImplementsEngine
