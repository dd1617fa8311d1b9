\* ExactLimit and ChunkSize are scaled down so that every run of both chart modes fits;
\* MaxTime is beyond ExactLimit by an incomplete chunk, and MaxWidth is exceeded.
CONSTANTS
  Entries <- MCNames
  LabelLength <- MCLabelLength
  NoLog = NoLog
  ExactLimit = 4
  ChunkSize = 3
  MaxWidth = 2
  MaxTime = 8
  MaxFailures = 1
SPECIFICATION Spec
INVARIANTS
  GanttInv
  ExactChartIsTheRun
  SampledChartIsRightAtSamples
  TimesUnderBars
