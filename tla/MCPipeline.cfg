\* Two streams, five symbols, 1728 fault configurations.  Work per symbol can
\* exceed the symbol time, so that packets become late.
CONSTANTS
  Streams = 2
  Symbols = 5
  SeqSpace = 8
  Faults <- Mixed
  SymbolTime = 6
  Wire = 1
  MaxLatency = 6
  IncludeDma = TRUE
  Dma = 1
  RxDepth = 1
  IncludeGpu = TRUE
  SlotCount = 2
  Kernel = 1
  Payload = 2
  SlotBytes = 2
  TraceCapacity = 3
  Budget = 6
  Profiles <- Gates
  Bandwidth = 25
  PolicyGaps = 0
  PolicyMiss = 1
  PolicyLatency = 7
  PolicyStall = 0
  LossNum = 1
  LossDen = 8
SPECIFICATION AcceptanceSpec
INVARIANTS NeverFails PacketsAccounted ReportMatchesMetrics GapsAreDiscontinuities GapsHaveACause
INVARIANTS AcceptedRunsAreGood DrillVerdictFollowsFaults
CHECK_DEADLOCK FALSE
