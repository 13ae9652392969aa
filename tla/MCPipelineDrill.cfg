\* The last symbol of both streams is lost, within the loss rate health allows: the drill
\* fails.
CONSTANTS
  Streams = 2
  Symbols = 5
  SeqSpace = 8
  Faults <- LostAtTheEnd
  SymbolTime = 6
  Wire = 1
  MaxLatency = 6
  IncludeDma = TRUE
  Dma = 1
  RxDepth = 1
  IncludeGpu = TRUE
  SlotCount = 2
  Kernel = 1
  Payload = 2
  SlotBytes = 2
  TraceCapacity = 3
  Budget = 6
  Profiles <- Gates
  Bandwidth = 25
  PolicyGaps = 0
  PolicyMiss = 1
  PolicyLatency = 7
  PolicyStall = 0
  LossNum = 1
  LossDen = 8
SPECIFICATION AcceptanceSpec
INVARIANTS CompletedDrillPasses
CHECK_DEADLOCK FALSE
