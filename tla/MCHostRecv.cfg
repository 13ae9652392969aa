\* Three packets sent, two wanted, bursts of two, one slot in the shared-memory ring: the
\* sender may give up before and after the packets wanted are out.  The UDP link loses or duplicates
\* two frames, carries one frame of noise and delivers in any order.  The deadline may
\* strike at any moment.
CONSTANTS
  Links = {"udp", "shm"}
  Symbols = 2
  Sends = 3
  LinkSlots = 1
  Burst = 2
  Lagging = FALSE
  Dma = 1
  RxDepth = 1
  SlotCount = 1
  Kernel = 1
  MaxFaults = 2
  MaxNoise = 1
SPECIFICATION FairSpec
INVARIANTS EnginesIdle GapsAreDiscontinuities
PROPERTIES ShmCompletes EndsAfterDeadline
CHECK_DEADLOCK FALSE
