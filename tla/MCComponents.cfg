\* The components stop when their bounded input is used up.
SPECIFICATION Spec
CONSTANTS
  FaultSeqMax = 9
  Faults <- AllFaults
  FaultPackets = 9
  NicRxDepth = 2
  NicTxDepth = 1
  NicLatency = 2
  NicTime = 3
  NicPackets = 3
  NicBursts = {1, 3}
  MbufPool = 3
  MbufBurst = 2
  MbufPackets = 8
  MbufAsk = {1, 2, 5}
  PoolBytes <- SmallPools
  PoolBuffers = 3
  Byte = {0, 1}
  Zero = 0
  BufferSize = 2
  PoolAllocs = 5
  RingSlots = 3
  RingPackets = 4
  TraceSlots = 2
  Stamps = {"FpgaTx", "Cx5Rx"}
  TraceStarts = 4
  TraceStamps = 2
  SymbolMax = 3
  SlotMax = 2
  SfnSpace = 2
  NsMax = 28
  SeqSpace = 7
  Timings <- SmallTimings
  Ticks = 13
  MeterMax = 6
  MeterAmounts = {0, 1, 4}
  MeterCalls = 3
  Scrapers = 3
INVARIANTS InjectorConservation NicConservation NicVisibleOnceDue DpdkConservation PoolAccounting
INVARIANTS RingExactlyOnce TracesComplete FpgaTime MetricsOfTheCalls CodecRefusesDamage ScrapesAreFresh
PROPERTIES PoolIdsNeverReused RingDrains ScrapeAnswered
CHECK_DEADLOCK FALSE
