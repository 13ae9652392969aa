\* The ring file: three slots, six packets, an absent or a left-over file, all three ways to start.
CONSTANTS
  SlotCount = 3
  Symbols = 6
  Deployments = {"sequenced", "compose", "bare"}
\* The engine: two streams, three sequence numbers of which the second starts (wrap-around
\* happens), with and without allow_reorder, every order of calls.
CONSTANTS
  Stream = {s1, s2}
  SeqSpace = 3
  StartSeq = 1
  MaxQueue = 1
  MaxErrors = 1
\* The soak: four rounds, each with any of thirteen outcomes around the thresholds.
CONSTANTS
  Outcome <- Rounds1
  Rounds = 4
  MaxSeqGap = 1
  MaxMiss = 1
  MaxLatency = 2
  MaxStall = 0
  LossNum = 1
  LossDen = 10
  MinPackets = 8
  MaxGaps = 2
  MissNum = 1
  MissDen = 4
  RequireNormal = TRUE
SPECIFICATION KeptSpec
INVARIANTS NoBusError OnlyThisSession HealthGateIffClean RecoversInTwoRounds
PROPERTIES EmptyFileBlocksFpga NoSilentHole FreshStreamStartsAtStart
CHECK_DEADLOCK FALSE
