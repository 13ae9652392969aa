\* Two rounds: the state changes and nothing is logged.
CONSTANTS
  Outcome <- Rounds1
  Rounds = 2
  MaxSeqGap = 1
  MaxMiss = 1
  MaxLatency = 2
  MaxStall = 0
  LossNum = 1
  LossDen = 10
  MinPackets = 8
  MaxGaps = 2
  MissNum = 1
  MissDen = 4
  RequireNormal = TRUE
SPECIFICATION SoakSpec
INVARIANTS HealthChangeIsLogged
CHECK_DEADLOCK FALSE
