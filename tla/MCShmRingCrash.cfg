\* Two slots, positions modulo 4, and processes killed between any two stores.
CONSTANTS
  SlotCount = 2
  PosMax = 3
  SendTries = 2
  Burst = 2
  TooLarge = {3}
  MaxFrames = 5
SPECIFICATION CrashSpec
INVARIANTS AtMostOnceInOrder
PROPERTIES WedgeIsPermanent FifoSpec
