\* Three slots, positions modulo 5 (the slot index jumps when a position wraps), eight
\* frames of which the third is too large: the ring fills, empties and wraps, and
\* both processes attach again.
CONSTANTS
  SlotCount = 3
  PosMax = 4
  SendTries = 2
  Burst = 2
  TooLarge = {3}
  MaxFrames = 8
SPECIFICATION FairSpec
INVARIANTS RingInv NoTornRead
PROPERTIES FifoSpec PublishedIsDelivered SendReturns
