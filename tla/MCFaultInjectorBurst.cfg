\* A burst of one, and one that ends with the largest sequence number.
CONSTANTS
  SeqMax = 9
  Config <- BurstToTheEnd
  MaxPackets = 10
SPECIFICATION Spec
INVARIANTS BurstDropsItsLength
CHECK_DEADLOCK FALSE
