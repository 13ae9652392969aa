\* Lossless reordering by one and by two.
CONSTANTS
  SeqMax = 9
  Config <- ReorderOnly
  MaxPackets = 5
SPECIFICATION Spec
PROPERTIES DelayedByDistance
CHECK_DEADLOCK FALSE
