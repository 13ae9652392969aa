\* fpga-emit may start at any moment of shm-prepare and host-recv.
CONSTANTS
  SlotCount = 2
  Symbols = 4
  Deployments = {"compose"}
SPECIFICATION Spec
PROPERTIES FpgaSparesAttachedHost
CHECK_DEADLOCK FALSE
