SPECIFICATION Spec
CONSTANTS
  UDPTH_PIPE_CAPACITY = 2
  NetCapacity = 2
  MaxSeq = 4
  MaxStrays = 0
CHECK_DEADLOCK FALSE
PROPERTY PublishesEachCycle
