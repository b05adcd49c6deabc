SPECIFICATION Spec
CONSTANTS
  UDPTH_PIPE_CAPACITY = 2
  NetCapacity = 2
  MaxSeq = 2
  MaxStrays = 1
CHECK_DEADLOCK FALSE
PROPERTY Shutdown
