SPECIFICATION Spec
CONSTANTS
  UDPTH_PIPE_CAPACITY = 3
  NetCapacity = 3
  MaxSeq = 6
  MaxStrays = 1
CHECK_DEADLOCK FALSE
INVARIANTS TypeOK InOrder ProcessedWasPublished BridgeNeverRefused CleanExit
PROPERTY HangsOnlyInReceive
