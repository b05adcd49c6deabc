SPECIFICATION AlgorithmsSpec
CONSTANTS
  giSUBSECS_MAX = 15
  giSECS_MAX = 19
  NanosPerSec = 10
  MicrosPerSec = 5
  MillisPerSec = 2
  CountMax = 157
  DoubleGrid = 16
  Durations <- MCDurations
  Counts <- MCCounts
  Doubles <- MCDoubles
  I32_MAX = 7
  Undefined = Undefined
  Rotations <- MCRotations
  Vectors <- MCVectors
  TurnBound = 2
  Bytes = {0, 1, 128, 167}
  Openings <- MCOpenings
  Chunks <- MCChunks
  LengthBound = 3
  Priorities = {1, 2, 3}
  zCapacity = 5
INVARIANTS HeapOrder NothingLost
           StampCanonical RoundTrips RoundsHalfUp
           RotationsUndone OneAlgebra CrcIsRemainder ReceiverAccepts
PROPERTIES ImplementsTime IsPriorityQueue
