SPECIFICATION HeapSpec
CONSTANTS
  Priorities = {1, 2}
  zCapacity = 3
PROPERTY PopSucceeds
