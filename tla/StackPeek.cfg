SPECIFICATION CppSpec
CONSTANTS
  zCapacity = 3
  Items = {x, y}
  NoItem = NoItem
PROPERTY PeekPointsToItem
