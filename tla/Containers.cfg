SPECIFICATION ContainersSpec
CONSTANTS
  zCapacity = 3
  Items = {x, y, z}
  NoItem = NoItem
  Keys = {k1, k2, k3, k4}
  Values = {v, w}
  NoValue = NoValue
  SIZE_MAX = 15
  Hashes = {0, 5, 15}
  zMapCapacity = 3
  p1 = p1
  p2 = p2
  p3 = p3
  a = a
  b = b
  s = s
  t = t
  Pipes = {p1, p2, p3}
  iMsgId <- MCiMsgId
  ptArray <- MCptArray
  Mids = {a, b}
  Types = {s, t}
  zRegistryCapacity = 3
  MaxMsgs = 2
SYMMETRY Symmetry
INVARIANTS TypesOK NoStaleItems PipeHoldsDue
PROPERTIES ImplementsFifo ImplementsLifo CppImplements MapUntilHoled SetIsVisible PrefixFanOut
