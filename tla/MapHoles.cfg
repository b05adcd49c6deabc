SPECIFICATION Spec
CONSTANTS
  Keys = {k1, k2, k3, k4}
  Values = {v, w}
  NoValue = NoValue
  zCapacity = 3
  SIZE_MAX = 15
  Hashes = {0, 1, 5}
SYMMETRY Symmetry
INVARIANT Retrievable
