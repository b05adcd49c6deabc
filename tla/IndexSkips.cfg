SPECIFICATION ProgramsSpec
CONSTANTS
  giSUBSECS_MAX = 5
  giSECS_MAX = 1
  NanosPerSec = 3
  MicrosPerSec = 2
  MillisPerSec = 2
  CountMax = 17
  DoubleGrid = 1
  zCapacity = 1
  NoItem = NoItem
  Noise <- MCNoise
  ClockBound = 7
  RpmBound = 20
  NULL = NULL
  app = app
  impl = impl
  Files = {app, impl}
  Texts = {v, w}
  v = v
  w = w
  Implements <- MCImplements
  Positional <- MCPositional
  Absent = Absent
  NoCache = NoCache
  MaxActs = 3
  MaxInFlight = 2
INVARIANT SkipsOnlyCached
