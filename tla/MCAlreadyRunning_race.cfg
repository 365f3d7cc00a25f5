CONSTANTS
  p1 = p1
  p2 = p2
  p3 = p3
  Instance = {p1, p2, p3}
  File = {i1, i2, i3}
  NoFile = NoFile
  NoInstance = NoInstance
  Graceful = {p1, p2, p3}
  LowFd = {}
  MaxCrash = 0
  MaxOpenFail = 0
SPECIFICATION Spec
INVARIANT MutualExclusion
