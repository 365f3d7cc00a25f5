CONSTANTS
  p1 = p1
  p2 = p2
  p3 = p3
  Instance = {p1, p2, p3}
  File = {i1, i2, i3}
  NoFile = NoFile
  NoInstance = NoInstance
  Graceful = {p1, p2, p3}
  LowFd = {p3}
  MaxCrash = 2
  MaxOpenFail = 1
SPECIFICATION FairSpec
INVARIANTS TypeOK FirstHoldsLock NoStaleLock
PROPERTIES RefusedOnlyByFirst FirstAgainAndAgain
