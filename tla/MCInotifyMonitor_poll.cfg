CONSTANTS
  Object = {o1, o2}
  Path = {q1, q2}
  NoObject = NoObject
  NoPath = NoPath
  SelfMask = {"IN_MODIFY"}
  ChildMask = {"IN_CREATE"}
  NameUnits = {1, 2}
  BufferUnits = 3
  Installed = {"created", "deleted", "modified", "moved"}
  StopOnError = FALSE
  MaxQueued = 2
  MaxEvents = 3
  MaxWd = 2
  MaxFault = 1
  MaxResume = 1
SPECIFICATION FairSpec
INVARIANTS TypeOK NoLostWakeup WatchMapIsCurrent
CHECK_DEADLOCK FALSE
PROPERTY EventsAreRead
