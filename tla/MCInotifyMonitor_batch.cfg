CONSTANTS
  Object = {o1}
  Path = {q1}
  NoObject = NoObject
  NoPath = NoPath
  SelfMask = {"IN_OPEN", "IN_CLOSE_NOWRITE"}
  ChildMask = {}
  NameUnits = {1, 2}
  BufferUnits = 3
  Installed = {"closed"}
  StopOnError = TRUE
  MaxQueued = 4
  MaxEvents = 2
  MaxWd = 1
  MaxFault = 0
  MaxResume = 0
SPECIFICATION Spec
PROPERTY EveryEventIsDispatched
CHECK_DEADLOCK FALSE
