SPECIFICATION MCSpec
CONSTANTS
  Reading <- MCReading
  MaxNow = 1
  MaxIndex = 2
  MaxHotplug = 2
  MaxFault = 1
  MaxBytes = 2
  MaxMillis = 3
  None = None
INVARIANTS
  TypesOK
  UsageIsOfInterval
  ErrorHasCause
  TrafficIsCounted
CHECK_DEADLOCK FALSE
