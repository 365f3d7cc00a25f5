CONSTANTS
  Device = {d1, d2}
  Hooked = {"arrived", "removed", "bound", "unbound"}
  Burst = 3
  MaxBacklog = 3
  MaxEvents = 3
SPECIFICATION FairSpec
PROPERTY EventIsReported
CHECK_DEADLOCK FALSE
