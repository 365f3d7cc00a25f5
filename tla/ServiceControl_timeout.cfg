CONSTANTS
  Main = "service"
  Dependent = {"dependent"}
  WaitHint = {0, 3}
  HintPart = 2
  MinWait = 1
  MaxWait = 2
  Timeout = 3
  Wrap = 16
  Boot = {0, 12}
  MaxMoves = 3
SPECIFICATION Spec
INVARIANT TimeoutMeansPending
CHECK_DEADLOCK FALSE
