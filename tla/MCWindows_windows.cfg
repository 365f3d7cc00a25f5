CONSTANTS
  Instance = {p1, p2, p3}
  MaxCrash = 2
  MaxDenied = 1
  MaxWait = 2
  MaxRecords = 2
  MaxAdd = 2
  MaxFault = 1
  WaitHint = {0, 3}
  Timeout = 3
  Wrap = 16
  Boot = {0, 12}
  MaxMoves = 3
SPECIFICATION MCSpec
INVARIANTS TypesOK NoDeafDirectory DevicesAreFollowed
  EverythingIsGivenBack ListsAreWhole StopIsBounded
PROPERTIES ImplementsChangeFeed ImplementsSingleInstance ServedInTurn CommandReturns
CHECK_DEADLOCK FALSE
