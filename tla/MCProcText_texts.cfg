CONSTANTS
  Format = {"stat", "status", "meminfo", "cpuinfo", "os-release"}
  Text <- Texts
SPECIFICATION ReaderSpec
INVARIANTS ReaderTypeOK TextIsUnderstood
PROPERTY LoopEnds
CHECK_DEADLOCK FALSE
