CONSTANTS
  File <- Files
  FramesChunk = {0, 1, 2, 3}
  ChunkCount = {0, 1, 3, 4}
  FrameStep = {0, 2, 99}
  AutoStep = 99
  Garbage <- GarbageHeaders
  MaxCalls = 2
SPECIFICATION FairSpec
INVARIANTS TypeOK DataIsOfFile EveryEndIsExplained SpectrumCoversFile
PROPERTY EveryCallReturns
CHECK_DEADLOCK FALSE
