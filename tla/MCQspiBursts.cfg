SPECIFICATION Spec
CONSTANTS
  PwrUpCycles = 3
  CsGap = 7
  MemSize = 64
  WrapLen = 64
  BurstLen = 32
  Starts <- LineStarts
  WriteData <- OneLine
  Image <- MCImage
  MaxAge = 700
INVARIANTS BurstExact NoContention
PROPERTIES ChipTiming
