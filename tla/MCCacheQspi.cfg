SPECIFICATION Spec
CONSTANTS
  Tag = {0, 1, 2, 5}
  QspiTags = 4
  ChipTags = 2
  Index = {0}
  Words = 2
  Lanes = 4
  Requests <- MCRequests
  None = None
  PwrUpCycles = 3
  CsGap = 7
  MaxAge = 8
  Image <- MCImage
PROPERTIES
  ImplementsMemory
  RequestServed
