SPECIFICATION Spec
CONSTANTS
  Tag = {0, 1, 2}
  QspiTags = 2
  Index = {0, 1}
  Words = 2
  Lanes = 2
  Byte <- MCByte
  Requests <- TwoLineRequests
  Image <- MCImage
  Lead = 2
  None = None
INVARIANTS TypeOK OneOwner
PROPERTIES ImplementsMemory RequestServed
