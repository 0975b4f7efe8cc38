SPECIFICATION Spec
CONSTANTS
  basic = basic
  kilo = kilo
  a = a
  b = b
  d = d
  NoName = NoName
  MaxFiles = 3
  MaxFds = 5
  Names = {kilo, a, b, d}
  BootFiles <- OneBootFile
  Image <- Blank
  Gap = 1
  Byte = {0, 1}
  MemTop = 4
  Reach = 6
  MaxCount = 2
INVARIANTS
  TypeOK
  DirectoryWellFormed
  FdTableWellFormed
PROPERTIES
  KernelReachedOnlyPastTop
VIEW LiveState
SYMMETRY NewNames
CHECK_DEADLOCK FALSE
