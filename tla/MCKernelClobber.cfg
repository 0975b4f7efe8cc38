SPECIFICATION Spec
CONSTANTS
  basic = basic
  kilo = kilo
  a = a
  b = b
  d = d
  NoName = NoName
  MaxFiles = 4
  MaxFds = 4
  Names = {basic, kilo, a, b}
  BootFiles <- TwoBootFiles
  Image <- Blank
  Gap = 1
  Byte = {0, 1}
  MemTop = 10
  Reach = 11
  MaxCount = 1
PROPERTIES
  NoClobbering
VIEW LiveState
CHECK_DEADLOCK FALSE
