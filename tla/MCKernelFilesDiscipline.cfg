SPECIFICATION DisciplinedSpec
CONSTANTS
  kilo = kilo
  a = a
  b = b
  d = d
  NoName = NoName
  Absent = Absent
  MaxFiles = 3
  MaxFds = 5
  Names = {kilo, a, b, d}
  BootFiles <- OneBootFile
  Image <- Blank
  Gap = 1
  Byte = {0, 1}
  MemTop = 5
  Reach = 6
  MaxCount = 1
INVARIANTS ExtentsDisjoint PositionWithinSize
PROPERTIES ImplementsStore
VIEW LiveState
SYMMETRY NewNames
