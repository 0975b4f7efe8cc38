CONSTANTS
  Width = 16
  LastSimple = 2
  Side = 2
  VarCells = 20
  Byte = 16
  VarsBegin = 34
  StackUnits = 4
  Slack = 10
  InputVars = 2
  Typed <- MCTyped
  Files <- MCFiles
  Programs <- MCPrograms
  Strays <- MCStrays
  MaxTyped = 3
SPECIFICATION Spec
CHECK_DEADLOCK FALSE
INVARIANTS ExpressionsMeanTheirTrees FramesClearOfVariables StaleOnlyAfterEdit
PROPERTIES ImplementsListing LoadRestoresSaved SavedIsTheRange
