CONSTANTS
  Rows = 2
  Cols = 3
  TabStop = 4
  LineBuf = 6
  BlankRun = 2
  QuitTimes = 1
  HasSyntax = TRUE
  Files <- MCFiles
  Inputs <- MCInputs
  Printable <- MCPrintable
  MaxEdits = 2
  MaxQuery = 1
SPECIFICATION Spec
CHECK_DEADLOCK FALSE
INVARIANTS CleanMeansOnDisk TerminalShowsWindow QuitIsConfirmed NoMatchLeftLit
PROPERTIES ImplementsTextBuffer CursorInPlace
