SPECIFICATION CmdSpec
CONSTANTS
  CellNum = 4
  MaxArgs = 6
INVARIANTS
  LinesAsTyped
CHECK_DEADLOCK FALSE
