SPECIFICATION Spec
CONSTANTS
  Callers = {c1, c2}
  MinTout = 10
  MaxTout = 14
  Requests = {9, 10, 14, 15}
  MaxLag = 3
SYMMETRY Symmetry
INVARIANTS
  NoSpuriousReset
  PeriodMatchesDevice
CHECK_DEADLOCK FALSE
