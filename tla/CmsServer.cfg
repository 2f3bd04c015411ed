SPECIFICATION FairSpec
CONSTANTS
  Instances = {i1, i2}
  MaxPresses = 2
  Preemptible = TRUE
  NoOne = NoOne
INVARIANTS
  OneServer
  OneRecovery
  IrqOnWhileServing
  EachPressOnce
PROPERTIES
  EventsRead
CHECK_DEADLOCK FALSE
