SPECIFICATION FairSpec
CONSTANTS
  Procs = {p1, p2}
  TimerOutCnt = 2
  MaxDepth = 2
  Preemptible = TRUE
  DeferSoftirq = TRUE
INVARIANTS
  DiesOnlyInWindows
  OutputMirrorsInput
  RecordTellsPin
PROPERTIES
  NoEarlyFallback
  StartEnables
  FreeRunsWhenSilent
  RecordHeals
CHECK_DEADLOCK FALSE
