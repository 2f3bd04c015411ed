SPECIFICATION LoadSpec
INVARIANTS
  NoFreedMemory
  DiesOnlyUntold
  NoLeak
