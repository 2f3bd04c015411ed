SPECIFICATION Spec
CONSTANTS
  Runs = {r1, r2}
SYMMETRY Symmetry
INVARIANTS
  MountedIntact
  RerunRepairs
