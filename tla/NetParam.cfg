SPECIFICATION Spec
CONSTANTS
  NetNum = 2
  Late = {1}
  Saves <- SomeSaves
INVARIANTS
  UnreachableOnlyAfterCut
  RecoverHeals
PROPERTIES
  StableAddress
  SealedSurvivesCut
