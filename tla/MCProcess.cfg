SPECIFICATION Spec
CONSTANTS
  Threads = {"t1", "t2"}
  Users = {"t1"}
  Wrappers = {"t1", "t2"}
  Cores = {"c1", "c2", "c3", "c4"}
  Hints = {0, 1, 5}
  ConstCount = 3
  OpCount = 2
  ConstListSize = 2
  OpListSize = 1
  MaxLives = 3
  Keys <- MCKeys
  Candidates <- MCCandidates
  Default <- MCDefault
  Chips <- MCChips
  CoreSets <- MCCoreSets
  Setups <- MCSetups
INVARIANTS
  KernelsRunTuned
  ModelArrives
  TeamIsBound
