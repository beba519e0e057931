SPECIFICATION Spec
CONSTANTS
  P = 3
  N = 4
  BlockCount = 2
  Layout = "flat"
  Repetitions = 2
  Runs <- MCFlatRuns
INVARIANTS
  WholeSolve
  CollectivesMatch
