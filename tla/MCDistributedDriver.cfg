SPECIFICATION Spec
CONSTANTS
  P = 3
  N = 2
  BlockCount = 2
  Layout = "grid"
  Repetitions = 2
  Runs <- MCDriverRuns
INVARIANTS
  WholeSolve
  RingIntact
  RanksAgree
