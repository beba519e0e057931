SPECIFICATION Spec
CONSTANTS
  P = 2
  N = 2
  BlockCount = 2
  Layout = "grid"
  Repetitions = 1
  Runs <- MCFixedRuns
INVARIANTS
  FixedRunsAreExact
