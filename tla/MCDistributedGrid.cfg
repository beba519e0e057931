SPECIFICATION FairSpec
CONSTANTS
  P = 3
  N = 4
  BlockCount = 2
  Layout = "grid"
  Repetitions = 1
  Runs <- MCGridRuns
INVARIANTS
  NoStaleRead
PROPERTIES
  SolveEnds
  ImplementsWavefront
