SPECIFICATION Spec
CONSTANTS
  RankCount = 3
  Repetitions = 2
  Pinned = TRUE
INVARIANTS
  CleanExitIsOneWholeRow
  RowFollowsEverySolve
  InapplicableIsThree
PROPERTIES
  JobEnds
CHECK_DEADLOCK FALSE
