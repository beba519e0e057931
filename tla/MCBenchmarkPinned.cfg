SPECIFICATION Spec
CONSTANTS
  RankCount = 3
  Repetitions = 1
  Pinned = TRUE
INVARIANTS
  PinnedRowIsPinned
CHECK_DEADLOCK FALSE
