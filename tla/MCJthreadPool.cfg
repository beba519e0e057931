\* The pool's object really goes away: after the destructor nothing runs, so
\* the run does not look for deadlocks.  A dispatch or a shutdown that blocks
\* for ever is what DispatchEnds and ShutdownEnds find under FairSpec.
SPECIFICATION FairSpec
CONSTANTS
  W = 3
  Sizes <- MCSizes
  Schedule = "Dynamic"
  ChunksPerWorker = 2
  ReductionCap = 3
  MaxPhase = 2
INVARIANTS
  PoolReady
PROPERTIES
  ShutdownEnds
  DispatchEnds
  ImplementsForkJoin
CHECK_DEADLOCK FALSE
