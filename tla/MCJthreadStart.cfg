\* A worker thread that will not start, after another one already did.  The
\* counterexample ends with the constructor blocked for good.
SPECIFICATION FairSpec
CONSTANTS
  W = 3
  Sizes <- MCSizes
  Schedule = "Static"
  ChunksPerWorker = 1
  ReductionCap = 3
  MaxPhase = 1
PROPERTIES
  ConstructorEnds
CHECK_DEADLOCK FALSE
