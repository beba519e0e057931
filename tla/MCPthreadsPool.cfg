SPECIFICATION FairSpec
CONSTANTS
  W = 3
  Sizes <- MCSizes
  Schedule = "Dynamic"
  ChunksPerWorker = 2
  ReductionCap = 3
  MaxGeneration = 2
INVARIANTS
  WorkersConfined
  NoLostWakeup
  EveryElementOnce
  RelayFaithful
PROPERTIES
  NoDispatchSkipped
  ConstructorEnds
  ImplementsForkJoin
