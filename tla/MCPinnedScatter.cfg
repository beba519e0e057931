SPECIFICATION Spec
CONSTANTS
  CpuCount = 4
  SiblingOf <- MCSiblingOf
  MaxWorkers = 4
  Launches <- MCScatter
INVARIANTS
  BoundApart
