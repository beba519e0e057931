SPECIFICATION Spec
CONSTANTS
  CpuCount = 4
  SiblingOf <- MCSiblingOf
  MaxWorkers = 3
  Launches <- MCRefused
INVARIANTS
  UnpinnedRunsFree
