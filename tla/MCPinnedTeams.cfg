SPECIFICATION Spec
CONSTANTS
  CpuCount = 6
  SiblingOf <- MCSiblingOf
  MaxWorkers = 6
  Launches <- MCLaunches
INVARIANTS
  CallerGetsItsMaskBack
  UnpinnedRunsFree
  BoundApart
