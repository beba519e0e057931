SPECIFICATION Spec
CONSTANTS
  CpuCount = 4
  SiblingOf <- MCSiblingOf
  MaxWorkers = 2
  Launches <- MCSerial
INVARIANTS
  CallerGetsItsMaskBack
