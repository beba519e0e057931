SPECIFICATION DeviceSpec
CONSTANTS
    Norms = {0, 1, 2, 3}
    Target = 1
    Unordered = 3
    SweepCaps = {0, 1, 3}
    CheckIntervals = {0, 1, 2}
    Repetitions = 1
INVARIANTS
    FixedRunsThemAll
    FailureIsDescribed
CHECK_DEADLOCK FALSE
