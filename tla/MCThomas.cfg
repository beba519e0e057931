SPECIFICATION SequentialSpec
CONSTANTS
    Methods = {"stationary", "richardson", "cg"}
    MaxIterations = 1
    Intervals = {1, 2, 3}
    Width = 8
    Largest = 2
    Tolerances = {1, 2}
    RootCaps = {0}
    Spans = {0, 4, 12}
    MinSteps = {1, 2}
    StepCaps = {0}
    Depths = {1}
    Tolerance = 8
    Differences = {1, 4, 9}
    Order = 3
    Entries = {1}
    Diagonals = {0, 1, 2}
    OffDiagonals <- MCOffDiagonals
    RightSides <- MCRightSides
    Norms = {0, 1, 2, 3}
    Target = 1
    Unordered = 3
    SweepCaps = {0}
    CheckIntervals = {0, 1, 2}
    Repetitions = 1
INVARIANT
    DominantIsSafe
CHECK_DEADLOCK FALSE
