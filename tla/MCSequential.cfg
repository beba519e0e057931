SPECIFICATION SequentialSpec
CONSTANTS
    Methods = {"stationary", "richardson", "cg"}
    MaxIterations = 4
    Intervals = {1, 2, 3}
    Width = 8
    Largest = 2
    Tolerances = {1, 2}
    RootCaps = {0, 2, 5}
    Spans = {0, 4, 12}
    MinSteps = {1, 2}
    StepCaps = {0, 3, 6}
    Depths = {1, 3, 4}
    Tolerance = 8
    Differences = {1, 4, 9}
    Order = 3
    Entries = {0, 1, 2}
    Diagonals = {0, 1, 2}
    OffDiagonals <- MCOffDiagonals
    RightSides <- MCRightSides
    Norms = {0, 1, 2, 3}
    Target = 1
    Unordered = 3
    SweepCaps = {0, 1, 3}
    CheckIntervals = {0, 1, 2}
    Repetitions = 1
INVARIANTS
    ResidualIsOfTheIterate
    StopsAndCosts
    ExactIsNotBreakdown
    BracketHeld
    StepsFollowTheSolution
    ToleranceLabelled
    EachPieceOnce
    ErrorsWithinTolerance
    SolvesTheSystem
    RowIsTheIterate
CHECK_DEADLOCK FALSE
