SPECIFICATION SolverSpec
CONSTANTS
    Methods = {"cg"}
    MaxIterations = 3
    Intervals = {2}
INVARIANT
    ConvergesWhenDue
CHECK_DEADLOCK FALSE
