SPECIFICATION RootSpec
CONSTANTS
    Width = 8
    Largest = 2
    Tolerances = {1, 2}
    RootCaps = {0, 2, 5}
INVARIANTS
    BoundIsGenuine
    BracketHeldThroughNaN
CHECK_DEADLOCK FALSE
