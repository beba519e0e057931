SPECIFICATION QuadratureSpec
CONSTANTS
    Depths = {1, 3}
    Tolerance = 8
    Differences = {1, 9}
INVARIANT
    RowsPerformed
CHECK_DEADLOCK FALSE
