SPECIFICATION IvpSpec
CONSTANTS
    Spans = {0, 4, 12}
    MinSteps = {1, 2}
    StepCaps = {0, 3, 6}
INVARIANTS
    EveryStepMetTolerance
    CapMeansNotThere
CHECK_DEADLOCK FALSE
