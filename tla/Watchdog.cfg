SPECIFICATION Spec

CONSTANTS
    Horizon = 12
    LongestFill = 4
    Faults = {"stop", "enqueue"}

INVARIANTS
    TypeOK
    EditorsAreTold
    BadIsNoticed
    GoodIsNoticed
