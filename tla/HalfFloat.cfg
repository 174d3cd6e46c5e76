SPECIFICATION Spec
CONSTANTS
    SE = 5
    SM = 4
    TE = 3
    TM = 2
INVARIANT RoundsToNearest
CHECK_DEADLOCK FALSE
