CONSTANTS
    Items = {i1, i2}
    MaxStarts = 2
    MaxStops = 2
    MaxErrors = 1
SPECIFICATION Spec
INVARIANTS
    OneTakeOutlivesStop
    LoopsEndForAReason
PROPERTY
    StopEndsLoops
CHECK_DEADLOCK FALSE
