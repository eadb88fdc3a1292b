CONSTANTS
    Items = {i1}
    MaxStarts = 1
    MaxStops = 1
    MaxErrors = 0
SPECIFICATION Spec
INVARIANT StopAwaitsTake
CHECK_DEADLOCK FALSE
