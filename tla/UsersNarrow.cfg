CONSTANTS
    Requests = {r1}
    MaxExpiries = 0
    MaxFaults = 1
SPECIFICATION Spec
INVARIANTS NarrowNeverOverridesWide
CHECK_DEADLOCK FALSE
