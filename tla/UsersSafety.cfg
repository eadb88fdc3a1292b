CONSTANTS
    Requests = {r1, r2, r3}
    MaxExpiries = 1
    MaxFaults = 2
SPECIFICATION Spec
SYMMETRY Symmetry
INVARIANTS TypeOK AloneLeavesOrder TokensStayForgotten SettingsLostOnlyToOverlaps SentWithCheckedScope
CHECK_DEADLOCK FALSE
