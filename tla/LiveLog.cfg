SPECIFICATION Spec
CONSTANTS
    ann = ann
    bob = bob
    Accounts = {ann, bob}
    None = None
    Says <- MCSays
    Past <- MCPast
    MaxHistory = 1
    MaxEmits = 2
    MaxEvents = 2
    LogTail = 3
    TailLength = 3
INVARIANTS NewestKept ViewsShown
PROPERTIES HistoryLoadedOnce
CHECK_DEADLOCK FALSE
