SPECIFICATION Spec
CONSTANTS
    Lease = 5
    MaxTtl = 7
    Threshold = 2
    RetryDelay = 1
    LoginDelay = 1
    Services = {"publisher", "realtime"}
    Period <- MCPeriod
    KeyTtl <- MCKeyTtl
INVARIANTS SessionKept StatusTrue
PROPERTIES LostForGood Recovers
