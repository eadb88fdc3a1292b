CONSTANTS
    Length = 2
    Kinds = 4
    MaxOps = 4
    Chains <- MCChains
    StartsFrom = {2}
    FromHead = FromHead
    FromHeadReset = FromHeadReset
    MaxToggles = 1
    MaxDeaths = 1
    MaxFaults = 1
SPECIFICATION FairSpec
PROPERTIES
    OrdersSettle
    CatchesUp
CHECK_DEADLOCK FALSE
