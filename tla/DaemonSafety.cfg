CONSTANTS
    Length = 2
    Kinds = 6
    MaxOps = 4
    Chains <- MCChains
    StartsFrom = {FromHead, FromHeadReset}
    FromHead = FromHead
    FromHeadReset = FromHeadReset
    MaxToggles = 1
    MaxDeaths = 2
    MaxFaults = 1
SPECIFICATION Spec
INVARIANTS
    TypeOK
    RulesNeverStale
    LoadedRulesFound
    NoOrderForgotten
    OneJobPerLife
CHECK_DEADLOCK FALSE
