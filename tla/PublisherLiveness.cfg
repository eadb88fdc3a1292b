CONSTANTS
    Jobs = {j1, j2}
    Slots = {s1, s2}
    Retries = 1
    MaxPushes = 2
    MaxCrashes = 2
    MaxFaults = 0
SPECIFICATION FairSpec
PROPERTIES EveryJobConcluded FinishNotStarved
