CONSTANTS
    Names = {alice, bob}
    MaxUpdates = 4
    MaxDeaths = 1
    MaxFaults = 2
SPECIFICATION FairSpec
INVARIANTS StaleOnlyForAReason OneChainPerMessage
PROPERTIES NeverOlder CopyConverges
