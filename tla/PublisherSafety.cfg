CONSTANTS
    Jobs = {j1, j2}
    Slots = {s1, s2, s3}
    Retries = 1
    MaxPushes = 3
    MaxCrashes = 1
    MaxFaults = 1
SPECIFICATION Spec
SYMMETRY Symmetry
INVARIANTS TypeOK NoJobVanishes NothingStranded OneRunPerJob DuplicatesExplained
PROPERTIES FirstTakesInOrder ImplementsDelivery
