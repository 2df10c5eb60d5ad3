CONSTANTS
    Generators = 2
    Provers = {p1, p2}
    Changed <- MCChanged
    SizeOf <- MCSizeOf
    MaxFaults = 1
    MaxLate = 1
    FaultsAnywhere = FALSE
SPECIFICATION FairProvingSpec
INVARIANTS
    SharedWorkSound
    TreesRestored
PROPERTIES
    AllVerified
CHECK_DEADLOCK FALSE
