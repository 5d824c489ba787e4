SPECIFICATION FairSpec
CONSTANTS
    MaxInstances = 4
    MaxWeight = 3
    Strategies = {"round-robin", "weighted-round-robin"}
    AnyBroken = FALSE
INVARIANTS FairTypeOK EvenShare
PROPERTY NobodyStarves
