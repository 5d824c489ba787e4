SPECIFICATION FairSpec
CONSTANTS
    MaxInstances = 3
    MaxWeight = 1
    Strategies = {"round-robin"}
    AnyBroken = TRUE
PROPERTY NobodyStarves
