SPECIFICATION GatewaySpec
CONSTANTS
    MaxInstances = 3
    Letter = {"a", "b"}
    MaxPath = 3
    Service = {"users", "orders"}
    Shared = "shared"
INVARIANTS GatewayTypeOK StatusOfSource OwnRequestHead  AllDocsMerged NeverAbandoned OneUpstream OneInstanceSpeaks NobodyLeftWaiting
PROPERTIES Returns Answered ImplementsExchange
CHECK_DEADLOCK FALSE
