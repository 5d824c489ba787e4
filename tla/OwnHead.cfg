SPECIFICATION GatewaySpec
CONSTANTS
    MaxInstances = 3
    Letter = {"a", "b"}
    MaxPath = 3
    Service = {"users", "orders"}
    Shared = "shared"
INVARIANT OwnHead
CHECK_DEADLOCK FALSE
