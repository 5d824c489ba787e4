SPECIFICATION ClusterSpec
CONSTANTS
    a1 = a1
    users = users
    Instance = {a1}
    Service = {users}
    ServiceOf <- MCServiceOf
    Metadata = {"v1", "v2"}
    HeartbeatInterval = 2
    CleanupTTL = 2
    EvictionThreshold = 3
    TimerLag = 1
    MaxDelay = 1
    RestartDelay = 1
INVARIANTS ClusterTypeOK GhostBounded ListingCurrent
PROPERTIES NoLiveEviction Relisted
