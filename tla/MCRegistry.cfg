SPECIFICATION RegistrySpec
CONSTANTS
    a1 = a1
    a2 = a2
    b1 = b1
    users = users
    orders = orders
    Instance = {a1, a2, b1}
    Service = {users, orders}
    ServiceOf <- MCServiceOf
    Metadata = {"v1"}
    HeartbeatInterval = 2
    CleanupTTL = 1
    EvictionThreshold = 3
    TimerLag = 1
INVARIANTS RegistryTypeOK ListingExact MarksAgree StaleBounded StrikesEarned
PROPERTIES EvictedOnlyWhenSilent ImplementsDirectory
