SPECIFICATION CacheSpec
CONSTANTS
    a1 = a1
    a2 = a2
    Instance = {a1}
    MaxStrikes = 2
    RefreshInterval = 2
    RefreshLag = 1
    MaxDelay = 2
    MaxFailures = 1
INVARIANTS CacheTypeOK CacheFresh LoadsBounded
PROPERTIES Discovered
