SPECIFICATION DiscoverSpec
CONSTANTS
    c1 = c1
    c2 = c2
    Call = {c1, c2}
    Listings <- MCListings
    Strategies = {"random", "round-robin", "least-connections", "weighted-round-robin", "response-time"}
    MaxSamples = 1
    Elapsed = {1, 2}
INVARIANTS DiscoverTypeOK TriedOnce ExhaustedMeansAll FailuresUncounted
PROPERTY CallsEnd
