SPECIFICATION DiscoverSpec
CONSTANTS
    c1 = c1
    c2 = c2
    Call = {c1, c2}
    Listings <- MCListings
    Strategies = {"least-connections"}
    MaxSamples = 2
    Elapsed = {1, 2}
INVARIANT CountsActive
