CONSTANTS
    Origins = {o1, o2}
    a = a
    b = b
    h = h
    i = i
    Listings <- MCListings
    StartEndpoints <- MCStartEndpoints
    HostNames = {h, i}
    Loopback = {}
    None = None
    MaxTokens = 2
    MaxLanes = 2
    MaxQueue = 2
    MaxRestarts = 1
SPECIFICATION FairSpec
INVARIANTS OpenerFollowsStore TokenOfOrigin DivergenceKnown EndpointsStayBounded
PROPERTIES NoLostUpdate LaneEnds
CHECK_DEADLOCK FALSE
