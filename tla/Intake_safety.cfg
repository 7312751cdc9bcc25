CONSTANTS
    a = a
    d1 = d1
    s1 = s1
    s2 = s2
    x = x
    y = y
    None = None
    Ids = {a, s1, s2}
    Contents = {x, y}
    Posts <- MCPosts
    Deliveries = {d1}
    Listings <- MCListings
    Requests = {p1, p2}
    Limit = 2
    MaxParts = 2
    MaxFaults = 1
SPECIFICATION FairSpec
INVARIANTS BacklogBounded RepliesTrue
PROPERTY GuardFreed
