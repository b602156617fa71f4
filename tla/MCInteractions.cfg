CONSTANTS
    u1 = u1
    u2 = u2
    p1 = p1
    p2 = p2
    k1 = k1
    r1 = r1
    r2 = r2
    r3 = r3
    None = None
    Users = {u1, u2}
    Posts = {p1, p2}
    CommentIds = {k1}
    FirstLikes <- MCFirstLikes
    TTL = 1
    Requests = {r1, r2, r3}
    Workload <- MCWorkload
    CacheFails = TRUE
    Mutable = {u2}
    Hideable = {p1}
SPECIFICATION FairHSpec
CHECK_DEADLOCK FALSE
INVARIANTS
    BarredRequestsWriteNothing
    WrongCountsAreExplained
PROPERTIES
    CacheHeals
