CONSTANTS
    u1 = u1
    p1 = p1
    r1 = r1
    r2 = r2
    r3 = r3
    None = None
    Users = {u1}
    Posts = {p1}
    CommentIds = {}
    FirstLikes = {}
    TTL = 1
    Requests = {r1, r2, r3}
    Workload <- MCWorkload
    CacheFails = FALSE
    Mutable = {}
    Hideable = {}
SPECIFICATION FreshSpec
CHECK_DEADLOCK FALSE
PROPERTY
    ReadsAreFresh
