CONSTANTS
    r1 = r1
    r2 = r2
    i = i
    j = j
    None = None
    Request = {r1, r2}
    Instance = {i, j}
SPECIFICATION Spec
CHECK_DEADLOCK FALSE
INVARIANTS
    PoolsOutliveRequests
PROPERTIES
    StopsWhenAsked
