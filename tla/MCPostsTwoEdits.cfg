CONSTANTS
    ann = ann
    adm = adm
    p1 = p1
    p2 = p2
    s = s
    t = t
    r1 = r1
    r2 = r2
    None = None
    Users = {ann, adm}
    Admins = {adm}
    PostIds = {p1, p2}
    FirstPosts = {p1}
    FirstRow <- MCFirstRow
    Texts = {s, t}
    Durations = {1}
    Permanent = 9
    Requests = {r1, r2}
    Workload <- MCTwoEdits
    Mutable = {}
    MaxTime = 0
SPECIFICATION Spec
CHECK_DEADLOCK FALSE
PROPERTY
    UnprovidedFieldsAreKept
