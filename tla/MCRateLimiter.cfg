CONSTANTS
    r1 = r1
    r2 = r2
    ip1 = ip1
    u1 = u1
    NoUser = NoUser
    Request = {r1, r2}
    Address = {ip1}
    User = {u1}
    Route = {"mutation"}
    Policy <- MCPolicy
    MaxEntries = 1
    IdleTTL = 2
    MaxTime = 4
SYMMETRY Symmetry
SPECIFICATION Spec
INVARIANTS
    SustainedRate
PROPERTIES
    NoWaitIsWasted
