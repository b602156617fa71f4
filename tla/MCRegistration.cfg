CONSTANTS
    old = old
    newbie = newbie
    n1 = n1
    n2 = n2
    c1 = c1
    c2 = c2
    r1 = r1
    r2 = r2
    r3 = r3
    None = None
    Names = {old, newbie, n1, n2}
    Members = {old, newbie}
    Codes = {c1, c2}
    FirstInviter <- MCFirstInviter
    FirstYoung = {newbie}
    Requests = {r1, r2, r3}
    Workload <- MCWorkload
    Watched = {newbie}
    Tries = 2
SPECIFICATION FairSpec
INVARIANTS
    TypeOK
    InvitationMatchesAccount
    CodesAreHandedOutOnce
    InvitersAreEntitled
PROPERTIES
    ConflictsAreReal
    AccountsAreKept
    RequestsAreAnswered
