CONSTANTS
    adm = adm
    usr = usr
    p = p
    q = q
    sAdm = sAdm
    sUsr = sUsr
    r1 = r1
    r2 = r2
    r3 = r3
    a = a
    b = b
    c = c
    None = None
    Users = {adm, usr}
    Admins = {adm}
    LongNames = {}
    Passwords = {p, q}
    Acceptable = {p, q}
    NamePassword <- MCNamePassword
    FirstPassword <- MCFirstPassword
    FirstMuted = {}
    Requests = {r1, r2, r3}
    Workload <- MCWorkload
    OldSessions = {sAdm, sUsr}
    SessionOwner <- MCSessionOwner
    TokenLife = 1
    MaxTime = 1
    Avatars = {a, b, c}
    FirstAvatar = a
    Folded <- MCFolded
    Interval = 1
    Doing <- MCDoing
SPECIFICATION FairMembersSpec
INVARIANTS
    MembersTypeOK
    TokenBindsPassword
    LoggedOutStaysOut
    SupersededStaysOut
PROPERTIES
    PasswordWritesAreOwned
    ManagementIsAuthorised
    ImplementsSessions
    MembersAreAnswered
    AvatarLimitIsExact
