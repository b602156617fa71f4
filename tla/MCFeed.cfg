CONSTANTS
    ann = ann
    adm = adm
    s = s
    t = t
    r1 = r1
    r2 = r2
    d1 = d1
    None = None
    Absent = Absent
    Malformed = Malformed
    MaxInt = 9
    Users = {ann, adm}
    Admins = {adm}
    PostIds = {1, 2, 3}
    FirstPosts = {1, 2}
    FirstRow <- MCFirstRow
    Texts = {s, t}
    Durations = {1}
    Permanent = 9
    Requests = {r1, r2}
    Workload <- MCWorkload
    Mutable = {ann}
    MaxTime = 1
    Readers = {d1}
    Opened <- MCOpened
    Keyword = s
    ListLimits <- MCListLimits
    SearchLimits <- MCSearchLimits
    Sizes = {1, 2}
    HotLimit = 1
SPECIFICATION FeedSpec
CHECK_DEADLOCK FALSE
INVARIANTS
    FeedTypeOK
    PrivateIsNotPinned
    NothingHiddenIsShown
    EachGapHasItsCause
    OffersAreHonoured
PROPERTIES
    SearchesEndWhole
    ColumnsHaveOwners
    DeletedIsFinal
    AnswersAreTrue
