SPECIFICATION MCFairSpec
CONSTANTS
    None = None
    Plugins = {p1, p2}
    Managers = {m1, m2}
    Observers = {o1, o2}
    FirstPlugin = p1
    FirstManager = m1
    FirstObserver = o1
    MaxSeq = 6
    MaxExcluded = 2
    MaxCommits = 3
    StaleTokens = FALSE
    Parts = {"grants", "shared", "copies", "cleanup"}
    MaxGrants = 3
    MaxOtherCopies = 2
INVARIANTS
    AuthorizationFollows
    ObserverAccounted
    TemporaryNotRecorded
    ErasedIsGone
    PackageKept
PROPERTIES
    RefreshReturns
    UserCopyKept
    OnlyErasedDeleted
CHECK_DEADLOCK FALSE
