\* Requests and their watchdogs: one plugin with content actions, one with result
\* actions, and both with two overlapping runs of expire_runtime_timeouts.
SPECIFICATION MCFairSpec
CONSTANTS
    None = None
    Plugins = {p1, p2}
    ResultPlugins = {p1}
    Plain = p2
    Listing = p1
    Requests = {1, 2, 3}
    Tokens = {1, 2, 3, 4, 5, 6, 7, 8, 9, 10}
    MaxRetained = 2
    Watchers = {w1, w2}
    First = w1
    Ops <- RequestOps
    Parts = {"content", "listing", "watchdog"}
    MaxGen = 5
    MaxInc = 6
INVARIANTS
    TypeOK
    QueueInv
    NewestWaits
    RebuildingHandled
    RebuildingRefuses
PROPERTIES
    ImplementsLifecycle
    AdmittedRequestsEnd
    RebuildingEndsUnlessAbandoned
CHECK_DEADLOCK FALSE
