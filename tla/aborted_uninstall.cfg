\* Violated: an uninstall aborted after a timeout.
SPECIFICATION Spec
CONSTANTS
    None = None
    Plugins = {p1}
    ResultPlugins = {}
    Requests = {1}
    Tokens = {1, 2, 3, 4, 5}
    MaxRetained = 2
    Watchers = {w1}
    Ops <- AbortOps
    MaxGen = 3
    MaxInc = 3
INVARIANTS
    IdentityAgrees
CHECK_DEADLOCK FALSE
