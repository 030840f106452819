\* Violated: a prepared command outlives a purge.
SPECIFICATION Spec
CONSTANTS
    None = None
    Plugins = {p1}
    ResultPlugins = {}
    Requests = {1}
    Tokens = {1, 2, 3, 4, 5}
    MaxRetained = 2
    Watchers = {w1}
    Ops <- PurgeOps
    MaxGen = 3
    MaxInc = 4
INVARIANTS
    ActivationNeverRefused
CHECK_DEADLOCK FALSE
