\* Violated: one plugin's failed rebuild leaves another rebuilding.
SPECIFICATION FairSpec
CONSTANTS
    None = None
    Plugins = {p1, p2}
    ResultPlugins = {}
    Requests = {1, 2}
    Tokens = {1, 2, 3, 4, 5, 6, 7}
    MaxRetained = 2
    Watchers = {w1, w2}
    Ops <- WatchdogOps
    MaxGen = 3
    MaxInc = 4
PROPERTIES
    RebuildingEnds
CHECK_DEADLOCK FALSE
