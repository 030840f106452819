\* Two plugins competing for network slots, then every operation on one; the panel
\* with its submissions, its hide tickets, its keys and its focus requests.
SPECIFICATION MCSpec
CONSTANTS
    Parts = {"limits", "changes", "submits", "hides", "keys", "focus"}
    None = None
    Plugins = {p1, p2}
    Changed = p1
    Requests = {1, 2}
    Tokens = {1, 2}
    MaxRetained = 0
    MaxCalls = 2
    MaxConcurrent = 2
    MaxHostWide = 2
    Calls = {1, 2, 3}
    MaxGen = 2
    MaxInc = 3
    MaxPanels = 2
    MaxHides = 2
    PanelRequests = {a, b, c}
    Keyed = a
    MaxKeys = 3
    KeyCapacity = 2
    Pumps = {1, 2}
    FocusRequests = {f, g}
INVARIANTS
    SlotsExact
    ContextsOwned
    NothingForgotten
PROPERTIES
    ImplementsCallPolicy
    NewestShown
    KeysInOrder
    PanelWaitsEnd
CHECK_DEADLOCK FALSE
