\* Violated: a key that finds the page busy leaves a hole in the numbers of the keys.
SPECIFICATION MCSpec
CONSTANTS
    Parts = {"keys"}
    None = None
    Plugins = {p1, p2}
    Changed = p1
    Requests = {1, 2}
    Tokens = {1, 2}
    MaxRetained = 0
    MaxCalls = 2
    MaxConcurrent = 2
    MaxHostWide = 2
    Calls = {1, 2, 3}
    MaxGen = 2
    MaxInc = 3
    MaxPanels = 2
    MaxHides = 2
    PanelRequests = {a, b, c}
    Keyed = a
    MaxKeys = 3
    KeyCapacity = 2
    Pumps = {1, 2}
    FocusRequests = {f, g}
PROPERTIES
    LegalKeysAccepted
CHECK_DEADLOCK FALSE
