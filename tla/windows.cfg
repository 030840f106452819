\* Two submissions that want the window of a plugin, then one with all its events.
SPECIFICATION MCFairSpec
CONSTANTS
    Submissions = {s1, s2}
    First = s1
    MaxVersion = 2
INVARIANTS
    LeasesExact
    HideOwnsSession
    PickerKeepsWindow
PROPERTIES
    ClosedStaysClosed
    NobodyWaitsForEver
CHECK_DEADLOCK FALSE
