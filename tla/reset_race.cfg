\* A cancellation between the admission of an alarm and the reservation of its sound.
SPECIFICATION MCFairSpec
CONSTANTS
    None = None
    Absent = Absent
    Plugins = {p1, p2}
    One = p1
    OrdinaryCapacity = 1
    KeyCapacity = 2
    FocusCapacity = 2
    MaxRuns = 2
    MaxRevision = 4
    MaxActivation = 2
    MaxEpoch = 2
    Senders = {p1}
    MaxPending = 2
    MaxMessages = 3
    MaxEras = 2
INVARIANT CancelledAlarmSilent
CHECK_DEADLOCK FALSE
