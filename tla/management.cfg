\* Management: changes against shown results, disable, enable, update and faults
\* against timeouts, uninstall and reinstall; one plugin with result actions, one without.
SPECIFICATION MCSpec
CONSTANTS
    None = None
    Plugins = {p1, p2}
    ResultPlugins = {p1}
    Plain = p2
    Listing = p1
    Requests = {1, 2, 3}
    Tokens = {1, 2, 3, 4, 5, 6, 7, 8, 9, 10}
    MaxRetained = 2
    Watchers = {w1}
    First = w1
    Ops <- ManagementOps
    Parts = {"results", "lifecycle", "uninstall"}
    MaxGen = 3
    MaxInc = 4
INVARIANTS
    RouteCurrent
    ClaimedOnce
    IdentityAgrees
    ActivationNeverRefused
    AdmittingQueuePublishes
CHECK_DEADLOCK FALSE
