------------------------------ MODULE MCWindows ------------------------------
(***************************************************************************)
(* The instance of PluginWindows that TLC checks, in two parts: "handoff"  *)
(* has two submissions that want the window of the plugin at the same      *)
(* time, "callbacks" one submission with every event of its window, its    *)
(* file picker, and the removals on both threads.                          *)
(***************************************************************************)
EXTENDS WindowProperties

CONSTANT First     \* the submission of the part with one
VARIABLE part

MCInit == WindowsInit /\ part \in {"handoff", "callbacks"}

HandoffPart ==
    \/ \E s \in Submissions : Answer(s) \/ BeginCommit(s) \/ Work(s) \/ ContentAck(s)
    \/ ContentReady \/ BeginCall \/ CloseRequested \/ Close \/ Navigate
    \/ ObserveFocus(TRUE)
    \/ \E d \in destroyed : HandleDestroyed(d)
    \/ Main
CallbacksPart ==
    \/ Answer(First) \/ BeginCommit(First) \/ Work(First)
    \/ FindTransfer \/ Page \/ HostEvents \/ Picker \/ Main
    \/ \E t \in {"main", "disabling"} : DisableWindow(t)
    \/ CloseSteps("disabling")

MCNext ==
    /\ \/ part = "handoff" /\ HandoffPart
       \/ part = "callbacks" /\ CallbacksPart
    /\ UNCHANGED part
MCSpec == MCInit /\ [][MCNext]_<<windowVars, part>>
MCFairSpec == MCSpec /\ WindowsFairness
=============================================================================
