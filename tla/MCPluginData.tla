---------------------------- MODULE MCPluginData ----------------------------
(***************************************************************************)
(* Model-checking instance: what the host keeps of a plugin, in parts that *)
(* share nothing.  "grants": two management operations at a time on one     *)
(* plugin against the observer.  "shared": one at a time, two plugins.     *)
(* "copies": the host's own writes to the clipboard, beside the observer   *)
(* of a plugin granted once.  "cleanup": installs, uninstalls, crashes.    *)
(***************************************************************************)
EXTENDS SelectionCopy, UninstallCleanup

CONSTANTS Parts, MaxGrants, MaxOtherCopies, FirstPlugin, FirstManager, FirstObserver

VARIABLES part, grants

mcVars == <<part, grants, clipboardVars, cleanupVars>>

MCInit == part \in Parts /\ grants = 0 /\ HistoryInit /\ CopyInit /\ CleanupInit

\* Configuration changes are bounded, and the writes of other applications.
CountsGrants(max) ==
    /\ grants' = grants + Cardinality({m \in Managers : Idle(m) /\ ~Idle(m)'})
    /\ grants' <= max

OnlyFirstPlugin == granted' \subseteq {FirstPlugin}
                   /\ \A m \in Managers : manager'[m].erases \in {None, FirstPlugin}
OnlyFirstManager == \A m \in Managers \ {FirstManager} : Idle(m)'
OnlyFirstObserver == \A o \in Observers \ {FirstObserver} : observer'[o] = NoThread

GrantsStep ==
    /\ HistoryNext
    /\ CountsGrants(MaxGrants)
    /\ clip'.seq <= MaxOtherCopies
    /\ OnlyFirstPlugin

SharedStep ==
    /\ HistoryNext
    /\ CountsGrants(MaxGrants)
    /\ clip'.seq <= MaxOtherCopies + 1
    /\ OnlyFirstManager

CopiesStep ==
    /\ CopyNext
    /\ CountsGrants(1)
    /\ OnlyFirstPlugin /\ OnlyFirstManager /\ OnlyFirstObserver

MCNext ==
    /\ UNCHANGED part
    /\ \/ part = "grants" /\ GrantsStep /\ UNCHANGED <<copyVars, cleanupVars>>
       \/ part = "shared" /\ SharedStep /\ UNCHANGED <<copyVars, cleanupVars>>
       \/ part = "copies" /\ CopiesStep /\ UNCHANGED cleanupVars
       \/ part = "cleanup" /\ CleanupNext /\ UNCHANGED <<grants, clipboardVars>>

MCSpec == MCInit /\ [][MCNext]_mcVars
MCFairSpec == MCSpec /\ HistoryFairness
=============================================================================
