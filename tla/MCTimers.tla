------------------------------ MODULE MCTimers ------------------------------
(***************************************************************************)
(* The instance of the timers, their alarms and the delayed messages that  *)
(* TLC checks, in parts that stay small: "focus" has the main window focus *)
(* against one timer, "management" the operations that end a grant or an   *)
(* activation, "rivals" two timers that compete for the sound and the      *)
(* mailbox with each other and with messages that have no timer, "delayed" *)
(* the delayed messages.  A part leaves the others' state as it was.       *)
(***************************************************************************)
EXTENDS AlarmProperties, DelayedMessages

CONSTANT One     \* the plugin of the parts with one timer
VARIABLE part

MCInit ==
    /\ AlarmInit /\ DelayedInit
    /\ part \in {"focus", "management", "rivals", "delayed"}

Workers == TimerWorker \/ AttentionWorker \/ ApplyEffect \/ EmergencyStop

FocusPart ==
    \/ Activate(One) /\ activation = 0
    \/ WindowTimerStart(One) \/ WindowTimerReset(One)
    \/ \E focused \in BOOLEAN : ObserveMainFocus(focused)
    \/ Workers
ManagementPart ==
    \/ WindowTimerStart(One) \/ WindowTimerStop(One)
    \/ ManagementOps(One)
    \/ Workers
RivalsPart ==
    \/ \E p \in Plugins : Activate(p) /\ active[p] = 0
    \/ \E p \in Plugins : WindowTimerStart(p)
    \/ WindowTimerReset(One) \/ PublishOrdinary
    \/ Workers

Alarms ==
    /\ \/ part = "focus" /\ FocusPart
       \/ part = "management" /\ ManagementPart
       \/ part = "rivals" /\ RivalsPart
    /\ UNCHANGED delayedVars
Delayed == part = "delayed" /\ DelayedNext /\ UNCHANGED alarmVars

MCNext == (Alarms \/ Delayed) /\ UNCHANGED part
MCVars == <<alarmVars, delayedVars, part>>
MCFairSpec == MCInit /\ [][MCNext]_MCVars /\ AlarmFairness
=============================================================================
