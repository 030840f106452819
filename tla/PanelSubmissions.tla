--------------------------- MODULE PanelSubmissions ---------------------------
(***************************************************************************)
(* Submissions to the open panel (run_panel_submission in commands.rs and  *)
(* the dispatch and delivery of plugin_panel.rs).  A submission that finds *)
(* the page busy is kept in the session as the pending one; its worker     *)
(* sleeps until the page is free, the session ends or a newer submission   *)
(* has taken its place.  Requests of the Runtime end by themselves: the    *)
(* scheduler is RequestQueue.                                              *)
(*                                                                         *)
(* The launcher knows the session's epoch, and submits, once it is open.   *)
(* Claiming a delivery and sending it to the page are one step: a session  *)
(* that ends in between has no page.  Bound: each submission happens once. *)
(***************************************************************************)
EXTENDS PanelSession, FiniteSets

CONSTANT PanelRequests
ASSUME PanelAssumption == NoRequest \notin PanelRequests

VARIABLE ask   \* progress of each submission and the epoch it was sent to

submissionVars == <<sessionVars, ask>>

SubmissionsInit == ask = [s \in PanelRequests |-> [step |-> "unsent", epoch |-> 0]]

GoOn(s, step) == ask' = [ask EXCEPT ![s].step = step]
IsCurrent(s) == InSession(ask[s].epoch) /\ panel.current = s
SameTickets == UNCHANGED <<panels, hideVars, hostFocus, panelMain>>

\* Fault: a submission to a free page leaves the pending one where it is.
SubmitKeepingPending(s) ==
    /\ ask[s].step = "unsent" /\ HasPanel /\ panel.opening = "open"
    /\ IF panel.phase = "Ready"
       THEN /\ panel' = [panel EXCEPT !.current = s, !.newest = s]
            /\ ask' = [ask EXCEPT ![s] = [step |-> "free", epoch |-> panel.epoch]]
       ELSE /\ panel' = [panel EXCEPT !.pending = s, !.newest = s]
            /\ ask' = [ask EXCEPT ![s] = [step |-> "buffered", epoch |-> panel.epoch]]
    /\ dormant' = IF panel.phase = "Acknowledged" THEN dormant ELSE {}
    /\ SameTickets

\* queue_dispatch: the newest submission replaces a waiting one.  An open panel is
\* past AwaitingReady.
SubmitToPanel(s) ==
    /\ ask[s].step = "unsent" /\ HasPanel /\ panel.opening = "open"
    /\ \/ /\ panel.phase = "Ready"
          /\ panel' = [panel EXCEPT !.pending = NoRequest, !.current = s, !.newest = s]
          /\ ask' = [ask EXCEPT ![s] = [step |-> "free", epoch |-> panel.epoch]]
       \/ /\ panel.phase # "Ready"
          /\ panel' = [panel EXCEPT !.pending = s, !.newest = s]
          /\ ask' = [ask EXCEPT ![s] = [step |-> "buffered", epoch |-> panel.epoch]]
    /\ dormant' = IF panel.phase = "Acknowledged" THEN dormant ELSE {}
    /\ SameTickets

\* The scheduler takes the command under the lock of the panel, or refuses it.
Admitted(s) == GoOn(s, "working") \/ GoOn(s, "failed")

\* admit_current_dispatch: another submission may have come since.
AdmitFree(s) ==
    /\ ask[s].step = "free"
    /\ IF IsCurrent(s) /\ panel.phase = "Ready" THEN Admitted(s) ELSE GoOn(s, "ended")
    /\ UNCHANGED sessionVars

\* wait_until_dispatchable_and_admit, from one wait of the condition to the next.
AdmitBuffered(s) ==
    /\ ask[s].step = "buffered" /\ s \notin dormant
    /\ \/ /\ ~(InSession(ask[s].epoch) /\ panel.pending = s)
          /\ GoOn(s, "ended") /\ UNCHANGED sessionVars
       \/ /\ InSession(ask[s].epoch) /\ panel.pending = s /\ panel.phase = "Ready"
          /\ panel' = [panel EXCEPT !.pending = NoRequest, !.current = s]
          /\ Admitted(s)
          /\ IF ask'[s].step = "working" THEN WakePanel ELSE UNCHANGED dormant
          /\ SameTickets
       \/ /\ InSession(ask[s].epoch) /\ panel.pending = s /\ panel.phase # "Ready"
          /\ dormant' = dormant \cup {s}
          /\ UNCHANGED <<panel, ask>> /\ SameTickets

\* The Runtime answers, fails, or the request is dropped without an answer.
RuntimeEnds(s) ==
    /\ ask[s].step = "working"
    /\ GoOn(s, "answered") \/ GoOn(s, "failed") \/ GoOn(s, "ended")
    /\ UNCHANGED sessionVars

\* claim_delivery_settlement and the update for the page, which may not be sent.
DeliverUpdate(s) ==
    /\ ask[s].step = "answered"
    /\ \/ /\ IsCurrent(s) /\ panel.phase = "Ready"
          /\ panel' = [panel EXCEPT !.phase = "AwaitingAck"]
          /\ GoOn(s, "acking") \/ GoOn(s, "failed")
       \/ /\ ~(IsCurrent(s) /\ panel.phase = "Ready")
          /\ GoOn(s, "ended") /\ UNCHANGED panel
    /\ UNCHANGED dormant /\ SameTickets

\* The page has the update of s; its worker may have given up already.
PageAck(s) ==
    /\ ask[s].step \in {"acking", "expired"} /\ PanelMainIdle
    /\ IsCurrent(s) /\ panel.phase = "AwaitingAck"
    /\ panel' = [panel EXCEPT !.phase = "Acknowledged"]
    /\ WakePanel /\ UNCHANGED ask /\ SameTickets

\* wait_until_acked: the page is free again, or its 5 s are over.
FreePage(s) ==
    /\ ask[s].step = "acking"
    /\ \/ /\ ~IsCurrent(s) /\ GoOn(s, "ended") /\ UNCHANGED <<panel, dormant>>
       \/ /\ IsCurrent(s) /\ panel.phase = "Acknowledged"
          /\ panel' = [panel EXCEPT !.phase = "Ready"]
          /\ GoOn(s, "acked") /\ WakePanel
       \/ /\ IsCurrent(s) /\ panel.phase = "AwaitingAck"
          /\ GoOn(s, "expired") /\ UNCHANGED <<panel, dormant>>
    /\ SameTickets

\* publish_settled_ready: the page is told that this submission is complete, once
\* and only when no other one came meanwhile.
PublishReady(s) ==
    /\ ask[s].step = "acked"
    /\ \/ /\ IsCurrent(s) /\ panel.phase = "Ready" /\ panel.pending = NoRequest
          /\ panel' = [panel EXCEPT !.notified = s]
          /\ GoOn(s, "ended") \/ GoOn(s, "failed")
       \/ /\ ~(IsCurrent(s) /\ panel.phase = "Ready" /\ panel.pending = NoRequest)
          /\ GoOn(s, "ended") /\ UNCHANGED panel
    /\ UNCHANGED dormant /\ SameTickets

\* rollback_panel_submission: a failure ends the session it is still current in.
RollBack(s) ==
    /\ ask[s].step \in {"failed", "expired"} /\ GoOn(s, "ended")
    /\ IF IsCurrent(s) THEN EndPanel ELSE UNCHANGED <<panel, hideTicket, hostFocus, dormant>>
    /\ UNCHANGED <<panels, hideIds, hideTimers, hides, panelMain>>

SubmissionStep(s) ==
    \/ AdmitFree(s) \/ AdmitBuffered(s) \/ RuntimeEnds(s) \/ DeliverUpdate(s)
    \/ FreePage(s) \/ PublishReady(s) \/ RollBack(s)
SubmissionsNext == \E s \in PanelRequests : SubmitToPanel(s) \/ PageAck(s) \/ SubmissionStep(s)
SubmissionsFairness == \A s \in PanelRequests : WF_submissionVars(SubmissionStep(s))
=============================================================================
