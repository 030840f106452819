---------------------------- MODULE PanelSession ----------------------------
(***************************************************************************)
(* The session of the plugin panel inside the launcher (ControllerCore in  *)
(* plugin_panel.rs) and the tickets by which its page hides the launcher.  *)
(*                                                                         *)
(* One session lives at a time.  A blocking worker opens it; synchronous   *)
(* commands, native events, hiding and showing run on the main thread; a   *)
(* timer thread is started for every phase of a hide ticket.  Hiding is    *)
(* two critical sections, and the other threads run between them.          *)
(*                                                                         *)
(* A worker whose session was replaced can only tear down its own epoch,   *)
(* which is gone: it is left out.  So are the native page and its focus,   *)
(* images, effects and sharing.  Tickets carry no epoch: every end of a    *)
(* session drops them, and their numbers are never used again.             *)
(* Bounds: MaxPanels sessions, MaxHides tickets.                           *)
(***************************************************************************)
EXTENDS Naturals, Sequences

CONSTANTS MaxPanels, MaxHides

VARIABLES
    panel,      \* ControllerCore::session: LiveSession or NoPanel
    panels,     \* next_epoch
    hideTicket, \* hide_ticket, or NoHide
    hideIds,    \* next_hide_ticket_id
    hideTimers, \* fallback timers: the ticket and the phase they expect
    hides,      \* hides queued for the main thread: their ticket, or Terminal
    hostFocus,  \* host_input_focus: the ticket of a request, or NoFocus
    panelMain,  \* what the main thread is in the middle of
    dormant     \* submissions that sleep on the condition variable

sessionVars == <<panel, panels, hideTicket, hideIds, hideTimers, hides, hostFocus, panelMain, dormant>>
hideVars == <<hideTicket, hideIds, hideTimers, hides>>

NoPanel == [epoch |-> 0]
NoHide == [id |-> 0]
NoFocus == [phase |-> "none"]
NoKey == 0
NoRequest == "nobody"
Terminal == 0
HasPanel == panel # NoPanel
InSession(n) == HasPanel /\ panel.epoch = n
PanelMainIdle == panelMain = <<"idle">>

SessionInit ==
    /\ panel = NoPanel /\ panels = 0
    /\ hideTicket = NoHide /\ hideIds = 0 /\ hideTimers = {} /\ hides = <<>>
    /\ hostFocus = NoFocus /\ panelMain = <<"idle">> /\ dormant = {}

\* A new LiveSession with its host key route.  newest, pressed and got are
\* history: the last submission, the keys sent by the launcher, and the keys that
\* reached the page.
NewPanel(n) ==
    [epoch |-> n, phase |-> "AwaitingReady", opening |-> "mounting",
     current |-> NoRequest, pending |-> NoRequest, notified |-> NoRequest,
     armed |-> FALSE, expected |-> 1, next |-> 1, queue |-> <<>>,
     flight |-> NoKey, key |-> "none", pumping |-> FALSE,
     newest |-> NoRequest, pressed |-> 0, got |-> <<>>]

\* changed.notify_all.
WakePanel == dormant' = {}

\* The session and its tickets go together: teardown_session, teardown_current,
\* teardown_plugin, teardown_generation.
EndPanel == panel' = NoPanel /\ hideTicket' = NoHide /\ hostFocus' = NoFocus /\ WakePanel

-----------------------------------------------------------------------------
(* Opening and closing *)

\* replace_session: the session of another panel ends without a word.
OpenPanel ==
    /\ panels < MaxPanels
    /\ panels' = panels + 1 /\ panel' = NewPanel(panels + 1)
    /\ hideTicket' = NoHide /\ hostFocus' = NoFocus /\ WakePanel
    /\ UNCHANGED <<hideIds, hideTimers, hides, panelMain>>

\* The page announces itself once its document has run.
PanelReady ==
    /\ HasPanel /\ panel.phase = "AwaitingReady" /\ PanelMainIdle
    /\ panel' = [panel EXCEPT !.phase = "Ready", !.armed = TRUE]
    /\ WakePanel
    /\ UNCHANGED <<panels, hideVars, hostFocus, panelMain>>

\* The mounting worker sees the page ready; then the launcher gets the focus back.
Mounted ==
    /\ HasPanel
    /\ \/ panel.opening = "mounting" /\ panel.phase = "Ready"
          /\ panel' = [panel EXCEPT !.opening = "focusing"]
       \/ panel.opening = "focusing" /\ panel' = [panel EXCEPT !.opening = "open"]
    /\ UNCHANGED <<panels, hideVars, hostFocus, panelMain, dormant>>

\* The session ends alone: the mount fails or takes too long, the focus cannot be
\* given back, the launcher closes the panel, its plugin goes, its page fails.
PanelEnds ==
    /\ HasPanel /\ EndPanel
    /\ UNCHANGED <<panels, hideIds, hideTimers, hides, panelMain>>

\* clear_and_hide_window on the main thread: the native hide may fail; otherwise
\* the session is torn down first and host_hidden follows.
HideHostFor(t) ==
    /\ PanelMainIdle
    /\ \/ /\ panelMain' = <<"hiding">>
          /\ IF HasPanel THEN EndPanel ELSE UNCHANGED <<panel, hideTicket, hostFocus, dormant>>
       \/ /\ hideTicket' = IF hideTicket.id = t /\ t # Terminal THEN NoHide ELSE hideTicket
          /\ UNCHANGED <<panel, hostFocus, panelMain, dormant>>

\* The launcher, a shortcut or a blur hides the window.
HideHost == HideHostFor(Terminal) /\ UNCHANGED <<panels, hideIds, hideTimers, hides>>

HostHidden ==
    /\ panelMain = <<"hiding">> /\ panelMain' = <<"idle">>
    /\ EndPanel
    /\ UNCHANGED <<panels, hideIds, hideTimers, hides>>

\* host_shown: the tickets go, a session that was not hidden stays.
ShowHost ==
    /\ PanelMainIdle
    /\ hideTicket' = NoHide /\ hostFocus' = NoFocus /\ WakePanel
    /\ UNCHANGED <<panel, panels, hideIds, hideTimers, hides, panelMain>>

-----------------------------------------------------------------------------
(* Hide tickets *)

\* requestHide() of the page: one ticket per session at a time, reclaimed after
\* 30 s if the page never sees its answer.
AdmitHide ==
    /\ HasPanel /\ PanelMainIdle /\ hideTicket = NoHide /\ hideIds < MaxHides
    /\ hideIds' = hideIds + 1
    /\ hideTicket' = [id |-> hideIds + 1, phase |-> "Admitted"]
    /\ hideTimers' = hideTimers \cup {[id |-> hideIds + 1, phase |-> "Admitted"]}
    /\ UNCHANGED <<panel, panels, hides, hostFocus, panelMain, dormant>>

\* Fault: the page saw the answer, but nobody reclaims a ticket it never commits.
ObserveUntimed ==
    /\ PanelMainIdle /\ hideTicket # NoHide /\ hideTicket.phase = "Admitted"
    /\ hideTicket' = [hideTicket EXCEPT !.phase = "Observed"]
    /\ UNCHANGED <<panel, panels, hideIds, hideTimers, hides, hostFocus, panelMain, dormant>>

\* The page has seen the answer: from now on 500 ms are enough.
ObserveHide ==
    /\ PanelMainIdle /\ hideTicket # NoHide /\ hideTicket.phase = "Admitted"
    /\ hideTicket' = [hideTicket EXCEPT !.phase = "Observed"]
    /\ hideTimers' = hideTimers \cup {[id |-> hideTicket.id, phase |-> "Observed"]}
    /\ UNCHANGED <<panel, panels, hideIds, hides, hostFocus, panelMain, dormant>>

\* Committed by one claim; scheduling on the main thread may fail and frees it.
ScheduleHide ==
    \/ /\ hideTicket' = [hideTicket EXCEPT !.phase = "Committed"]
       /\ hides' = Append(hides, hideTicket.id)
    \/ hideTicket' = NoHide /\ UNCHANGED hides

CommitHide ==
    /\ PanelMainIdle /\ hideTicket # NoHide /\ hideTicket.phase # "Committed"
    /\ ScheduleHide
    /\ UNCHANGED <<panel, panels, hideIds, hideTimers, hostFocus, panelMain, dormant>>

\* A timer accepts only the phase it was started for.
HideTimer(t) ==
    /\ t \in hideTimers /\ hideTimers' = hideTimers \ {t}
    /\ IF hideTicket = t THEN ScheduleHide ELSE UNCHANGED <<hideTicket, hides>>
    /\ UNCHANGED <<panel, panels, hideIds, hostFocus, panelMain, dormant>>

\* A queued hide hides whatever the launcher shows when its turn comes.
RunHide ==
    /\ hides # <<>>
    /\ HideHostFor(Head(hides)) /\ hides' = Tail(hides)
    /\ UNCHANGED <<panels, hideIds, hideTimers>>

SessionNext ==
    \/ OpenPanel \/ PanelReady \/ Mounted \/ PanelEnds \/ HideHost \/ HostHidden \/ ShowHost
HideNext ==
    \/ AdmitHide \/ ObserveHide \/ CommitHide \/ RunHide
    \/ \E t \in hideTimers : HideTimer(t)
HideFairness ==
    /\ WF_sessionVars(RunHide) /\ WF_sessionVars(HostHidden)
    /\ \A t \in [id : 1..MaxHides, phase : {"Admitted", "Observed"}] : WF_sessionVars(HideTimer(t))
=============================================================================
