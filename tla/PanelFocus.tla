----------------------------- MODULE PanelFocus -----------------------------
(***************************************************************************)
(* The page of the panel gives the focus back to the input of the launcher *)
(* (host_input_focus in plugin_panel.rs, plugin_panel_focus_host_input in  *)
(* commands.rs).  A request is served by two threads: its own, which waits *)
(* with a deadline for the start and then for the answer, and the main     *)
(* thread, which focuses the native window and asks the launcher's page to *)
(* focus the input.  A newer request, the end of the session and the       *)
(* deadline may all come in between.                                       *)
(*                                                                         *)
(* Whether the answer is Focused or Failed is left out, and with it the    *)
(* focus revisions.  Bound: each request happens once.                     *)
(***************************************************************************)
EXTENDS PanelKeys

CONSTANT FocusRequests

VARIABLES
    request,     \* what the thread of each request waits for
    starts,      \* requests whose start is queued for the main thread
    outcome,     \* HostInputFocusStart of each request, once it is sent
    asked,       \* requests the launcher's page was asked for, not answered yet
    settlements, \* host_input_focus_settlements
    claims       \* native_host_input_focus_claims

focusVars == <<keyVars, request, starts, outcome, asked, settlements, claims>>

FocusInit ==
    /\ request = [r \in FocusRequests |-> "unsent"]
    /\ outcome = [r \in FocusRequests |-> "none"]
    /\ starts = {} /\ asked = {} /\ settlements = {} /\ claims = {}

FocusOf(r, phases) == hostFocus.phase \in phases /\ hostFocus.request = r
FocusPhase(phase) == hostFocus' = [hostFocus EXCEPT !.phase = phase]
RequestTo(r, step) == request' = [request EXCEPT ![r] = step]
Unrelated == UNCHANGED <<panel, panels, hideVars, dormant, ask, pump>>

\* start_host_input_focus ends: the result is sent to the thread of the request,
\* whether or not it still listens.
StartEnds(r, result) ==
    /\ outcome' = [outcome EXCEPT ![r] = result]
    /\ panelMain' = <<"idle">>

\* cancel_host_input_focus.
CancelFocus(r) ==
    \/ r \in settlements /\ settlements' = settlements \ {r} /\ UNCHANGED hostFocus
    \/ /\ r \notin settlements /\ UNCHANGED settlements
       /\ hostFocus' = IF FocusOf(r, {"Prepared", "NativeClaimed", "AwaitingAck"}) THEN NoFocus ELSE hostFocus

-----------------------------------------------------------------------------
(* The thread of a request *)

\* prepare_host_input_focus supersedes an older request; the start is queued, or
\* cannot be and the request is cancelled.
PrepareFocus(r) ==
    /\ request[r] = "unsent" /\ HasPanel
    /\ hostFocus' = [request |-> r, phase |-> "Prepared"]
    /\ \/ RequestTo(r, "starting") /\ starts' = starts \cup {r}
       \/ RequestTo(r, "cancelling") /\ UNCHANGED starts
    /\ UNCHANGED <<panelMain, outcome, asked, settlements, claims>> /\ Unrelated

\* The start is known, or its deadline is over.
ReceiveStart(r) ==
    /\ request[r] = "starting"
    /\ \/ outcome[r] = "Noop" /\ RequestTo(r, "ended")
       \/ outcome[r] = "AwaitingAck" /\ RequestTo(r, "waiting")
       \/ outcome[r] \in {"Failed", "none"} /\ RequestTo(r, "cancelling")
    /\ UNCHANGED <<hostFocus, panelMain, starts, outcome, asked, settlements, claims>> /\ Unrelated

\* host_input_focus_failure.
GiveUpFocus(r) ==
    /\ request[r] = "cancelling" /\ RequestTo(r, "ended")
    /\ CancelFocus(r)
    /\ UNCHANGED <<panelMain, starts, outcome, asked, claims>> /\ Unrelated

\* wait_host_input_focus: answered, superseded, or over.
AwaitFocus(r) ==
    /\ request[r] = "waiting"
    /\ \/ r \in settlements /\ settlements' = settlements \ {r} /\ UNCHANGED hostFocus
       \/ /\ r \notin settlements /\ UNCHANGED settlements
          /\ hostFocus' = IF FocusOf(r, {"Prepared", "NativeClaimed", "AwaitingAck"}) THEN NoFocus ELSE hostFocus
    /\ RequestTo(r, "ended")
    /\ UNCHANGED <<panelMain, starts, outcome, asked, claims>> /\ Unrelated

-----------------------------------------------------------------------------
(* The main thread *)

\* claim_host_input_focus: superseded, over, or the native focus is due.
StartFocus(r) ==
    /\ r \in starts /\ PanelMainIdle /\ starts' = starts \ {r}
    /\ \/ ~FocusOf(r, {"Prepared"}) /\ StartEnds(r, "Noop") /\ UNCHANGED <<hostFocus, claims>>
       \/ /\ FocusOf(r, {"Prepared"}) /\ hostFocus' = NoFocus
          /\ StartEnds(r, "Failed") /\ UNCHANGED claims
       \/ /\ FocusOf(r, {"Prepared"}) /\ FocusPhase("NativeClaimed")
          /\ claims' = claims \cup {r} /\ panelMain' = <<"focusing", r>> /\ UNCHANGED outcome
    /\ UNCHANGED <<request, asked, settlements>> /\ Unrelated

\* The native focus failed (fail_native_host_input_focus) or is confirmed
\* (confirm_native_host_input_focus), for a request that may be gone or over.
ConfirmFocus(r) ==
    /\ panelMain = <<"focusing", r>> /\ claims' = claims \ {r}
    /\ \/ /\ ~FocusOf(r, {"NativeClaimed"}) /\ StartEnds(r, "Noop")
          /\ UNCHANGED <<hostFocus, settlements>>
       \/ /\ FocusOf(r, {"NativeClaimed"}) /\ hostFocus' = NoFocus
          /\ StartEnds(r, "Failed")
          /\ UNCHANGED settlements \/ settlements' = settlements \cup {r}
       \/ /\ FocusOf(r, {"NativeClaimed"}) /\ FocusPhase("AwaitingAck")
          /\ panelMain' = <<"asking", r>> /\ UNCHANGED <<outcome, settlements>>
    /\ UNCHANGED <<request, starts, asked>> /\ Unrelated

\* The launcher's page is asked to focus its input, if it can be.
AskLauncher(r) ==
    /\ panelMain = <<"asking", r>>
    /\ \/ /\ StartEnds(r, "AwaitingAck") /\ asked' = asked \cup {r}
          /\ UNCHANGED <<hostFocus, settlements>>
       \/ /\ CancelFocus(r) /\ UNCHANGED asked
          /\ StartEnds(r, IF hostFocus' # hostFocus \/ settlements' # settlements THEN "Failed" ELSE "Noop")
    /\ UNCHANGED <<request, starts, claims>> /\ Unrelated

\* ack_host_input_focus, by the launcher's page.
LauncherAcks(r) ==
    /\ r \in asked /\ PanelMainIdle /\ asked' = asked \ {r}
    /\ \/ FocusOf(r, {"AwaitingAck"}) /\ hostFocus' = NoFocus /\ settlements' = settlements \cup {r}
       \/ ~FocusOf(r, {"AwaitingAck"}) /\ UNCHANGED <<hostFocus, settlements>>
    /\ UNCHANGED <<panelMain, request, starts, outcome, claims>> /\ Unrelated

FocusNext ==
    \E r \in FocusRequests :
        \/ PrepareFocus(r) \/ ReceiveStart(r) \/ GiveUpFocus(r) \/ AwaitFocus(r)
        \/ StartFocus(r) \/ ConfirmFocus(r) \/ AskLauncher(r) \/ LauncherAcks(r)
=============================================================================
