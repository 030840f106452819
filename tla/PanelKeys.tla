------------------------------ MODULE PanelKeys ------------------------------
(***************************************************************************)
(* Keys that the launcher passes on to the page of the panel (the          *)
(* HostKeyRouteState of plugin_panel.rs).  The launcher numbers the keys   *)
(* it sends for a session and sends one at a time.  A pump thread, started *)
(* when none is said to run, takes the next key of whatever session lives, *)
(* hands it to the page and waits for the acknowledgement.  A pump may     *)
(* outlive its session and meet the pump of the next one.                  *)
(*                                                                         *)
(* Native calls may fail; the page may answer late or never.  A key is its *)
(* route sequence, and panel.flight the key of in_flight.  Pasting on      *)
(* Enter and which chords a plugin declares are left out, and so are       *)
(* notifications that wake a submission only to make it sleep again.       *)
(* Bounds: MaxKeys keys sent to a session, KeyCapacity (8 in the code),    *)
(* and the identifiers in Pumps.                                           *)
(***************************************************************************)
EXTENDS PanelSubmissions

CONSTANTS MaxKeys, KeyCapacity, Pumps

VARIABLE pump   \* pump threads: what they do, and the session and key they carry

keyVars == <<submissionVars, pump>>

NoPump == [step |-> "rest", epoch |-> 0, key |-> NoKey]
KeysInit == pump = [p \in Pumps |-> NoPump]

PumpTo(p, step) == pump' = [pump EXCEPT ![p].step = step]
PumpEnds(p) == pump' = [pump EXCEPT ![p] = NoPump]

\* in_flight.ticket is the pump's own, in one of the phases.
Owns(p) == InSession(pump[p].epoch) /\ panel.flight # NoKey /\ panel.flight = pump[p].key
Carries(p, phases) == Owns(p) /\ panel.key \in phases
SameSession == UNCHANGED <<panels, hideVars, hostFocus, panelMain, dormant, ask>>

\* disarm_host_key_route: only a new session takes keys again.
Disarmed ==
    [panel EXCEPT !.armed = FALSE, !.queue = <<>>, !.pumping = FALSE,
                  !.key = IF panel.flight = NoKey THEN @ ELSE "Cancelled"]

-----------------------------------------------------------------------------
(* The launcher *)

\* enqueue_host_key for the next key the launcher sends, on the main thread: only
\* while the page is Ready, in sequence, and while there is room.
Sent == panel.pressed + 1
Routed == panel.phase = "Ready" /\ panel.armed
InSequence == Routed /\ Sent = panel.expected

DropKey ==
    /\ ~Routed /\ panel' = [panel EXCEPT !.pressed = Sent]
    /\ UNCHANGED <<pump, panelMain>>
DropKeyWhenFull ==
    /\ InSequence /\ Len(panel.queue) = KeyCapacity
    /\ panel' = [panel EXCEPT !.pressed = Sent, !.expected = @ + 1]
    /\ UNCHANGED <<pump, panelMain>>
QueueKey ==
    /\ InSequence /\ Len(panel.queue) < KeyCapacity
    /\ panel' = [panel EXCEPT !.pressed = Sent, !.expected = @ + 1, !.next = @ + 1,
                              !.queue = Append(@, panel.next), !.pumping = TRUE]
    /\ IF panel.pumping THEN UNCHANGED pump
       ELSE \E p \in {q \in Pumps : pump[q] = NoPump} :
                pump' = [pump EXCEPT ![p].step = "claim"]
    /\ UNCHANGED panelMain

\* A number that was skipped disarms the route; the same command then hides the
\* launcher (or fails to).
RefuseKey ==
    /\ Routed /\ Sent > panel.expected
    /\ \/ panel' = NoPanel /\ panelMain' = <<"hiding">>
       \/ panel' = [Disarmed EXCEPT !.pressed = Sent] /\ UNCHANGED panelMain
    /\ UNCHANGED pump

PressKey ==
    /\ HasPanel /\ panel.opening = "open" /\ PanelMainIdle /\ panel.pressed < MaxKeys
    /\ DropKey \/ DropKeyWhenFull \/ QueueKey \/ RefuseKey
    /\ IF panel' = NoPanel THEN hideTicket' = NoHide /\ hostFocus' = NoFocus /\ WakePanel
       ELSE UNCHANGED <<hideTicket, hostFocus, dormant>>
    /\ UNCHANGED <<panels, hideIds, hideTimers, hides, ask>>

-----------------------------------------------------------------------------
(* A pump *)

\* Fault: a pump that finds no key forgets to say that it leaves.
LeaveSilently(p) ==
    /\ pump[p].step = "claim"
    /\ \/ /\ HasPanel /\ panel.armed /\ panel.flight = NoKey /\ panel.queue # <<>>
          /\ panel' = [panel EXCEPT !.queue = Tail(@), !.flight = Head(panel.queue), !.key = "Prepared"]
          /\ pump' = [pump EXCEPT ![p] = [step |-> "focus", epoch |-> panel.epoch, key |-> Head(panel.queue)]]
       \/ /\ ~(HasPanel /\ panel.armed /\ panel.flight = NoKey /\ panel.queue # <<>>)
          /\ PumpEnds(p) /\ UNCHANGED panel
    /\ SameSession

\* Fault: the next key is taken while another pump still delivers one.
ClaimOverFlight(p) ==
    /\ pump[p].step = "claim"
    /\ \/ /\ HasPanel /\ panel.armed /\ panel.queue # <<>>
          /\ panel' = [panel EXCEPT !.queue = Tail(@), !.flight = Head(panel.queue), !.key = "Prepared"]
          /\ pump' = [pump EXCEPT ![p] = [step |-> "focus", epoch |-> panel.epoch, key |-> Head(panel.queue)]]
       \/ /\ ~(HasPanel /\ panel.armed /\ panel.queue # <<>>)
          /\ panel' = IF HasPanel THEN [panel EXCEPT !.pumping = FALSE] ELSE panel
          /\ PumpEnds(p)
    /\ SameSession

\* claim_next_host_key, of the session that lives now.
ClaimKey(p) ==
    /\ pump[p].step = "claim"
    /\ \/ /\ HasPanel /\ panel.armed /\ panel.flight = NoKey /\ panel.queue # <<>>
          /\ panel' = [panel EXCEPT !.queue = Tail(@), !.flight = Head(panel.queue), !.key = "Prepared"]
          /\ pump' = [pump EXCEPT ![p] = [step |-> "focus", epoch |-> panel.epoch, key |-> Head(panel.queue)]]
       \/ /\ HasPanel /\ panel.armed /\ panel.flight = NoKey /\ panel.queue = <<>>
          /\ panel' = [panel EXCEPT !.pumping = FALSE] /\ PumpEnds(p)
       \/ /\ ~(HasPanel /\ panel.armed /\ panel.flight = NoKey)
          /\ PumpEnds(p) /\ UNCHANGED panel
    /\ SameSession

\* The page gets the native focus; mark_host_key_ready_to_deliver.
FocusPage(p) ==
    /\ pump[p].step = "focus"
    /\ \/ /\ Carries(p, {"Prepared"}) /\ panel' = [panel EXCEPT !.key = "ReadyToDeliver"]
          /\ PumpTo(p, "send")
       \/ PumpTo(p, "failed") /\ UNCHANGED panel
    /\ SameSession

\* eval: the page of the pump's own session gets the key.
SendKey(p) ==
    /\ pump[p].step = "send"
    /\ \/ /\ panel' = IF InSession(pump[p].epoch) THEN [panel EXCEPT !.got = Append(@, pump[p].key)] ELSE panel
          /\ PumpTo(p, "sent")
       \/ PumpTo(p, "failed") /\ UNCHANGED panel
    /\ SameSession

\* mark_host_key_delivered: the page may have answered already.
MarkDelivered(p) ==
    /\ pump[p].step = "sent"
    /\ \/ /\ Carries(p, {"ReadyToDeliver"}) /\ panel' = [panel EXCEPT !.key = "Delivered"]
          /\ PumpTo(p, "waiting")
       \/ Carries(p, {"Accomplished"}) /\ PumpTo(p, "waiting") /\ UNCHANGED panel
       \/ ~Carries(p, {"ReadyToDeliver", "Accomplished"}) /\ PumpTo(p, "failed") /\ UNCHANGED panel
    /\ SameSession

\* The handler of the page is done with the key in flight.
PageAcksKey ==
    /\ HasPanel /\ PanelMainIdle /\ panel.flight # NoKey
    /\ panel.key \in {"ReadyToDeliver", "Delivered"}
    /\ panel.got # <<>> /\ panel.got[Len(panel.got)] = panel.flight
    /\ panel' = [panel EXCEPT !.key = "Accomplished"]
    /\ UNCHANGED pump /\ SameSession

\* wait_host_key_ack: acknowledged, over after 2 s, or no longer this key.
AwaitKeyAck(p) ==
    /\ pump[p].step = "waiting"
    /\ \/ /\ Carries(p, {"Accomplished"})
          /\ panel' = [panel EXCEPT !.flight = NoKey, !.key = "none"]
          /\ PumpTo(p, "claim")
       \/ Carries(p, {"Delivered"}) /\ panel' = Disarmed /\ PumpTo(p, "failed")
       \/ ~Carries(p, {"Accomplished", "Delivered"}) /\ PumpEnds(p) /\ UNCHANGED panel
    /\ SameSession

\* fail_host_key_delivery and the hide that ends a session whose page fails.
FailKey(p) ==
    /\ pump[p].step = "failed" /\ PumpEnds(p)
    /\ \/ /\ Owns(p) /\ panel' = Disarmed
          /\ hides' = Append(hides, Terminal) \/ UNCHANGED hides
       \/ ~Owns(p) /\ UNCHANGED <<panel, hides>>
    /\ UNCHANGED <<panels, hideTicket, hideIds, hideTimers, hostFocus, panelMain, dormant, ask>>

PumpStep(p) ==
    \/ ClaimKey(p) \/ FocusPage(p) \/ SendKey(p) \/ MarkDelivered(p) \/ AwaitKeyAck(p) \/ FailKey(p)
KeysNext == PressKey \/ PageAcksKey \/ \E p \in Pumps : PumpStep(p)
=============================================================================
