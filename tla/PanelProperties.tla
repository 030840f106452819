--------------------------- MODULE PanelProperties ---------------------------
(***************************************************************************)
(* What the panel is checked for: which submission the page gets to see,   *)
(* how keys reach it, that nothing a thread must finish is left behind,    *)
(* and that every wait ends.                                               *)
(***************************************************************************)
EXTENDS PanelFocus

panelVars == focusVars
PanelInit == SessionInit /\ SubmissionsInit /\ KeysInit /\ FocusInit

\* All parts of the panel at once: one session with its submissions, keys, hides and
\* focus requests.
FocusAside == UNCHANGED <<request, starts, outcome, asked, settlements, claims>>
PanelNext ==
    \/ (SessionNext \/ HideNext) /\ UNCHANGED <<ask, pump>> /\ FocusAside
    \/ SubmissionsNext /\ UNCHANGED pump /\ FocusAside
    \/ KeysNext /\ FocusAside
    \/ FocusNext
PanelSpec == PanelInit /\ [][PanelNext]_panelVars

\* ACTION PROPERTY.  What a page is told to show, and what it is told is complete,
\* is always the newest submission to its session: answers of several workers come
\* in any order, and a pending submission changes places with newer ones while its
\* worker is not running (claim_delivery_settlement, publish_settled_ready).
NewestShown ==
    [][HasPanel /\ InSession(panels') /\ panel'.epoch = panel.epoch =>
        /\ panel'.phase = "AwaitingAck" /\ panel.phase # "AwaitingAck" => panel'.current = panel'.newest
        /\ panel'.notified # panel.notified => panel'.notified = panel'.newest]_panelVars

\* ACTION PROPERTY.  The keys of a session reach its page in the order they were
\* pressed, each one once, and the next one only after the page is done with the
\* one before, however many pumps are left over from earlier sessions
\* (claim_next_host_key, finish_host_key_ack_locked).
KeysInOrder ==
    [][HasPanel /\ panel'.epoch = panel.epoch /\ panel'.got # panel.got =>
        /\ panel'.got = Append(panel.got, Len(panel.got) + 1)
        /\ panel.flight = Len(panel.got) + 1]_panelVars

\* A key that waits has a pump that comes for it, and a key in flight a pump that
\* ends it: pump_running is told by pumps that do not know of each other.
KeysServed ==
    HasPanel /\ panel.armed =>
        /\ panel.queue # <<>> /\ panel.flight = NoKey => \E p \in Pumps : pump[p].step = "claim"
        /\ panel.flight # NoKey => \E p \in Pumps : Owns(p)

\* A committed hide waits for the main thread exactly once, whichever of the page
\* and the timers committed it.
HideQueuedOnce ==
    /\ hideTicket # NoHide /\ hideTicket.phase = "Committed"
          => \E i \in DOMAIN hides : hides[i] = hideTicket.id
    /\ \A i, j \in DOMAIN hides : hides[i] = hides[j] /\ hides[i] # Terminal => i = j

\* A focus ticket and an answer have a request that still takes them, a native
\* claim the main thread that ends it.
FocusSettled ==
    /\ hostFocus # NoFocus => request[hostFocus.request] \notin {"unsent", "ended"}
    /\ \A r \in settlements : request[r] \notin {"unsent", "ended"}
    /\ \A r \in claims : panelMain = <<"focusing", r>>

\* INVARIANT.  Nothing that a thread of the panel has to finish is left without
\* that thread: keys, committed hides, focus tickets and their answers outlive
\* sessions, and the threads that serve them give up at any time (start_host_key_pump,
\* schedule_committed_panel_hide, start_host_input_focus).
NothingForgotten == KeysServed /\ HideQueuedOnce /\ FocusSettled

\* LIVENESS.  Submissions to the panel end, and a hide the page was granted comes or
\* is given up, although the page may never answer: whoever frees the page or ends
\* the session wakes the sleeping submission, and a timer expects every phase of a
\* hide ticket (changed.wait in wait_until_dispatchable_and_admit).  There are only
\* so many submissions and tickets: each of them ends when all of them do.
PanelWaits == hideTicket # NoHide \/ \E s \in PanelRequests : ask[s].step \notin {"unsent", "ended"}
PanelWaitsEnd == PanelWaits ~> ~PanelWaits
PanelFairness == SubmissionsFairness /\ HideFairness

\* ACTION PROPERTY, as the design document has it: the launcher numbers the keys and
\* sends them one by one, so a legal stream never has a gap; no key ends the session
\* as a protocol violation (enqueue_host_key).
LegalKeysAccepted == [][~(PressKey /\ RefuseKey)]_panelVars
=============================================================================
