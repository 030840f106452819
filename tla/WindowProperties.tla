--------------------------- MODULE WindowProperties ---------------------------
(***************************************************************************)
(* What PluginWindows is checked for: the leases that keep a session in    *)
(* place, what a closed session can no longer do, what a late native       *)
(* callback may hide, and that nobody waits for ever.                      *)
(***************************************************************************)
EXTENDS PluginWindows

HidingOps == {"hiding", "hidden", "notHidden"}
LeaseOps == {"call", "focus"} \cup HidingOps
LeaseHolders(n) == {t \in Threads : thread[t].op \in LeaseOps /\ thread[t].session = n}

\* INVARIANT.  in_flight is the number of calls and hides that are under way in
\* this very session: a hide sets it to 1 after its wait instead of counting, a
\* drop goes by the session's number, and one lease too many would block every
\* later submission and uninstall (begin_document_hide_checked, finish_window_call).
LeasesExact == HasWindow => window.leases = Cardinality(LeaseHolders(window.session))

\* INVARIANT.  From the admission of a document's hide to its last change the
\* session is the one it was admitted for, although native callbacks outlive
\* sessions and other threads replace and remove the window meanwhile: a late
\* blur or close never hides the window of a newer submission (hide_document).
HideOwnsSession == \A t \in Threads : thread[t].op \in HidingOps => IsSession(thread[t].session)

\* INVARIANT.  While the file dialog of a document is open, no blur hides its
\* window, whichever session has reused the document since (admit_file_open,
\* file_picker in begin_document_hide_checked).
PickerKeepsWindow ==
    \A t \in Threads : thread[t].op = "hiding" /\ thread[t].blurred => picking # thread[t].doc

\* ACTION PROPERTY.  A session that is closing or revoked never admits calls
\* again: neither a late commit nor a failed hide brings it back to life
\* (activate_timer_session, finish_timer_session_hide).
ClosedStaysClosed ==
    [][HasWindow /\ window.life \in {"closing", "revoked"} /\ window'.session = window.session
          => window'.life \in {"closing", "revoked"}]_windowVars

\* LIVENESS.  The main thread never stays in a handler, and a prepare or commit
\* that has begun ends when the page and the user leave the main thread at rest:
\* every wait for leases is woken when the last one goes, and no two waiters wait
\* for each other (changed.wait in plugin_window.rs).  A submission happens once:
\* each of them rests when all of them do.
SubmissionsRest ==
    \A s \in Submissions : sub[s].step \in {"unsent", "prepared", "committed", "failed"}
NobodyWaitsForEver ==
    /\ ~MainIdle ~> MainIdle
    /\ ~SubmissionsRest ~> (SubmissionsRest \/ ~MainIdle)
=============================================================================
