---------------------------- MODULE PluginWindows ----------------------------
(***************************************************************************)
(* The singleton window of one plugin (plugin_window.rs) and the transfer  *)
(* of the screen from the launcher to it (window_transfer.rs).             *)
(*                                                                         *)
(* A submission prepares the window on one blocking worker and, when the   *)
(* launcher asks for it, commits the transfer on another, each with waits  *)
(* in between; window calls, native events and closing run on the main     *)
(* thread, the file picker and disabling on threads of their own.  All of  *)
(* them share ControllerCore: a step is one critical section, together     *)
(* with the native call next to it when nothing can tell the two apart.    *)
(* A thread that must let short calls ("leases") end first closes the      *)
(* session and sleeps on the condition variable; asleep is who sleeps.     *)
(*                                                                         *)
(* Timeouts of the page may fire at any time and native calls may fail.    *)
(* The launcher front end, /find and the page are the environment.         *)
(* Bounds: each submission happens once; MaxVersion generations of the     *)
(* plugin.                                                                 *)
(***************************************************************************)
EXTENDS Naturals, FiniteSets

CONSTANTS Submissions, MaxVersion

VARIABLES
    window,    \* WindowState of the plugin
    sessions,  \* timer_session_generations: sessions given out
    documents, \* next_document
    version,   \* generation of the confirmed plugin
    picking,   \* the document whose picker is open (ControllerCore::file_picker), or 0
    transfer,  \* TransferCore::current
    shell,     \* the native shell window: its document and who created it
    launcher,  \* the main window is shown
    received,  \* submissions whose update the page has, not acknowledged yet
    destroyed, \* documents whose Destroyed event is not handled yet
    rechecks,  \* documents whose blur is rechecked after 50 ms
    sub,       \* progress of each submission
    thread,    \* progress of the main thread, the picker and the disabling thread
    asleep     \* threads that sleep on ControllerCore's condition variable

core == <<window, sessions, documents>>
native == <<shell, launcher, received, destroyed, rechecks>>
progress == <<sub, thread>>
windowVars == <<core, version, picking, transfer, native, progress, asleep>>

Threads == {"main", "picker", "disabling"}
Resting == [op |-> "rest", session |-> 0, doc |-> 0, blurred |-> FALSE]
NoWindow == [session |-> 0]
NoShell == [doc |-> 0]
NoTransfer == [owner |-> "none"]
HasWindow == window # NoWindow
HasShell == shell # NoShell

WindowsInit ==
    /\ window = NoWindow /\ sessions = 0 /\ documents = 0
    /\ version = 1 /\ picking = 0 /\ transfer = NoTransfer
    /\ shell = NoShell /\ launcher = TRUE
    /\ received = {} /\ destroyed = {} /\ rechecks = {}
    /\ sub = [s \in Submissions |-> [step |-> "unsent", gen |-> 0, session |-> 0, doc |-> 0,
                                     target |-> 0, handle |-> 0, back |-> TRUE]]
    /\ thread = [t \in Threads |-> Resting]
    /\ asleep = {}

-----------------------------------------------------------------------------
(* The session of the window *)

Leased == HasWindow /\ window.leases > 0
OwnedBy(s, phase) == HasWindow /\ window.owner = s /\ window.phase = phase
IsSession(n) == HasWindow /\ window.session = n
OfDocument(d) == HasWindow /\ window.doc = d

\* What every close, hide and removal does first: no call is admitted any more.
Closing == [window EXCEPT !.life = "closing", !.request = FALSE]
Revoked == [window EXCEPT !.life = "revoked", !.request = FALSE, !.focused = FALSE]
RevokedDocument == [Revoked EXCEPT !.revoked = TRUE]

\* changed.notify_all, and one more sleeper.
NotifyAll == asleep' = {}
Sleep(t) == asleep' = asleep \cup {t}
Awake(t) == t \notin asleep

\* Fault: the last lease wakes nobody.
DropLeaseSilently(n) ==
    /\ window' = IF IsSession(n) /\ window.leases > 0 THEN [window EXCEPT !.leases = @ - 1] ELSE window
    /\ UNCHANGED asleep

\* PluginWindowCallLease: taken for the current session, released by number.
WithLease == [window EXCEPT !.leases = @ + 1]
DropLease(n) ==
    IF IsSession(n) /\ window.leases > 0
    THEN /\ window' = [window EXCEPT !.leases = @ - 1] /\ NotifyAll
    ELSE UNCHANGED <<window, asleep>>

Step(s, step) == sub' = [sub EXCEPT ![s].step = step]
Do(t, op) == thread' = [thread EXCEPT ![t].op = op]
Rest(t) == thread' = [thread EXCEPT ![t] = Resting]
MainIdle == thread["main"] = Resting

\* destroy(): the Destroyed event of the document comes later; the page is gone.
DestroyShell ==
    /\ shell' = NoShell /\ received' = {}
    /\ destroyed' = IF HasShell THEN destroyed \cup {shell.doc} ELSE destroyed
HideShell == shell' = IF HasShell THEN [shell EXCEPT !.shown = FALSE] ELSE shell

-----------------------------------------------------------------------------
(* prepare: the response of a submission reaches the window *)

\* The Runtime of the current generation answered; its response is on the way.
Answer(s) ==
    /\ sub[s].step = "unsent"
    /\ sub' = [sub EXCEPT ![s].step = "answered", ![s].gen = version]
    /\ UNCHANGED <<core, version, picking, transfer, native, thread, asleep>>

\* submit, once no lease is left: a document past AwaitingReady is used again.
Replace(s) ==
    LET same == HasWindow /\ window.gen = sub[s].gen /\ ~window.revoked
        reuse == same /\ window.phase # "AwaitingReady"
        doc == IF reuse THEN window.doc ELSE documents + 1
    IN  /\ sessions' = sessions + 1
        /\ documents' = IF reuse THEN documents ELSE documents + 1
        /\ window' = [owner |-> s, gen |-> sub[s].gen, session |-> sessions + 1, doc |-> doc,
                      phase |-> IF reuse THEN "AwaitingAck" ELSE "AwaitingReady",
                      life |-> "prepared", leases |-> 0, pinned |-> same /\ window.pinned,
                      focused |-> FALSE, revoked |-> FALSE, request |-> FALSE]
        /\ sub' = [sub EXCEPT ![s].step = "lookup", ![s].session = sessions + 1, ![s].doc = doc]
        /\ NotifyAll

\* Fault: the window is replaced under the calls and hides of its session.
SubmitOverCalls(s) ==
    /\ sub[s].step = "answered" /\ Replace(s)
    /\ UNCHANGED <<version, picking, transfer, native, thread>>

Submit(s) ==
    /\ \/ /\ sub[s].step = "answered" /\ ~Leased /\ Replace(s)
       \/ /\ sub[s].step = "answered" /\ Leased
          /\ window' = Closing /\ Step(s, "submit") /\ Sleep(s)
          /\ UNCHANGED <<sessions, documents>>
       \/ /\ sub[s].step = "submit" /\ Awake(s) /\ ~Leased /\ Replace(s)
       \/ /\ sub[s].step = "submit" /\ Awake(s) /\ Leased
          /\ Sleep(s) /\ UNCHANGED <<core, sub>>
    /\ UNCHANGED <<version, picking, transfer, native, thread>>

\* The shell of the plugin, by label: rebuilt while the page must become ready;
\* otherwise its page is used again, unless its muting cannot be verified.
LookUpShell(s) ==
    /\ sub[s].step = "lookup"
    /\ \/ /\ ~HasShell /\ Step(s, "create")
          /\ UNCHANGED <<core, shell, received, destroyed, asleep>>
       \/ /\ HasShell /\ OwnedBy(s, "AwaitingReady")
          /\ DestroyShell /\ Step(s, "create") /\ UNCHANGED <<core, asleep>>
       \/ /\ HasShell /\ ~OwnedBy(s, "AwaitingReady") /\ Step(s, "ready")
          /\ UNCHANGED <<core, shell, received, destroyed, asleep>>
       \/ /\ HasShell /\ ~OwnedBy(s, "AwaitingReady") /\ Step(s, "failed")
          /\ IF IsSession(sub[s].session)
             THEN window' = Revoked /\ NotifyAll ELSE UNCHANGED <<window, asleep>>
          /\ DestroyShell /\ UNCHANGED <<sessions, documents>>
    /\ UNCHANGED <<version, picking, transfer, launcher, rechecks, thread>>

\* create_window fails on a label that is taken, or when the page cannot be set up;
\* the native callbacks belong to the document of this submission.
CreateShell(s) ==
    /\ sub[s].step = "create"
    /\ \/ /\ ~HasShell
          /\ shell' = [doc |-> sub[s].doc, by |-> s, shown |-> FALSE] /\ Step(s, "ready")
          /\ UNCHANGED <<core, asleep>>
       \/ /\ Step(s, "failed") /\ UNCHANGED <<core, shell, asleep>>
       \/ /\ ~HasShell /\ IsSession(sub[s].session)
          /\ window' = Revoked /\ NotifyAll
          /\ Step(s, "failed") /\ UNCHANGED <<sessions, documents, shell>>
    /\ UNCHANGED <<version, picking, transfer, launcher, received, destroyed, rechecks, thread>>

CheckReady(s) ==
    /\ sub[s].step = "ready"
    /\ Step(s, IF OwnedBy(s, "AwaitingReady") THEN "waitReady"
               ELSE IF OwnedBy(s, "AwaitingAck") THEN "update" ELSE "failed")
    /\ UNCHANGED <<core, version, picking, transfer, native, thread, asleep>>

\* invalidate_generation_with, once no lease is left: the entry goes, the shell
\* found under the label is destroyed afterwards.
Invalidate(s) ==
    /\ window' = NoWindow /\ NotifyAll
    /\ sub' = [sub EXCEPT ![s].step = "destroy", ![s].handle = IF HasShell THEN shell.by ELSE 0]

\* wait_for(AwaitingAck): 5 s passed, or another submission has the window.  teardown
\* then goes by the generation of the plugin.
AwaitReady(s) ==
    /\ \/ /\ sub[s].step = "waitReady" /\ OwnedBy(s, "AwaitingAck")
          /\ Step(s, "update") /\ UNCHANGED <<window, asleep>>
       \/ /\ sub[s].step = "waitReady" /\ ~OwnedBy(s, "AwaitingAck")
          /\ IF ~HasWindow \/ window.gen # sub[s].gen
             THEN Step(s, "failed") /\ UNCHANGED <<window, asleep>>
             ELSE IF Leased
             THEN /\ window' = Closing /\ Sleep(s)
                  /\ sub' = [sub EXCEPT ![s].step = "teardown", ![s].target = window.session]
             ELSE Invalidate(s)
       \/ /\ sub[s].step = "teardown" /\ Awake(s)
          /\ IF ~IsSession(sub[s].target) THEN Step(s, "failed") /\ UNCHANGED <<window, asleep>>
             ELSE IF Leased THEN Sleep(s) /\ UNCHANGED <<window, sub>>
             ELSE Invalidate(s)
    /\ UNCHANGED <<sessions, documents, version, picking, transfer, native, thread>>
DestroyCaptured(s) ==
    /\ sub[s].step = "destroy" /\ Step(s, "failed")
    /\ IF HasShell /\ shell.by = sub[s].handle THEN DestroyShell
       ELSE UNCHANGED <<shell, received, destroyed>>
    /\ UNCHANGED <<core, version, picking, transfer, launcher, rechecks, thread, asleep>>

\* The update is evaluated in whatever page has the label.
SendUpdate(s) ==
    /\ sub[s].step = "update"
    /\ \/ /\ HasShell /\ received' = received \cup {s} /\ Step(s, "waitAck")
       \/ /\ UNCHANGED received /\ Step(s, "failed")
    /\ UNCHANGED <<core, version, picking, transfer, shell, launcher, destroyed, rechecks,
                   thread, asleep>>
AwaitAck(s) ==
    /\ sub[s].step = "waitAck"
    /\ IF OwnedBy(s, "AwaitingFocus")
       THEN /\ window' = [window EXCEPT !.phase = "AwaitingCommit"] /\ NotifyAll
            /\ Step(s, "prepared")
       ELSE Step(s, "failed") /\ UNCHANGED <<window, asleep>>
    /\ UNCHANGED <<sessions, documents, version, picking, transfer, native, thread>>

\* The page, by its label: its first handler is registered, an update was handled.
ContentReady ==
    /\ MainIdle /\ HasShell /\ HasWindow /\ window.phase = "AwaitingReady"
    /\ window' = [window EXCEPT !.phase = "AwaitingAck"] /\ NotifyAll
    /\ UNCHANGED <<sessions, documents, version, picking, transfer, native, progress>>
ContentAck(s) ==
    /\ MainIdle /\ s \in received /\ received' = received \ {s}
    /\ IF OwnedBy(s, "AwaitingAck")
       THEN window' = [window EXCEPT !.phase = "AwaitingFocus"] /\ NotifyAll
       ELSE UNCHANGED <<window, asleep>>
    /\ UNCHANGED <<sessions, documents, version, picking, transfer, shell, launcher, destroyed,
                   rechecks, progress>>

Prepare(s) ==
    \/ Submit(s) \/ LookUpShell(s) \/ CreateShell(s) \/ CheckReady(s) \/ AwaitReady(s)
    \/ DestroyCaptured(s) \/ SendUpdate(s) \/ AwaitAck(s)

-----------------------------------------------------------------------------
(* commit: the screen goes from the launcher to the window *)

HoldsTransfer(s) == transfer # NoTransfer /\ transfer.owner = s
StillCurrent(s) == HoldsTransfer(s) /\ OwnedBy(s, "AwaitingCommit")
ItsShell(s) == HasShell /\ shell.by = sub[s].handle

BeginCommit(s) ==
    /\ sub[s].step = "prepared"
    /\ IF OwnedBy(s, "AwaitingCommit") /\ HasShell
       THEN /\ transfer' = [owner |-> s, shown |-> launcher]
            /\ sub' = [sub EXCEPT ![s].step = "show", ![s].handle = shell.by]
       ELSE Step(s, "failed") /\ UNCHANGED transfer
    /\ UNCHANGED <<core, version, picking, native, thread, asleep>>

\* Each native call is followed by the check that the next one relies on.
ShowShell(s) ==
    /\ sub[s].step = "show"
    /\ IF ItsShell(s) THEN shell' = [shell EXCEPT !.shown = TRUE] ELSE UNCHANGED shell
    /\ \/ /\ ItsShell(s) /\ StillCurrent(s)
          /\ window' = [window EXCEPT !.focused = FALSE] /\ Step(s, "confirm")
       \/ Step(s, "undo") /\ UNCHANGED window
    /\ UNCHANGED <<sessions, documents, version, picking, transfer, launcher, received, destroyed,
                   rechecks, thread, asleep>>
ConfirmFocus(s) ==
    /\ sub[s].step = "confirm"
    /\ Step(s, IF StillCurrent(s) /\ window.focused THEN "hideLauncher" ELSE "undo")
    /\ UNCHANGED <<core, version, picking, transfer, native, thread, asleep>>
HideLauncher(s) ==
    /\ sub[s].step = "hideLauncher"
    /\ launcher' = FALSE
    /\ Step(s, IF StillCurrent(s) THEN "advance" ELSE "undo")
    /\ UNCHANGED <<core, version, picking, transfer, shell, received, destroyed, rechecks,
                   thread, asleep>>

\* Visible, and the end of the transfer.
Advance(s) ==
    /\ sub[s].step = "advance"
    /\ IF OwnedBy(s, "AwaitingCommit")
       THEN /\ window' = [window EXCEPT !.phase = "Visible"] /\ NotifyAll
            /\ transfer' = IF HoldsTransfer(s) THEN NoTransfer ELSE transfer
            /\ Step(s, IF HoldsTransfer(s) THEN "activate" ELSE "undoShow")
       ELSE Step(s, "undoShow") /\ UNCHANGED <<window, transfer, asleep>>
    /\ UNCHANGED <<sessions, documents, version, picking, native, thread>>

\* Fault: only the owner and the phase are looked at.
ActivateClosed(s) ==
    /\ sub[s].step = "activate"
    /\ IF OwnedBy(s, "Visible")
       THEN window' = [window EXCEPT !.life = "active"] /\ NotifyAll /\ Step(s, "committed")
       ELSE Step(s, "failed") /\ UNCHANGED <<window, asleep>>
    /\ UNCHANGED <<sessions, documents, version, picking, transfer, native, thread>>

\* activate_timer_session; a window it does not find as it left it is closed.
ActivateSession(s) ==
    /\ sub[s].step = "activate"
    /\ IF OwnedBy(s, "Visible") /\ window.life = "prepared"
       THEN window' = [window EXCEPT !.life = "active"] /\ NotifyAll /\ Step(s, "committed")
       ELSE IF ~HasWindow THEN Step(s, "failed") /\ UNCHANGED <<window, asleep>>
       ELSE /\ window' = Closing
            /\ IF Leased THEN Sleep(s) /\ Step(s, "closeWait")
               ELSE Step(s, "closing") /\ UNCHANGED asleep
    /\ UNCHANGED <<sessions, documents, version, picking, transfer, native, thread>>

\* The failed transfer: the launcher comes back if the transfer is still its own,
\* the shell is hidden in any case.
TakeBack(s) ==
    /\ sub[s].step = "undo"
    /\ IF HoldsTransfer(s)
       THEN /\ transfer' = NoTransfer
            /\ sub' = [sub EXCEPT ![s].step = "restore", ![s].back = transfer.shown]
       ELSE Step(s, "undoShow") /\ UNCHANGED transfer
    /\ UNCHANGED <<core, version, picking, native, thread, asleep>>
RestoreLauncher(s) ==
    /\ sub[s].step = "restore" /\ Step(s, "undoShow")
    /\ launcher' = sub[s].back
    /\ UNCHANGED <<core, version, picking, transfer, shell, received, destroyed, rechecks,
                   thread, asleep>>
UndoShow(s) ==
    /\ sub[s].step = "undoShow" /\ Step(s, "failed")
    /\ IF ItsShell(s) THEN HideShell ELSE UNCHANGED shell
    /\ UNCHANGED <<core, version, picking, transfer, launcher, received, destroyed, rechecks,
                   thread, asleep>>

\* /find begins a transfer of its own and ends it.
FindTransfer ==
    /\ \/ ~HoldsTransfer("find") /\ transfer' = [owner |-> "find", shown |-> launcher]
       \/ HoldsTransfer("find") /\ transfer' = NoTransfer
    /\ UNCHANGED <<core, version, picking, native, progress, asleep>>

-----------------------------------------------------------------------------
(* close, hide_and_revoke, remove_plugin: on the main thread, or a commit's own *)

Stage(t) == IF t \in Threads THEN thread[t].op ELSE sub[t].step
Goto(t, stage) ==
    IF t \in Threads THEN Do(t, stage) /\ UNCHANGED sub ELSE Step(t, stage) /\ UNCHANGED thread
Leave(t) == IF t \in Threads THEN Rest(t) /\ UNCHANGED sub ELSE Step(t, "failed") /\ UNCHANGED thread
Reaches(t) == IF t \in Threads THEN HasShell ELSE ItsShell(t)

Close ==
    /\ MainIdle /\ HasWindow /\ HasShell
    /\ window' = Closing
    /\ IF Leased THEN Sleep("main") /\ Do("main", "closeWait")
       ELSE Do("main", "closing") /\ UNCHANGED asleep
    /\ UNCHANGED <<sessions, documents, version, picking, transfer, native, sub>>
AwaitClose(t) ==
    /\ Stage(t) = "closeWait" /\ Awake(t)
    /\ IF Leased THEN Sleep(t) /\ UNCHANGED progress ELSE Goto(t, "closing") /\ UNCHANGED asleep
    /\ UNCHANGED <<core, version, picking, transfer, native>>

\* Whatever session is closing is revoked, the shell hidden or not; a shell that cannot
\* be hidden takes its window with it.
HideClosed(t) ==
    /\ Stage(t) = "closing"
    /\ \/ /\ IF Reaches(t) THEN HideShell ELSE UNCHANGED shell
          /\ IF HasWindow /\ window.life = "closing"
             THEN /\ window' = [Revoked EXCEPT !.pinned = t # "main" /\ window.pinned]
                  /\ NotifyAll
             ELSE UNCHANGED <<window, asleep>>
          /\ Leave(t)
       \/ /\ IF HasWindow /\ window.life = "closing"
             THEN window' = [Revoked EXCEPT !.focused = window.focused] /\ NotifyAll
             ELSE UNCHANGED <<window, asleep>>
          /\ Goto(t, "remove") /\ UNCHANGED shell
    /\ UNCHANGED <<sessions, documents, version, picking, transfer, launcher, received, destroyed,
                   rechecks>>

\* remove_plugin and close_for_uninstall; a missing entry may leave the shell alone.
RemoveWindow(t) ==
    /\ Stage(t) = "remove" \/ (Stage(t) = "removeWait" /\ Awake(t))
    /\ IF Leased
       THEN /\ window' = IF Stage(t) = "remove" THEN Closing ELSE window
            /\ Sleep(t) /\ Goto(t, "removeWait")
       ELSE /\ window' = NoWindow
            /\ IF HasWindow THEN NotifyAll ELSE UNCHANGED asleep
            /\ Goto(t, "destroyLabel") \/ (~HasWindow /\ Leave(t))
    /\ UNCHANGED <<sessions, documents, version, picking, transfer, native>>
DestroyByLabel(t) ==
    /\ Stage(t) = "destroyLabel" /\ Leave(t)
    /\ IF Reaches(t) THEN DestroyShell ELSE UNCHANGED <<shell, received, destroyed>>
    /\ UNCHANGED <<core, version, picking, transfer, launcher, rechecks, asleep>>

CloseSteps(t) == AwaitClose(t) \/ HideClosed(t) \/ RemoveWindow(t) \/ DestroyByLabel(t)

\* A disable, update, uninstall or withdrawn permission, on either thread: the
\* generation changes, then the window of the plugin is torn down.
DisableWindow(t) ==
    /\ t \in {"main", "disabling"} /\ thread[t] = Resting /\ version < MaxVersion
    /\ version' = version + 1 /\ Do(t, "remove")
    /\ UNCHANGED <<core, picking, transfer, native, sub, asleep>>

-----------------------------------------------------------------------------
(* hide_document: native callbacks know their document, sessions come and go *)

\* Fault: the open picker is not looked at.
HideDespitePicker(d, blurred, picked) ==
    /\ OfDocument(d) /\ ~window.revoked /\ window.life # "closing"
    /\ blurred => /\ ~window.focused /\ ~window.pinned
                  /\ window.phase = "Visible" /\ window.life = "active"

HideAdmitted(d, blurred, picked) ==
    /\ OfDocument(d) /\ ~window.revoked /\ window.life # "closing"
    /\ blurred => /\ ~window.focused /\ ~window.pinned /\ picked # d
                  /\ window.phase = "Visible" /\ window.life = "active"
\* Fault: the hide does not wait for the calls.
BeginHideOverCalls(t, d, blurred) ==
    /\ window' = [Closing EXCEPT !.leases = 1] /\ UNCHANGED asleep
    /\ thread' = [thread EXCEPT ![t] =
          [op |-> "hiding", session |-> window.session, doc |-> d, blurred |-> blurred]]

BeginHide(t, d, blurred) ==
    LET task(op) == [op |-> op, session |-> window.session, doc |-> d, blurred |-> blurred]
    IN  IF Leased
        THEN window' = Closing /\ Sleep(t) /\ thread' = [thread EXCEPT ![t] = task("hideWait")]
        ELSE /\ window' = [Closing EXCEPT !.leases = 1] /\ UNCHANGED asleep
             /\ thread' = [thread EXCEPT ![t] = task("hiding")]

AwaitHide(t) ==
    LET same == IsSession(thread[t].session) /\ OfDocument(thread[t].doc)
    IN  /\ thread[t].op = "hideWait" /\ Awake(t)
        /\ IF same /\ Leased THEN Sleep(t) /\ UNCHANGED <<window, thread>>
           ELSE /\ UNCHANGED asleep
                /\ IF same /\ ~window.revoked /\ window.life = "closing"
                   THEN window' = [window EXCEPT !.leases = 1] /\ Do(t, "hiding")
                   ELSE Rest(t) /\ UNCHANGED window
        /\ UNCHANGED <<sessions, documents, version, picking, transfer, native, sub>>
HideNative(t) ==
    /\ thread[t].op = "hiding"
    /\ \/ /\ Do(t, "hidden")
          /\ IF HasShell /\ shell.doc = thread[t].doc THEN HideShell ELSE UNCHANGED shell
       \/ Do(t, "notHidden") /\ UNCHANGED shell
    /\ UNCHANGED <<core, version, picking, transfer, launcher, received, destroyed, rechecks,
                   sub, asleep>>

\* finish_timer_session_hide and close, or revoke_document and destroy; the lease ends.
EndHide(t) ==
    LET n == thread[t].session
        d == thread[t].doc
        free(w) == IF w.session = n /\ w.leases > 0 THEN [w EXCEPT !.leases = @ - 1] ELSE w
    IN  /\ \/ /\ thread[t].op = "hidden"
              /\ window' = IF ~HasWindow THEN window
                           ELSE IF window.life = "closing"
                           THEN free([Revoked EXCEPT !.pinned = FALSE]) ELSE free(window)
              /\ UNCHANGED <<shell, received, destroyed>>
           \/ /\ thread[t].op = "notHidden"
              /\ window' = IF ~HasWindow THEN window
                           ELSE IF OfDocument(d) THEN free(RevokedDocument) ELSE free(window)
              /\ IF HasShell /\ shell.doc = d THEN DestroyShell
                 ELSE UNCHANGED <<shell, received, destroyed>>
        /\ Rest(t) /\ NotifyAll
        /\ UNCHANGED <<sessions, documents, version, picking, transfer, launcher, rechecks, sub>>
HideSteps(t) == AwaitHide(t) \/ HideNative(t) \/ EndHide(t)

\* The user closes a shown shell.
CloseRequested ==
    /\ MainIdle /\ HasShell /\ shell.shown /\ HideAdmitted(shell.doc, FALSE, picking)
    /\ BeginHide("main", shell.doc, FALSE)
    /\ UNCHANGED <<sessions, documents, version, picking, transfer, native, sub>>
RecheckBlur(d) ==
    /\ MainIdle /\ d \in rechecks /\ rechecks' = rechecks \ {d}
    /\ IF HideAdmitted(d, TRUE, picking) THEN BeginHide("main", d, TRUE)
       ELSE UNCHANGED <<window, thread, asleep>>
    /\ UNCHANGED <<sessions, documents, version, picking, transfer, shell, launcher, received,
                   destroyed, sub>>

\* Focus events of a shown shell: a blur is rechecked after a while.
ObserveFocus(focused) ==
    /\ MainIdle /\ HasShell /\ shell.shown
    /\ OfDocument(shell.doc) /\ ~window.revoked /\ window.focused # focused
    /\ window' = [window EXCEPT !.focused = focused] /\ NotifyAll
    /\ rechecks' = IF focused THEN rechecks ELSE rechecks \cup {shell.doc}
    /\ UNCHANGED <<sessions, documents, version, picking, transfer, shell, launcher, received,
                   destroyed, progress>>

\* The page navigates away; the shell's Destroyed event.
RevokeDocument(d) ==
    IF OfDocument(d) THEN window' = RevokedDocument /\ NotifyAll ELSE UNCHANGED <<window, asleep>>
Navigate ==
    /\ MainIdle /\ HasShell
    /\ RevokeDocument(shell.doc)
    /\ IF OfDocument(shell.doc) THEN DestroyShell ELSE UNCHANGED <<shell, received, destroyed>>
    /\ UNCHANGED <<sessions, documents, version, picking, transfer, launcher, rechecks, progress>>
HandleDestroyed(d) ==
    /\ MainIdle /\ d \in destroyed /\ destroyed' = destroyed \ {d}
    /\ RevokeDocument(d)
    /\ UNCHANGED <<sessions, documents, version, picking, transfer, shell, launcher, received,
                   rechecks, progress>>
SetPinned(pinned) ==
    /\ MainIdle /\ HasWindow /\ window.pinned # pinned
    /\ window' = [window EXCEPT !.pinned = pinned]
    /\ UNCHANGED <<sessions, documents, version, picking, transfer, native, progress, asleep>>

-----------------------------------------------------------------------------
(* Calls of the page *)

\* Timers, storage and pinning: a lease from begin_window_call to its drop.
BeginCall ==
    /\ MainIdle /\ HasWindow /\ window.life \in {"prepared", "active"}
    /\ window' = WithLease
    /\ thread' = [thread EXCEPT !["main"] = [Resting EXCEPT !.op = "call", !.session = window.session]]
    /\ UNCHANGED <<sessions, documents, version, picking, transfer, native, sub, asleep>>
EndCall ==
    /\ thread["main"].op = "call"
    /\ DropLease(thread["main"].session) /\ Rest("main")
    /\ UNCHANGED <<sessions, documents, version, picking, transfer, native, sub>>

\* Runtime requests of the window: one at a time, without a lease.
AdmitWindowAction ==
    /\ HasWindow /\ window.phase = "Visible" /\ window.life = "active" /\ ~window.request
    /\ window' = [window EXCEPT !.request = TRUE]
    /\ UNCHANGED <<sessions, documents, version, picking, transfer, native, progress, asleep>>
FinishWindowAction ==
    /\ HasWindow /\ window.request
    /\ window' = [window EXCEPT !.request = FALSE]
    /\ UNCHANGED <<sessions, documents, version, picking, transfer, native, progress, asleep>>

\* open_text: the dialog, the focus back on the main thread under a lease, and the
\* hide when the focus could not be set.
FileIdentityCurrent(n, d) ==
    IsSession(n) /\ OfDocument(d) /\ ~window.revoked /\ window.phase = "Visible"
    /\ window.life = "active"
OpenPicker ==
    /\ thread["picker"] = Resting /\ HasWindow /\ FileIdentityCurrent(window.session, window.doc)
    /\ picking' = window.doc
    /\ thread' = [thread EXCEPT !["picker"] =
          [Resting EXCEPT !.op = "open", !.session = window.session, !.doc = window.doc]]
    /\ UNCHANGED <<core, version, transfer, native, sub, asleep>>
FocusAfterPicker ==
    LET n == thread["picker"].session
        d == thread["picker"].doc
    IN  /\ MainIdle /\ thread["picker"].op = "open"
        /\ IF FileIdentityCurrent(n, d)
           THEN /\ window' = WithLease /\ UNCHANGED picking
                /\ thread' = [thread EXCEPT !["picker"].op = "focusing",
                                            !["main"] = [Resting EXCEPT !.op = "focus", !.session = n]]
           ELSE Rest("picker") /\ picking' = 0 /\ UNCHANGED window
        /\ UNCHANGED <<sessions, documents, version, transfer, native, sub, asleep>>
EndFocus ==
    /\ thread["main"].op = "focus"
    /\ DropLease(thread["main"].session)
    /\ \E op \in {"focused", "notFocused"} :
          thread' = [thread EXCEPT !["main"] = Resting, !["picker"].op = op]
    /\ UNCHANGED <<sessions, documents, version, picking, transfer, native, sub>>
EndPicker ==
    LET n == thread["picker"].session
        d == thread["picker"].doc
    IN  /\ thread["picker"].op \in {"focused", "notFocused"} /\ picking' = 0
        /\ IF /\ thread["picker"].op = "notFocused" /\ FileIdentityCurrent(n, d)
              /\ HideAdmitted(d, TRUE, 0)
           THEN BeginHide("picker", d, TRUE)
           ELSE Rest("picker") /\ UNCHANGED <<window, asleep>>
        /\ UNCHANGED <<sessions, documents, version, transfer, native, sub>>

-----------------------------------------------------------------------------
(* Next *)

Commit(s) ==
    \/ ShowShell(s) \/ ConfirmFocus(s) \/ HideLauncher(s) \/ Advance(s) \/ ActivateSession(s)
    \/ TakeBack(s) \/ RestoreLauncher(s) \/ UndoShow(s)
Page == ContentReady \/ AdmitWindowAction \/ FinishWindowAction \/ Navigate \/ BeginCall
        \/ \E s \in Submissions : ContentAck(s)
HostEvents ==
    \/ CloseRequested \/ Close
    \/ \E b \in BOOLEAN : ObserveFocus(b) \/ SetPinned(b)
    \/ \E d \in rechecks : RecheckBlur(d)
    \/ \E d \in destroyed : HandleDestroyed(d)
Picker == OpenPicker \/ FocusAfterPicker \/ EndFocus \/ EndPicker \/ HideSteps("picker")
Main == EndCall \/ EndFocus \/ CloseSteps("main") \/ HideSteps("main")
Work(s) == Prepare(s) \/ Commit(s) \/ CloseSteps(s)

WindowsNext ==
    \/ \E s \in Submissions : Answer(s) \/ BeginCommit(s) \/ Work(s)
    \/ FindTransfer \/ Page \/ HostEvents \/ Picker \/ Main
    \/ \E t \in {"main", "disabling"} : DisableWindow(t)
    \/ CloseSteps("disabling")

WindowsSpec == WindowsInit /\ [][WindowsNext]_windowVars

\* What a thread has begun it goes on with once it is awake; nothing is assumed
\* of the page, the user or the launcher front end.
WindowsFairness ==
    /\ WF_windowVars(Main)
    /\ WF_windowVars(EndPicker \/ HideSteps("picker"))
    /\ WF_windowVars(CloseSteps("disabling"))
    /\ \A s \in Submissions : WF_windowVars(Work(s))
=============================================================================
