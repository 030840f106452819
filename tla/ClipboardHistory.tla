-------------------------- MODULE ClipboardHistory --------------------------
(***************************************************************************)
(* The clipboard history service (clipboard_history/service.rs, the         *)
(* polling observer of observer.rs) and the management operations that     *)
(* change who may record: each publishes a configuration, then, outside    *)
(* every lock, reads all configurations and hands the list to the service  *)
(* (refresh_clipboard_history_authorization); an uninstall then removes    *)
(* the plugin from the service and erases its history.  Managers are the   *)
(* threads that run these operations, Observers the polling threads.       *)
(*                                                                         *)
(* Contents of the clipboard are [seq, by]: its sequence number and who    *)
(* wrote it.  Fingerprints, capacity and the format of a record are left   *)
(* out; a store that cannot be written and a thread that cannot be         *)
(* spawned too.  MaxSeq bounds the writes to the clipboard.                *)
(***************************************************************************)
EXTENDS Naturals, FiniteSets, Sequences

CONSTANTS None, Plugins, Managers, Observers, MaxSeq, MaxExcluded

ASSUME ClipboardAssumption ==
    /\ MaxSeq \in Nat /\ MaxExcluded \in Nat \ {0}
    /\ None \notin Plugins \cup Observers \cup {"selection"}
    /\ "selection" \notin Observers

ASSUME ManagersAssumption == None \notin Managers /\ "overtaken" \notin Managers \cup {None}

VARIABLES
    granted,     \* plugins whose published configuration may read the history
    authorized,  \* ServiceState.authorized_plugins
    handle,      \* ServiceState.observer_handle
    suppressed,  \* ServiceState.suppressed_observer_changes
    excluded,    \* TemporaryClipboardCopy.excluded_sequences, oldest first
    gate,        \* who holds the temporary_copy mutex
    history,     \* plugin -> the contents its store on disk holds
    manager, observer, clip,
    latest       \* history variable: who read the last list and must still apply it;
                 \* None when that list was applied, "overtaken" by an older one after it

serviceVars == <<authorized, handle, suppressed, excluded, gate, history>>
hostVars == <<granted, serviceVars, manager, observer, clip, latest>>

ManagerSteps == {"idle", "snapshot", "sync", "stop", "join", "ensure", "start",
                 "install", "forget", "erase"}
\* list: the authorized plugins a refresh read; thread: the observer it stops or
\* started; next: where it goes on once that thread has ended.
IdleManager == [pc |-> "idle", list |-> {}, thread |-> None, next |-> "idle",
                erases |-> None, purge |-> FALSE]
NoThread == [pc |-> "unused", stop |-> FALSE, last |-> 0, seen |-> None]
Contents == [seq : 0..MaxSeq, by : {"user", "other", "temp", "restored"}]

ClipboardTypeOK ==
    /\ granted \in SUBSET Plugins
    /\ authorized \in SUBSET Plugins
    /\ handle \in Observers \cup {None}
    /\ suppressed \in Nat
    /\ excluded \in Seq(1..MaxSeq) /\ Len(excluded) <= MaxExcluded
    /\ gate \in Observers \cup {None, "selection"}
    /\ history \in [Plugins -> SUBSET Contents]
    /\ manager \in [Managers -> [pc : ManagerSteps, list : SUBSET Plugins,
                                 thread : Observers \cup {None}, next : ManagerSteps,
                                 erases : Plugins \cup {None}, purge : BOOLEAN]]
    /\ observer \in [Observers ->
                        [pc : {"unused", "starting", "polling", "asleep", "callback",
                               "reading", "storing", "ended"},
                         stop : BOOLEAN, last : 0..MaxSeq, seen : Contents \cup {None}]]
    /\ clip \in Contents
    /\ latest \in Managers \cup {None, "overtaken"}

Idle(m) == manager[m].pc = "idle"
NothingManaged == \A m \in Managers : Idle(m)

----------------------------------------------------------------------------
\* Management.  A configuration change is published under the reservation and the
\* mutation lock; what follows holds neither.

Publish(m, grants, erases, purge) ==
    /\ Idle(m)
    /\ granted' = grants
    /\ manager' = [manager EXCEPT ![m] = [IdleManager EXCEPT !.pc = "snapshot",
                                             !.erases = erases, !.purge = purge]]
    /\ UNCHANGED <<serviceVars, observer, clip, latest>>

\* Install, enable, a permission given: not while an uninstall of the plugin runs,
\* whose command holds the thread every preparation needs.
Grant(m, p) ==
    /\ p \notin granted
    /\ \A n \in Managers : manager[n].erases # p
    /\ Publish(m, granted \cup {p}, None, FALSE)
\* Disable, a fault, a permission revoked.
Revoke(m, p) == p \in granted /\ Publish(m, granted \ {p}, None, FALSE)
Uninstall(m, p, purge) ==
    /\ \A n \in Managers : manager[n].erases # p
    /\ Publish(m, granted \ {p}, p, purge)

Goes(m, pc) == manager' = [manager EXCEPT ![m].pc = pc]

\* Fault: a refresh that is about to apply its list stands for this one too.
SnapshotShared(m) ==
    /\ manager[m].pc = "snapshot"
    /\ IF \E n \in Managers : manager[n].pc = "sync"
       THEN Goes(m, "ensure") /\ UNCHANGED latest
       ELSE /\ manager' = [manager EXCEPT ![m].pc = "sync", ![m].list = granted]
            /\ latest' = m
    /\ UNCHANGED <<granted, serviceVars, observer, clip>>

\* state.configs(), filtered.
SnapshotGrants(m) ==
    /\ manager[m].pc = "snapshot"
    /\ manager' = [manager EXCEPT ![m].pc = "sync", ![m].list = granted]
    /\ latest' = m
    /\ UNCHANGED <<granted, serviceVars, observer, clip>>

\* The service without plugins lets go of its observer, which the caller stops.
Authorizes(m, plugins, next) ==
    /\ authorized' = plugins
    /\ IF plugins = {} /\ handle # None
       THEN /\ handle' = None
            /\ manager' = [manager EXCEPT ![m].pc = "stop", ![m].thread = handle,
                                          ![m].next = next]
       ELSE Goes(m, next) /\ UNCHANGED handle
    /\ UNCHANGED <<granted, suppressed, excluded, gate, history, observer, clip>>

SyncAuthorized(m) ==
    /\ manager[m].pc = "sync"
    /\ Authorizes(m, manager[m].list, "ensure")
    /\ latest' = IF latest = m THEN None ELSE IF latest \in Managers THEN latest ELSE "overtaken"

\* Fault: the thread is waited for without being told.
StopUnflagged(m) ==
    /\ manager[m].pc = "stop"
    /\ Goes(m, "join")
    /\ UNCHANGED <<granted, serviceVars, observer, clip, latest>>

\* handle.stop(): the flag, then join.
StopThread(m) ==
    /\ manager[m].pc = "stop"
    /\ observer' = [observer EXCEPT ![manager[m].thread].stop = TRUE]
    /\ Goes(m, "join")
    /\ UNCHANGED <<granted, serviceVars, clip, latest>>

JoinThread(m) ==
    /\ manager[m].pc = "join"
    /\ observer[manager[m].thread].pc = "ended"
    /\ observer' = [observer EXCEPT ![manager[m].thread] = NoThread]
    /\ manager' = [manager EXCEPT ![m].pc = manager[m].next, ![m].thread = None]
    /\ UNCHANGED <<granted, serviceVars, clip, latest>>

\* The refresh is over: an uninstall goes on with finish_uninstall_cleanup.
Refreshed(m) ==
    manager' = [manager EXCEPT ![m] =
                   IF @.erases = None THEN IdleManager
                                      ELSE [@ EXCEPT !.pc = "forget", !.list = {}]]

EnsureObserver(m) ==
    /\ manager[m].pc = "ensure"
    /\ IF authorized # {} /\ handle = None THEN Goes(m, "start") ELSE Refreshed(m)
    /\ UNCHANGED <<granted, serviceVars, observer, clip, latest>>

StartThread(m) ==
    /\ manager[m].pc = "start"
    /\ \E o \in Observers :
          /\ observer[o].pc = "unused"
          /\ observer' = [observer EXCEPT ![o].pc = "starting"]
          /\ manager' = [manager EXCEPT ![m].pc = "install", ![m].thread = o]
    /\ UNCHANGED <<granted, serviceVars, clip, latest>>

\* Fault: the thread becomes the service's whatever others did meanwhile.
InstallUnchecked(m) ==
    /\ manager[m].pc = "install"
    /\ handle' = manager[m].thread
    /\ manager' = [manager EXCEPT ![m] =
                      IF @.erases = None THEN IdleManager
                      ELSE [@ EXCEPT !.pc = "forget", !.thread = None]]
    /\ UNCHANGED <<granted, authorized, suppressed, excluded, gate, history,
                   observer, clip, latest>>

\* The state is read again: others may have started one or revoked everything.
InstallThread(m) ==
    /\ manager[m].pc = "install"
    /\ IF authorized = {} \/ handle # None
       THEN /\ manager' = [manager EXCEPT ![m].pc = "stop",
                              ![m].next = IF manager[m].erases = None THEN "idle" ELSE "forget"]
            /\ UNCHANGED handle
       ELSE /\ handle' = manager[m].thread
            /\ manager' = [manager EXCEPT ![m] =
                              IF @.erases = None THEN IdleManager
                              ELSE [@ EXCEPT !.pc = "forget", !.thread = None]]
    /\ UNCHANGED <<granted, authorized, suppressed, excluded, gate, history,
                   observer, clip, latest>>

\* ClipboardHistoryService::uninstall.
ForgetPlugin(m) ==
    /\ manager[m].pc = "forget"
    /\ Authorizes(m, authorized \ {manager[m].erases}, "erase")
    /\ UNCHANGED latest

EraseHistory(m) ==
    /\ manager[m].pc = "erase"
    /\ history' = IF manager[m].purge THEN [history EXCEPT ![manager[m].erases] = {}]
                                      ELSE history
    /\ manager' = [manager EXCEPT ![m] = IdleManager]
    /\ UNCHANGED <<granted, authorized, handle, suppressed, excluded, gate, observer,
                   clip, latest>>

RefreshStep(m) ==
    \/ SnapshotGrants(m) \/ SyncAuthorized(m) \/ StopThread(m) \/ JoinThread(m)
    \/ EnsureObserver(m) \/ StartThread(m) \/ InstallThread(m)
    \/ ForgetPlugin(m) \/ EraseHistory(m)

----------------------------------------------------------------------------
\* The observer thread.

ThreadGoes(o, pc) == observer' = [observer EXCEPT ![o].pc = pc]

BeginPolling(o) ==
    /\ observer[o].pc = "starting"
    /\ observer' = [observer EXCEPT ![o].pc = "polling", ![o].last = clip.seq]
    /\ UNCHANGED <<granted, serviceVars, manager, clip, latest>>

\* The flag is read before the sleep and not after it.
LoopTop(o) ==
    /\ observer[o].pc = "polling"
    /\ ThreadGoes(o, IF observer[o].stop THEN "ended" ELSE "asleep")
    /\ UNCHANGED <<granted, serviceVars, manager, clip, latest>>

Wake(o) ==
    /\ observer[o].pc = "asleep"
    /\ observer' = [observer EXCEPT ![o].last = clip.seq,
                       ![o].pc = IF clip.seq = observer[o].last THEN "polling" ELSE "callback"]
    /\ UNCHANGED <<granted, serviceVars, manager, clip, latest>>

IsExcluded(sequence) == \E i \in DOMAIN excluded : excluded[i] = sequence

\* capture_current: the gate, then a suppressed change is used up.
CaptureSuppressed(o) ==
    /\ observer[o].pc = "callback" /\ gate = None /\ suppressed > 0
    /\ suppressed' = suppressed - 1
    /\ ThreadGoes(o, "polling")
    /\ UNCHANGED <<granted, authorized, handle, excluded, gate, history, manager, clip, latest>>

\* Nobody records, or the current contents are a temporary copy.
CaptureRefused(o) ==
    /\ observer[o].pc = "callback" /\ gate = None /\ suppressed = 0
    /\ authorized = {} \/ IsExcluded(clip.seq)
    /\ ThreadGoes(o, "polling")
    /\ UNCHANGED <<granted, serviceVars, manager, clip, latest>>

\* The gate stays taken until the record is stored.
CaptureAdmitted(o) ==
    /\ observer[o].pc = "callback" /\ gate = None /\ suppressed = 0
    /\ authorized # {} /\ ~IsExcluded(clip.seq)
    /\ gate' = o
    /\ observer' = [observer EXCEPT ![o].pc = "reading", ![o].seen = clip]
    /\ UNCHANGED <<granted, authorized, handle, suppressed, excluded, history,
                   manager, clip, latest>>

ReleasesGate(o) ==
    /\ gate' = None
    /\ observer' = [observer EXCEPT ![o].pc = "polling", ![o].seen = None]

\* Busy three times, unreadable, or written again meanwhile.
ReadFails(o) ==
    /\ observer[o].pc = "reading"
    /\ ReleasesGate(o)
    /\ UNCHANGED <<granted, authorized, handle, suppressed, excluded, history,
                   manager, clip, latest>>

ReadContents(o) ==
    /\ observer[o].pc = "reading"
    /\ clip.seq = observer[o].seen.seq
    /\ ThreadGoes(o, "storing")
    /\ UNCHANGED <<granted, serviceVars, manager, clip, latest>>

\* Into the stores of those authorized now, under the service's lock.
Recorders(o) == authorized

StoreRecord(o) ==
    /\ observer[o].pc = "storing"
    /\ history' = [p \in Plugins |-> IF p \in Recorders(o)
                                     THEN history[p] \cup {observer[o].seen} ELSE history[p]]
    /\ ReleasesGate(o)
    /\ UNCHANGED <<granted, authorized, handle, suppressed, excluded, manager, clip, latest>>

ObserverStep(o) ==
    \/ BeginPolling(o) \/ LoopTop(o) \/ Wake(o)
    \/ CaptureSuppressed(o) \/ CaptureRefused(o) \/ CaptureAdmitted(o)
    \/ ReadFails(o) \/ ReadContents(o) \/ StoreRecord(o)

----------------------------------------------------------------------------
\* Somebody copies; "user" for a copy that takes keyboard or mouse.

Written(by) == [seq |-> clip.seq + 1, by |-> by]

\* Three numbers are kept for what a capture in progress still has to write.
MayCopy == clip.seq < MaxSeq - 2

HistoryInit ==
    /\ granted = {} /\ authorized = {} /\ handle = None
    /\ suppressed = 0 /\ excluded = << >> /\ gate = None
    /\ history = [p \in Plugins |-> {}]
    /\ manager = [m \in Managers |-> IdleManager]
    /\ observer = [o \in Observers |-> NoThread]
    /\ clip = [seq |-> 1, by |-> "user"]
    /\ latest = None

AppCopy ==
    /\ MayCopy
    /\ clip' = Written("other")
    /\ UNCHANGED <<granted, serviceVars, manager, observer, latest>>

ManagementStep(m) ==
    \/ \E p \in Plugins : \/ Grant(m, p) \/ Revoke(m, p)
                          \/ \E purge \in BOOLEAN : Uninstall(m, p, purge)
    \/ RefreshStep(m)

HistoryNext ==
    \/ \E m \in Managers : ManagementStep(m)
    \/ \E o \in Observers : ObserverStep(o)
    \/ AppCopy

HistoryFairness ==
    /\ \A m \in Managers : WF_hostVars(RefreshStep(m))
    /\ \A o \in Observers : WF_hostVars(ObserverStep(o))

----------------------------------------------------------------------------
\* However many management operations overlap, also while they wait for an observer or erase a
\* history: once every published change has been read, and the list that was read last is
\* the one that was applied last, those who record are those whose configuration grants it
\* (refresh_clipboard_history_authorization, ClipboardHistoryService::uninstall).
AuthorizationFollows ==
    latest = None /\ (\A m \in Managers : manager[m].pc # "snapshot") => authorized = granted

\* An observer thread that was not told to stop is the service's, or in the hands of an
\* operation that will hand it to the service or stop it: never two of them record, and
\* none is lost (ensure_observer_state, sync_authorized_plugins, uninstall).
ObserverAccounted ==
    \A o \in Observers :
        observer[o].pc # "unused" /\ ~observer[o].stop
            => \/ handle = o
               \/ \E m \in Managers : manager[m].thread = o /\ manager[m].pc \in {"install", "stop"}

\* Nothing is recorded for a plugin after the operation that took its grant has returned
\* (what capture_for_authorized_plugins_with says of every revocation).
NoRecordAfterRevocation ==
    [][\A p \in Plugins : history'[p] # history[p] /\ NothingManaged => p \in granted]_hostVars

\* Every refresh comes to its end: the observer it waits for sees the flag, although the
\* callback it may be in waits for the gate (StopThread, JoinThread).
RefreshReturns == \A m \in Managers : []<>Idle(m)
=============================================================================
