----------------------------- MODULE TimerAlarms -----------------------------
(***************************************************************************)
(* Plugin timers and the sound of their alarms: the operations of a plugin *)
(* window and of plugin management on the timer records, the timer worker  *)
(* that saves the message of a due timer, the mailbox of native attention  *)
(* and its worker, which plays and stops the alarm.                        *)
(*                                                                         *)
(* An operation of the plugin manager holds the mutation lock from its     *)
(* checks to its last change, and so does the publication of a message, so *)
(* each is one step.  The cancellation of a sound is posted after the lock *)
(* is released ("effects").  The two workers take one step per critical    *)
(* section or native call.                                                 *)
(*                                                                         *)
(* Bounds: MaxRuns rounds are started and none is paused past MaxRevision, *)
(* MaxActivation bundles are published, focus opens epochs up to MaxEpoch. *)
(***************************************************************************)
EXTENDS AttentionMailbox

CONSTANTS Plugins, MaxRuns, MaxRevision, MaxActivation, MaxEpoch

Keys == Plugins \X (1..MaxActivation)
Tickets == AudioTickets(Keys)
Owners == [ticket : Tickets, epoch : Nat, phase : {"reserved", "playing"}]

ASSUME AlarmAssumption ==
    /\ MaxRuns \in Nat /\ MaxRevision \in Nat /\ MaxActivation \in Nat /\ MaxEpoch \in Nat
    /\ None \notin Records(Keys) /\ None \notin ClaimTickets(Keys)
    /\ None \notin Tickets /\ None \notin [state : AudioStates, ticket : Tickets]
    /\ None \notin Owners

VARIABLES
    active,     \* the activation of a plugin's bundle, 0 without one
    restarted,  \* keys whose record was removed while their activation stayed (ghost)
    granted,    \* its window, notification and timer permissions are all granted
    activation, \* activation ids given out
    timers,     \* ServiceState::records
    queue,      \* ServiceState::queue
    runs,       \* rounds started
    effects,    \* tickets of AudioCancelled effects that are not applied yet
    tw,         \* the timer worker
    saved,      \* rounds whose message was saved, in order
    mailbox,    \* MailboxState
    aw,         \* the attention worker
    port,       \* the audio adapter: the loop it records as playing, ordinary sound, terminal
    emergency   \* progress of emergency_stop

alarmVars ==
    <<active, restarted, granted, activation, timers, queue, runs, effects, tw, saved, mailbox, aw,
      port, emergency>>
manager == <<active, restarted, granted, activation>>
service == <<timers, queue, runs>>
sound == <<mailbox, aw, port, emergency>>

Key(p) == <<p, active[p]>>
Idle == [pc |-> "idle"]

AlarmInit ==
    /\ active = [p \in Plugins |-> 0]
    /\ granted = [p \in Plugins |-> TRUE]
    /\ activation = 0 /\ restarted = {}
    /\ timers = [k \in Keys |-> None]
    /\ queue = {} /\ runs = 0 /\ effects = {} /\ tw = Idle /\ saved = <<>>
    /\ mailbox = NewMailbox /\ aw = Idle
    /\ port = [loop |-> 0, ordinary |-> FALSE, dead |-> FALSE]
    /\ emergency = "none"

(***************************************************************************)
(* The window's operations: authorize_window_timer, then the timer.        *)
(***************************************************************************)
Authorized(p) == active[p] # 0 /\ granted[p]

SetTimer(k, r) ==
    /\ timers' = [timers EXCEPT ![k] = r]
    /\ queue' = IF r # None /\ r.phase = "running"
                THEN Unqueued(queue, k) \union {QueueItem(k, r)}
                ELSE Unqueued(queue, k)

WindowTimerStart(p) ==
    LET k == Key(p) IN
    /\ Authorized(p)
    /\ \/ /\ Rec(timers[k]).phase \in {"idle", "fired"}
          /\ runs < MaxRuns
          /\ runs' = runs + 1
          /\ SetTimer(k, StartRound(timers[k], runs + 1))
          /\ effects' = effects \union TakenAudio(timers[k])
       \/ /\ Rec(timers[k]).phase = "paused"
          /\ SetTimer(k, Resume(timers[k]))
          /\ UNCHANGED <<runs, effects>>
    /\ UNCHANGED <<manager, tw, saved, sound>>

WindowTimerStop(p) ==
    LET k == Key(p) IN
    /\ Authorized(p) /\ Rec(timers[k]).phase = "running" /\ timers[k].rev < MaxRevision
    /\ SetTimer(k, Pause(timers[k]))
    /\ UNCHANGED <<manager, runs, effects, tw, saved, sound>>

WindowTimerReset(p) ==
    LET k == Key(p) IN
    /\ Authorized(p) /\ Rec(timers[k]).phase # "idle"
    /\ SetTimer(k, Reset(timers[k]))
    /\ effects' = effects \union TakenAudio(timers[k])
    /\ UNCHANGED <<manager, runs, tw, saved, sound>>

(***************************************************************************)
(* Management: what ends an activation cancels its timer.                  *)
(***************************************************************************)
CancelGeneration(k) ==
    /\ SetTimer(k, None)
    /\ effects' = effects \union TakenAudio(timers[k])

\* set_permission_access of one of the three permissions keeps the activation.
RevokePermission(p) ==
    /\ granted[p]
    /\ granted' = [granted EXCEPT ![p] = FALSE]
    /\ IF active[p] = 0
         THEN UNCHANGED <<timers, queue, effects, restarted>>
         ELSE CancelGeneration(Key(p)) /\ restarted' = restarted \union {Key(p)}
    /\ UNCHANGED <<active, activation, runs, tw, saved, sound>>
GrantPermission(p) ==
    /\ ~granted[p]
    /\ granted' = [granted EXCEPT ![p] = TRUE]
    /\ UNCHANGED <<active, restarted, activation, service, effects, tw, saved, sound>>

Disable(p) ==
    /\ active[p] # 0
    /\ active' = [active EXCEPT ![p] = 0]
    /\ CancelGeneration(Key(p))
    /\ UNCHANGED <<restarted, granted, activation, runs, tw, saved, sound>>

\* Enable, update and recovery publish a bundle with a new activation.
Activate(p) ==
    /\ activation < MaxActivation
    /\ activation' = activation + 1
    /\ active' = [active EXCEPT ![p] = activation + 1]
    /\ IF active[p] = 0 THEN UNCHANGED <<timers, queue, effects>> ELSE CancelGeneration(Key(p))
    /\ UNCHANGED <<restarted, granted, runs, tw, saved, sound>>

(***************************************************************************)
(* Native attention ends: the terminal flag, then emergency_stop, once.    *)
(***************************************************************************)
EnterTerminal ==
    /\ mailbox' = Terminate(mailbox)
    /\ emergency' = IF emergency = "none" THEN "audio" ELSE emergency

\* The sound of the loop ends with the adapter, even when stopping it fails.
ShutAdapter == [loop |-> 0, ordinary |-> FALSE, dead |-> TRUE]
ConfirmAll == [k \in Keys |-> ConfirmCurrent(timers[k])]

EmergencyStop ==
    /\ \/ emergency = "audio" /\ emergency' = "timers" /\ port' = ShutAdapter /\ UNCHANGED timers
       \/ emergency = "timers" /\ emergency' = "done" /\ timers' = ConfirmAll /\ UNCHANGED port
    /\ UNCHANGED <<manager, queue, runs, effects, tw, saved, mailbox, aw>>

(***************************************************************************)
(* The timer worker.                                                       *)
(***************************************************************************)
\* claim_next_due; an item that is not current is dropped.
ClaimNextDue ==
    /\ tw.pc = "idle"
    /\ \E i \in queue :
          /\ queue' = queue \ {i}
          /\ IF ItemCurrent(timers[i.key], i)
               THEN /\ timers' = [timers EXCEPT ![i.key] = Claim(i.key, @)]
                    /\ tw' = [pc |-> "commit", ticket |-> ClaimTicket(i.key, timers[i.key])]
               ELSE UNCHANGED <<timers, tw>>
    /\ UNCHANGED <<manager, runs, effects, saved, sound>>

Eligible(k) == active[k[1]] = k[2] /\ granted[k[1]]

\* commit_timer_claim under the mutation lock; a store that fails saves nothing.
CommitTimerClaim ==
    LET t == tw.ticket
        r == timers[t.key]
        admitted == ClaimMatches(r, t)
    IN
    /\ tw.pc = "commit"
    /\ \/ /\ ~Eligible(t.key)
          /\ tw' = [pc |-> "complete", ticket |-> t, persisted |-> FALSE]
          /\ UNCHANGED <<timers, saved>>
       \/ /\ Eligible(t.key) /\ ~admitted
          /\ tw' = Idle
          /\ UNCHANGED <<timers, saved>>
       \/ /\ Eligible(t.key) /\ admitted
          /\ timers' = [timers EXCEPT ![t.key] = AdmitClaim(@)]
          /\ \E persisted \in BOOLEAN :
                /\ tw' = [pc |-> "complete", ticket |-> t, persisted |-> persisted]
                /\ saved' = IF persisted THEN Append(saved, r.run) ELSE saved
    /\ UNCHANGED <<manager, queue, runs, effects, sound>>

\* complete_claim without the mutation lock.
CompleteTimerClaim ==
    LET t == tw.ticket
        r == timers[t.key]
        completes == CanComplete(r, t, tw.persisted)
    IN
    /\ tw.pc = "complete"
    /\ timers' = IF completes
                 THEN [timers EXCEPT ![t.key] = CompleteClaim(@, t, tw.persisted)] ELSE timers
    /\ tw' = IF ~tw.persisted THEN Idle
             ELSE [pc |-> "publish", ticket |-> IF completes THEN IssuedTicket(r, t) ELSE None]
    /\ UNCHANGED <<manager, queue, runs, effects, saved, sound>>

\* dispatch_timer_post_guard and publish_timer: a ticket that loses its place, or
\* gets none, is confirmed after the mailbox is released.
DispatchTimer ==
    LET t == tw.ticket
        key == IF t = None THEN <<"message", Len(saved)>> ELSE t.key
        unplaced == IF AdmitsTimer(mailbox, key) THEN ReplacedTickets(mailbox, key)
                    ELSE {t} \ {None}
    IN
    /\ tw.pc = "publish"
    /\ mailbox' = IF AdmitsTimer(mailbox, key) THEN PublishTimer(mailbox, key, t) ELSE mailbox
    /\ tw' = IF unplaced = {} THEN Idle ELSE [pc |-> "confirm", tickets |-> unplaced]
    /\ UNCHANGED <<manager, service, effects, saved, aw, port, emergency>>

ConfirmUnplaced ==
    /\ tw.pc = "confirm"
    /\ \E t \in tw.tickets :
          /\ timers' = [timers EXCEPT ![t.key] = MoveAudio(@, t, "issued", "confirmed")]
          /\ tw' = IF tw.tickets = {t} THEN Idle ELSE [tw EXCEPT !.tickets = @ \ {t}]
    /\ UNCHANGED <<manager, queue, runs, effects, saved, sound>>

TimerWorker ==
    ClaimNextDue \/ CommitTimerClaim \/ CompleteTimerClaim \/ DispatchTimer \/ ConfirmUnplaced

(***************************************************************************)
(* Other threads at the mailbox.                                           *)
(***************************************************************************)
\* apply_timer_post_lock_effects: cancel_timer_audio of one ticket.
ApplyEffect ==
    /\ \E t \in effects :
          /\ effects' = effects \ {t}
          /\ IF mailbox.terminal THEN UNCHANGED <<mailbox, emergency>>
             ELSE IF CancelOverflows(mailbox, t) THEN EnterTerminal
             ELSE /\ mailbox' = IF AdmitsCancel(mailbox, t) THEN CancelTimer(mailbox, t)
                                ELSE mailbox
                  /\ UNCHANGED emergency
    /\ UNCHANGED <<manager, service, tw, saved, aw, port>>

PublishOrdinary ==
    /\ AdmitsOrdinary(mailbox)
    /\ mailbox' = Post(mailbox, Ordinary(mailbox.focused))
    /\ UNCHANGED <<manager, service, effects, tw, saved, aw, port, emergency>>

\* observe_main_focus: a focus event is admitted and every audio slot confirmed
\* under the lock of the timers.
ObserveMainFocus(focused) ==
    /\ focused => mailbox.epoch < MaxEpoch
    /\ timers' = IF focused THEN ConfirmAll ELSE timers
    /\ IF FocusOverflows(mailbox) THEN EnterTerminal
       ELSE /\ mailbox' = IF mailbox.terminal THEN mailbox ELSE AdmitFocus(mailbox, focused)
            /\ UNCHANGED emergency
    /\ UNCHANGED <<manager, queue, runs, effects, tw, saved, aw, port>>

(***************************************************************************)
(* The attention worker.                                                   *)
(***************************************************************************)
\* What process_event starts with; an event published under focus plays nothing.
EntryOf(e) ==
    CASE e.kind = "ordinary" -> IF e.focused THEN "idle" ELSE "ordinary"
      [] e.kind = "published" -> IF e.ticket = None THEN "idle"
                                 ELSE IF e.focused THEN "settle" ELSE "check"
      [] OTHER -> e.kind

At(pc) == [aw EXCEPT !.pc = pc]

TakeEvent ==
    /\ aw.pc = "idle"
    /\ IF mailbox.terminal
         THEN aw' = [pc |-> "cleanup"] /\ UNCHANGED mailbox
         ELSE /\ mailbox.events # <<>>
              /\ mailbox' = [mailbox EXCEPT !.events = Tail(@)]
              /\ LET e == Head(mailbox.events) IN
                 aw' = IF EntryOf(e) = "idle" THEN Idle ELSE [pc |-> EntryOf(e), event |-> e]
    /\ UNCHANGED <<manager, service, effects, tw, saved, port, emergency>>

\* stop_timer_loop: only the loop of that key; a failed stop ends the adapter, which
\* forgets the loop and keeps its samples (quarantine).
StopLoop(q, key) ==
    IF q.dead \/ q.loop # key \/ key = 0 THEN {q}
    ELSE {[q EXCEPT !.loop = 0], [q EXCEPT !.loop = 0, !.dead = TRUE]}
StopOrdinary(q) == IF q.dead \/ q.loop # 0 THEN q ELSE [q EXCEPT !.ordinary = FALSE]

HandleFocus ==
    /\ aw.pc = "focus"
    /\ port' \in IF aw.event.focused THEN StopLoop(StopOrdinary(port), aw.event.stop) ELSE {port}
    /\ aw' = Idle
    /\ UNCHANGED <<manager, service, effects, tw, saved, mailbox, emergency>>

HandleCancelled ==
    /\ aw.pc = "cancelled"
    /\ port' \in StopLoop(port, aw.event.stop)
    /\ aw' = Idle
    /\ UNCHANGED <<manager, service, effects, tw, saved, mailbox, emergency>>

HandleOrdinary ==
    /\ aw.pc = "ordinary"
    /\ port' = IF Playing(mailbox) \/ port.dead \/ port.loop # 0 THEN port
               ELSE [port EXCEPT !.ordinary = TRUE]
    /\ aw' = Idle
    /\ UNCHANGED <<manager, service, effects, tw, saved, mailbox, emergency>>

\* confirm_audio_without_start
SettleTicket ==
    /\ aw.pc = "settle"
    /\ timers' = [timers EXCEPT ![aw.event.key] =
                     MoveAudio(@, aw.event.ticket, "issued", "confirmed")]
    /\ aw' = Idle
    /\ UNCHANGED <<manager, queue, runs, effects, tw, saved, mailbox, port, emergency>>

CheckEpoch ==
    /\ aw.pc = "check"
    /\ aw' = At(IF EpochOpen(mailbox, aw.event.epoch) THEN "admit" ELSE "settle")
    /\ UNCHANGED <<manager, service, effects, tw, saved, mailbox, port, emergency>>

AdmitAudioStart ==
    LET e == aw.event IN
    /\ aw.pc = "admit"
    /\ timers' = [timers EXCEPT ![e.key] = MoveAudio(@, e.ticket, "issued", "admitted")]
    /\ aw' = IF Holds(timers[e.key], "issued", e.ticket) THEN At("reserve") ELSE Idle
    /\ UNCHANGED <<manager, queue, runs, effects, tw, saved, mailbox, port, emergency>>

ReserveOwner ==
    LET e == aw.event IN
    /\ aw.pc = "reserve"
    /\ IF EpochOpen(mailbox, e.epoch)
         THEN mailbox' = Reserve(mailbox, e.ticket) /\ aw' = At("start")
         ELSE UNCHANGED mailbox /\ aw' = At("failed")
    /\ UNCHANGED <<manager, service, effects, tw, saved, port, emergency>>

StartTimerLoop ==
    /\ aw.pc = "start"
    /\ LET q == StopOrdinary(port) IN
       \/ /\ ~q.dead /\ q.loop = 0
          /\ port' = [q EXCEPT !.loop = aw.event.epoch, !.ordinary = FALSE]
          /\ aw' = At("started")
       \/ /\ port' = q
          /\ aw' = At("refused")
    /\ UNCHANGED <<manager, service, effects, tw, saved, mailbox, emergency>>

ReservedByWorker ==
    OwnerIs(mailbox, aw.event.ticket, aw.event.epoch, "reserved")

\* Fault: a loop that started too late is left to itself.
CommitWithoutStop ==
    /\ aw.pc = "started"
    /\ mailbox' = IF ReservedByWorker THEN Play(mailbox) ELSE mailbox
    /\ aw' = Idle
    /\ UNCHANGED <<manager, service, effects, tw, saved, port, emergency>>
CommitPlaying ==
    /\ aw.pc = "started"
    /\ IF ReservedByWorker
         THEN mailbox' = Play(mailbox) /\ aw' = Idle
         ELSE UNCHANGED mailbox /\ aw' = At("late")
    /\ UNCHANGED <<manager, service, effects, tw, saved, port, emergency>>

StopLate ==
    /\ aw.pc = "late"
    /\ port' \in StopLoop(port, aw.event.epoch)
    /\ aw' = Idle
    /\ UNCHANGED <<manager, service, effects, tw, saved, mailbox, emergency>>

\* Fault: the ticket of a loop that did not start stays admitted.
RevokeUnsettled ==
    /\ aw.pc = "refused"
    /\ mailbox' = IF ReservedByWorker THEN AdvanceEpoch(mailbox) ELSE mailbox
    /\ aw' = Idle
    /\ UNCHANGED <<manager, service, effects, tw, saved, port, emergency>>
RevokeRefused ==
    /\ aw.pc = "refused"
    /\ mailbox' = IF ReservedByWorker THEN AdvanceEpoch(mailbox) ELSE mailbox
    /\ aw' = At("failed")
    /\ UNCHANGED <<manager, service, effects, tw, saved, port, emergency>>

\* confirm_audio_after_play_failure
FailTicket ==
    /\ aw.pc = "failed"
    /\ timers' = [timers EXCEPT ![aw.event.key] =
                     MoveAudio(@, aw.event.ticket, "admitted", "confirmed")]
    /\ aw' = Idle
    /\ UNCHANGED <<manager, queue, runs, effects, tw, saved, mailbox, port, emergency>>

\* CleanupGuard, once the worker leaves its loop.
CleanUp ==
    /\ \/ aw.pc = "cleanup" /\ aw' = [pc |-> "terminate"] /\ port' = ShutAdapter
          /\ UNCHANGED timers
       \/ aw.pc = "terminate" /\ aw' = [pc |-> "dead"] /\ timers' = ConfirmAll /\ UNCHANGED port
    /\ UNCHANGED <<manager, queue, runs, effects, tw, saved, mailbox, emergency>>

AttentionWorker ==
    \/ TakeEvent \/ HandleFocus \/ HandleCancelled \/ HandleOrdinary
    \/ SettleTicket \/ CheckEpoch \/ AdmitAudioStart \/ ReserveOwner
    \/ StartTimerLoop \/ CommitPlaying \/ StopLate \/ RevokeRefused \/ FailTicket
    \/ CleanUp

(***************************************************************************)
(* The specification.                                                      *)
(***************************************************************************)
WindowOps(p) == WindowTimerStart(p) \/ WindowTimerStop(p) \/ WindowTimerReset(p)
ManagementOps(p) == RevokePermission(p) \/ GrantPermission(p) \/ Disable(p) \/ Activate(p)

AlarmNext ==
    \/ \E p \in Plugins : WindowOps(p) \/ ManagementOps(p)
    \/ TimerWorker \/ AttentionWorker \/ ApplyEffect \/ EmergencyStop
    \/ PublishOrdinary
    \/ \E focused \in BOOLEAN : ObserveMainFocus(focused)

\* The workers run, and a thread that has begun an operation finishes it.
AlarmFairness ==
    /\ WF_alarmVars(TimerWorker) /\ WF_alarmVars(AttentionWorker)
    /\ WF_alarmVars(ApplyEffect) /\ WF_alarmVars(EmergencyStop)

AlarmSpec == AlarmInit /\ [][AlarmNext]_alarmVars /\ AlarmFairness
=============================================================================
