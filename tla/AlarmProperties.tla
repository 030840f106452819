--------------------------- MODULE AlarmProperties ---------------------------
(***************************************************************************)
(* What the timers and their alarms promise, over the state of TimerAlarms *)
(***************************************************************************)
EXTENDS TimerAlarms

Events == {mailbox.events[i] : i \in DOMAIN mailbox.events}
EmergencyOver == emergency \in {"none", "done"}

(***************************************************************************)
(* Every variable keeps its type; a claim belongs to a claiming record and *)
(* an audio slot to a fired one.                                           *)
(***************************************************************************)
AlarmTypeOK ==
    /\ active \in [Plugins -> 0..MaxActivation] /\ granted \in [Plugins -> BOOLEAN]
    /\ activation \in 0..MaxActivation /\ runs \in 0..MaxRuns
    /\ timers \in [Keys -> Records(Keys) \union {None}]
    /\ queue \subseteq QueueItems(Keys) /\ effects \subseteq Tickets
    /\ port \in [loop : 0..(MaxEpoch + MaxRuns), ordinary : BOOLEAN, dead : BOOLEAN]
    /\ emergency \in {"none", "audio", "timers", "done"}
    /\ \A k \in Keys : timers[k] # None =>
          /\ (timers[k].claim # None) <=> (timers[k].phase = "claiming")
          /\ timers[k].audio # None => timers[k].phase = "fired"

(***************************************************************************)
(* A running timer has exactly one queue item and it is current, and every *)
(* item belongs to one: no operation loses the due point of a timer        *)
(* (remove_queued, then push), or leaves one that could fire it again.     *)
(***************************************************************************)
RunningTimersQueued ==
    queue = {QueueItem(k, timers[k]) : k \in {j \in Keys : Rec(timers[j]).phase = "running"}}

(***************************************************************************)
(* The ticket of an alarm that was neither played nor given up is on its   *)
(* way: with the timer worker, in the mailbox or in the attention worker's *)
(* hand; one that was admitted is being started or owns the sound.  What   *)
(* publish_timer replaces or refuses, and a start that fails, are settled. *)
(* Not so for a key whose counters restarted: a permission revoked and     *)
(* granted again starts a record anew under the same key, and an event of  *)
(* the earlier round may carry the ticket of the new one.                  *)
(***************************************************************************)
Underway(t) ==
    \/ tw.pc = "publish" /\ tw.ticket = t
    \/ tw.pc = "confirm" /\ t \in tw.tickets
    \/ \E e \in Events : e.kind = "published" /\ e.ticket = t
    \/ aw.pc \in {"check", "settle", "admit"} /\ aw.event.ticket = t
Starting(t) ==
    \/ mailbox.owner # None /\ mailbox.owner.ticket = t
    \/ aw.pc \in {"reserve", "start", "started", "refused", "failed"} /\ aw.event.ticket = t
EndingAttention == mailbox.terminal /\ (emergency # "done" \/ aw.pc # "dead")

AudioTicketsAccounted ==
    \A k \in Keys \ restarted : timers[k] # None /\ timers[k].audio # None =>
        LET a == timers[k].audio IN
        /\ a.state = "issued" => Underway(a.ticket) \/ EndingAttention
        /\ a.state = "admitted" => Starting(a.ticket) \/ EndingAttention

(***************************************************************************)
(* An alarm that sounds is owned by the ticket that started it, or its     *)
(* stop is on the way; and while the main window has the focus nothing     *)
(* owns the sound.  No reset, new round, revocation, update or focus       *)
(* leaves a loop that has no owner and that no event will stop.  The loop  *)
(* is the one the adapter records: a stop the device refuses ends it too.  *)
(***************************************************************************)
StopUnderway(key) ==
    \/ \E e \in Events : e.kind \in {"cancelled", "focus"} /\ e.stop = key
    \/ aw.pc \in {"cancelled", "focus"} /\ aw.event.stop = key
    \/ aw.pc \in {"started", "late"} /\ aw.event.epoch = key

SoundAccounted ==
    /\ port.loop # 0 =>
          \/ Playing(mailbox) /\ mailbox.owner.epoch = port.loop
          \/ StopUnderway(port.loop)
          \/ EndingAttention
    /\ mailbox.focused => mailbox.owner = None

(***************************************************************************)
(* The message of a round is saved at most once, and only while the timer  *)
(* is due: a reset, a pause, a revoked permission or an ended activation   *)
(* before the admission of its claim leaves no message behind.             *)
(***************************************************************************)
MessageSavedOnce ==
    [][saved' # saved =>
          LET run == Last(saved') IN
          /\ run \notin {saved[i] : i \in DOMAIN saved}
          /\ \E p \in Plugins :
                /\ active[p] # 0 /\ granted[p]
                /\ timers[Key(p)] # None
                /\ timers[Key(p)].phase = "claiming" /\ timers[Key(p)].run = run]_alarmVars

(***************************************************************************)
(* An alarm that lost its owner stops: the playback key is the epoch, and  *)
(* epochs only grow, so that a loop of an earlier epoch ends only when     *)
(* stop_timer_loop or the end of the adapter ends it.                      *)
(***************************************************************************)
RevokedAlarm == port.loop # 0 /\ mailbox.epoch # port.loop
RevokedAlarmStops == RevokedAlarm ~> ~RevokedAlarm

(***************************************************************************)
(* The cancellation of an admitted ticket stops its alarm for good: once   *)
(* it is posted the ticket does not own the sound (native_attention/mod.rs *)
(* cancel_timer_audio).                                                    *)
(***************************************************************************)
CancelledAlarmSilent ==
    Playing(mailbox) =>
        LET t == mailbox.owner.ticket IN
        Holds(timers[t.key], "admitted", t) \/ t \in effects \/ mailbox.terminal
=============================================================================
