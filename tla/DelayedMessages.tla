--------------------------- MODULE DelayedMessages ---------------------------
(***************************************************************************)
(* Delayed notifications of plugins: DelayedMessageScheduler               *)
(* (public_plugins/delayed_messages.rs), the requests that schedule them   *)
(* (PluginRuntimeApi::publish_notification) and the worker that publishes  *)
(* a due one through PublicPluginManager::commit_scheduled_message.        *)
(*                                                                         *)
(* A request schedules under the lock of the request scheduler, not under  *)
(* the mutation lock: a revocation first retires the requests and then     *)
(* cancels the messages, two steps with the mutation lock held ("revoking")*)
(*                                                                         *)
(* Any queued message may be the next due.  Bounds: MaxMessages are        *)
(* scheduled, MaxEras grants and activations end per plugin.               *)
(***************************************************************************)
EXTENDS Naturals, FiniteSets

CONSTANTS
    Absent, Senders,
    MaxPending,      \* MAX_PENDING_PER_PLUGIN
    MaxMessages, MaxEras

VARIABLES
    bundle,     \* the activation of a plugin's bundle, 0 without one
    latest,     \* the last activation of a plugin
    permitted,  \* NotificationsPublish is granted
    request,    \* the activation of a plugin's current request, 0 without one
    pending,    \* pending_by_due
    count,      \* pending_by_plugin
    through,    \* cancelled_through
    nextId,     \* next_schedule_id
    due,        \* the message the worker has popped
    revoking,   \* the plugin whose requests are retired, while its messages are not
    published,  \* messages that reached the message centre
    era         \* grants and activations ended, per plugin

delayedVars ==
    <<bundle, latest, permitted, request, pending, count, through, nextId, due, revoking,
      published, era>>
book == <<bundle, latest, permitted, era>>
schedules == <<pending, count, through, nextId>>

\* The ghost "era" is read by no operation.
Messages == [id : Nat, plugin : Senders, activation : Nat, era : Nat]

DelayedInit ==
    /\ bundle = [p \in Senders |-> 1] /\ latest = bundle
    /\ permitted = [p \in Senders |-> TRUE]
    /\ request = [p \in Senders |-> 0]
    /\ pending = {} /\ count = [p \in Senders |-> 0] /\ through = [p \in Senders |-> 0]
    /\ nextId = 1 /\ due = Absent /\ revoking = Absent /\ published = {}
    /\ era = [p \in Senders |-> 0]

\* The mutation lock is free.
Unlocked == revoking = Absent

\* enqueue_reserved waits for the network transition, which the revocation holds too.
BeginRequest(p) ==
    /\ Unlocked
    /\ bundle[p] # 0 /\ request[p] = 0
    /\ request' = [request EXCEPT ![p] = bundle[p]]
    /\ UNCHANGED <<book, schedules, due, revoking, published>>
EndRequest(p) ==
    /\ request[p] # 0
    /\ request' = [request EXCEPT ![p] = 0]
    /\ UNCHANGED <<book, schedules, due, revoking, published>>

\* publish_notification with a delay, by a request that is still current; a request
\* that has done so publishes nothing more and counts as ended.
Schedule(p) ==
    /\ request[p] # 0 /\ permitted[p]
    /\ count[p] < MaxPending
    /\ nextId <= MaxMessages
    /\ pending' = pending \union
          {[id |-> nextId, plugin |-> p, activation |-> request[p], era |-> era[p]]}
    /\ count' = [count EXCEPT ![p] = @ + 1]
    /\ nextId' = nextId + 1
    /\ request' = [request EXCEPT ![p] = 0]
    /\ UNCHANGED <<book, through, due, revoking, published>>

(***************************************************************************)
(* cancel_plugin retires the queued messages and every id given out so far.*)
(***************************************************************************)
\* Fault: the id given out last is not covered.
CancelExclusive(p) ==
    /\ through' = [through EXCEPT ![p] = nextId - 2]
    /\ pending' = {m \in pending : m.plugin # p}
    /\ count' = [count EXCEPT ![p] = 0]
\* Fault: the count of the plugin stays.
CancelQueued(p) ==
    /\ through' = [through EXCEPT ![p] = nextId - 1]
    /\ pending' = {m \in pending : m.plugin # p}
    /\ UNCHANGED count
CancelPlugin(p) ==
    /\ through' = [through EXCEPT ![p] = nextId - 1]
    /\ pending' = {m \in pending : m.plugin # p}
    /\ count' = [count EXCEPT ![p] = 0]

\* The end of a grant or an activation: requests first ...
RetireRequests(p) ==
    /\ Unlocked
    /\ bundle[p] # 0
    /\ request' = [request EXCEPT ![p] = 0]
    /\ revoking' = p
    /\ UNCHANGED <<book, schedules, due, published>>

\* ... then the messages, and the new state is published.
EndEra(p) ==
    /\ era[p] < MaxEras
    /\ CancelPlugin(p)
    /\ era' = [era EXCEPT ![p] = @ + 1]
RevokeNotifications(p) ==
    /\ revoking = p /\ permitted[p]
    /\ EndEra(p)
    /\ permitted' = [permitted EXCEPT ![p] = FALSE]
    /\ revoking' = Absent
    /\ UNCHANGED <<bundle, latest, request, nextId, due, published>>
GrantNotifications(p) ==
    /\ revoking = p /\ ~permitted[p]
    /\ permitted' = [permitted EXCEPT ![p] = TRUE]
    /\ revoking' = Absent
    /\ UNCHANGED <<bundle, latest, era, request, schedules, due, published>>
\* Disable, fault and uninstall leave no bundle; an update replaces it.
EndActivation(p) ==
    /\ revoking = p
    /\ EndEra(p)
    /\ \/ bundle' = [bundle EXCEPT ![p] = 0] /\ UNCHANGED latest
       \/ /\ bundle' = [bundle EXCEPT ![p] = latest[p] + 1]
          /\ latest' = [latest EXCEPT ![p] = @ + 1]
    /\ revoking' = Absent
    /\ UNCHANGED <<permitted, request, nextId, due, published>>
Enable(p) ==
    /\ Unlocked /\ bundle[p] = 0
    /\ CancelPlugin(p)
    /\ bundle' = [bundle EXCEPT ![p] = latest[p] + 1]
    /\ latest' = [latest EXCEPT ![p] = @ + 1]
    /\ UNCHANGED <<permitted, era, request, nextId, due, revoking, published>>

(***************************************************************************)
(* The worker.                                                             *)
(***************************************************************************)
PopDue ==
    /\ due = Absent
    /\ \E m \in pending :
          /\ pending' = pending \ {m}
          /\ count' = [count EXCEPT ![m.plugin] = @ - 1]
          /\ due' = m
    /\ UNCHANGED <<book, request, through, nextId, revoking, published>>

IsCurrent(m) == m.id > through[m.plugin]

CommitScheduledMessage ==
    /\ due # Absent /\ Unlocked
    /\ published' = IF /\ IsCurrent(due)
                       /\ bundle[due.plugin] = due.activation /\ permitted[due.plugin]
                    THEN published \union {due} ELSE published
    /\ due' = Absent
    /\ UNCHANGED <<book, request, schedules, revoking>>

DelayedNext ==
    \/ \E p \in Senders :
          \/ BeginRequest(p) \/ EndRequest(p) \/ Schedule(p) \/ RetireRequests(p)
          \/ RevokeNotifications(p) \/ GrantNotifications(p)
          \/ EndActivation(p) \/ Enable(p)
    \/ PopDue \/ CommitScheduledMessage

DelayedSpec == DelayedInit /\ [][DelayedNext]_delayedVars

(***************************************************************************)
(* The count that limits a plugin is that of its queued messages, and no   *)
(* message of an ended grant or activation is queued once it ended, nor    *)
(* published ever: one the worker has already popped is refused even when  *)
(* the permission is granted again under the same activation.              *)
(***************************************************************************)
DelayedMessagesExact ==
    /\ \A p \in Senders : count[p] = Cardinality({m \in pending : m.plugin = p})
    /\ \A m \in pending : m.era = era[m.plugin]

RevokedMessageSilent ==
    [][\A m \in published' \ published : m.era = era[m.plugin]]_delayedVars
=============================================================================
