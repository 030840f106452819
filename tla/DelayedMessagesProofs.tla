------------------------ MODULE DelayedMessagesProofs ------------------------
(***************************************************************************)
(* Delayed messages of any number of plugins, with any number scheduled:   *)
(* the counts are exact, no message of an ended grant or activation is     *)
(* queued, and none is ever published, not even one the worker had popped. *)
(*                                                                         *)
(* cancel_plugin can only silence the message in the worker's hand through *)
(* its number, so the invariant relates numbers, cancelled_through and the *)
(* eras: every number given out is below nextId, and a message above       *)
(* cancelled_through is of the current era.                                *)
(***************************************************************************)
EXTENDS DelayedMessages, FiniteSetTheorems, TLAPS

Of(p, S) == {m \in S : m.plugin = p}

DelayedTypeOK ==
    /\ request \in [Senders -> Nat]
    /\ bundle \in [Senders -> Nat] /\ latest \in [Senders -> Nat]
    /\ pending \subseteq Messages /\ IsFiniteSet(pending)
    /\ count \in [Senders -> Nat] /\ through \in [Senders -> Nat]
    /\ nextId \in Nat \ {0}
    /\ due \in Messages \cup {Absent}
    /\ era \in [Senders -> Nat]

CountsExact == \A p \in Senders : count[p] = Cardinality(Of(p, pending))

\* A number given out before the last cancellation of its plugin is covered by it.
NumbersGiven ==
    /\ \A m \in pending : m.id < nextId
    /\ due # Absent => due.id < nextId

ErasCurrent ==
    /\ \A m \in pending : m.era = era[m.plugin]
    /\ due # Absent /\ IsCurrent(due) => due.era = era[due.plugin]

DelayedInvariant == DelayedTypeOK /\ CountsExact /\ NumbersGiven /\ ErasCurrent

-----------------------------------------------------------------------------
(* Cardinalities *)

\* A message that is queued anew counts for its plugin, and for no other.
LEMMA CountAdded ==
  ASSUME NEW S, IsFiniteSet(S), NEW m, m \notin S, NEW p
  PROVE  Cardinality(Of(p, S \cup {m})) =
            IF m.plugin = p THEN Cardinality(Of(p, S)) + 1 ELSE Cardinality(Of(p, S))
<1>1. IsFiniteSet(Of(p, S))
  BY FS_Subset DEF Of
<1>2. CASE m.plugin = p
  <2>1. Of(p, S \cup {m}) = Of(p, S) \cup {m} /\ m \notin Of(p, S)
    BY <1>2 DEF Of
  <2>. QED BY <1>1, <1>2, <2>1, FS_AddElement
<1>3. CASE m.plugin # p
  BY <1>3, Of(p, S \cup {m}) = Of(p, S) DEF Of
<1>. QED BY <1>2, <1>3

\* A message that is taken out counts no more.
LEMMA CountRemoved ==
  ASSUME NEW S, IsFiniteSet(S), NEW m \in S, NEW p
  PROVE  Cardinality(Of(p, S \ {m})) =
            IF m.plugin = p THEN Cardinality(Of(p, S)) - 1 ELSE Cardinality(Of(p, S))
<1>1. IsFiniteSet(Of(p, S))
  BY FS_Subset DEF Of
<1>2. CASE m.plugin = p
  <2>1. Of(p, S \ {m}) = Of(p, S) \ {m} /\ m \in Of(p, S)
    BY <1>2 DEF Of
  <2>. QED BY <1>1, <1>2, <2>1, FS_RemoveElement
<1>3. CASE m.plugin # p
  BY <1>3, Of(p, S \ {m}) = Of(p, S) DEF Of
<1>. QED BY <1>2, <1>3

-----------------------------------------------------------------------------
(* The operations *)

\* An operation that touches neither the schedules nor the worker keeps everything.
LEMMA SchedulesFramed ==
  ASSUME DelayedInvariant, UNCHANGED <<schedules, due, era>>,
         request' \in [Senders -> Nat], bundle' \in [Senders -> Nat],
         latest' \in [Senders -> Nat]
  PROVE  DelayedInvariant'
BY DEF DelayedInvariant, DelayedTypeOK, CountsExact, NumbersGiven, ErasCurrent, schedules,
       IsCurrent

\* publish_notification with a delay: a new number, above every cancellation.
LEMMA ScheduleKeeps ==
  ASSUME DelayedInvariant, NEW p \in Senders, Schedule(p)
  PROVE  DelayedInvariant'
<1> DEFINE m == [id |-> nextId, plugin |-> p, activation |-> request[p], era |-> era[p]]
<1>1. /\ pending' = pending \cup {m} /\ m \in Messages /\ m \notin pending
      /\ count' = [count EXCEPT ![p] = @ + 1] /\ nextId' = nextId + 1
      /\ request' = [request EXCEPT ![p] = 0]
      /\ UNCHANGED <<bundle, latest, era, through, due>>
  BY DEF DelayedInvariant, DelayedTypeOK, NumbersGiven, Schedule, Messages, book
<1>2. DelayedTypeOK'
  BY <1>1, FS_AddElement DEF DelayedInvariant, DelayedTypeOK
<1>3. CountsExact'
  <2> SUFFICES ASSUME NEW q \in Senders
               PROVE  count'[q] = Cardinality(Of(q, pending'))
    BY DEF CountsExact
  <2>1. count[q] = Cardinality(Of(q, pending)) /\ IsFiniteSet(pending)
        /\ count \in [Senders -> Nat] /\ m.plugin = p
    BY DEF DelayedInvariant, CountsExact, DelayedTypeOK
  <2>2. Cardinality(Of(q, pending')) = IF p = q THEN count[q] + 1 ELSE count[q]
    BY <1>1, <2>1, CountAdded
  <2>. QED BY <1>1, <2>1, <2>2
<1>4. NumbersGiven'
  BY <1>1 DEF DelayedInvariant, NumbersGiven, DelayedTypeOK, Messages
<1>5. ErasCurrent'
  BY <1>1 DEF DelayedInvariant, ErasCurrent, IsCurrent
<1>. QED BY <1>2, <1>3, <1>4, <1>5 DEF DelayedInvariant

\* cancel_plugin, with or without the end of an era.
LEMMA CancelKeeps ==
  ASSUME DelayedInvariant, NEW p \in Senders, CancelPlugin(p),
         UNCHANGED <<nextId, due>>,
         era' = era \/ era' = [era EXCEPT ![p] = @ + 1],
         request' \in [Senders -> Nat], bundle' \in [Senders -> Nat],
         latest' \in [Senders -> Nat]
  PROVE  DelayedInvariant'
<1>1. /\ pending' = {m \in pending : m.plugin # p} /\ pending' \subseteq pending
      /\ count' = [count EXCEPT ![p] = 0] /\ through' = [through EXCEPT ![p] = nextId - 1]
  BY DEF CancelPlugin
<1>2. DelayedTypeOK'
  <2>1. IsFiniteSet(pending')
    BY <1>1, FS_Subset DEF DelayedInvariant, DelayedTypeOK
  <2>2. era' \in [Senders -> Nat] /\ through' \in [Senders -> Nat]
    BY <1>1 DEF DelayedInvariant, DelayedTypeOK
  <2>. QED BY <1>1, <2>1, <2>2 DEF DelayedInvariant, DelayedTypeOK
<1>3. CountsExact'
  <2> SUFFICES ASSUME NEW q \in Senders
               PROVE  count'[q] = Cardinality(Of(q, pending'))
    BY DEF CountsExact
  <2>1. CASE q = p
    <3>1. Of(q, pending') = {}
      BY <1>1, <2>1 DEF Of
    <3>. QED BY <1>1, <2>1, <3>1, FS_EmptySet DEF DelayedInvariant, DelayedTypeOK
  <2>2. CASE q # p
    <3>1. Of(q, pending') = Of(q, pending)
      BY <1>1, <2>2 DEF Of
    <3>. QED BY <1>1, <2>2, <3>1 DEF DelayedInvariant, DelayedTypeOK, CountsExact
  <2>. QED BY <2>1, <2>2
<1>4. NumbersGiven'
  BY <1>1 DEF DelayedInvariant, NumbersGiven
<1>5. ErasCurrent'
  <2>1. \A m \in pending' : m.era = era'[m.plugin]
    BY <1>1 DEF DelayedInvariant, DelayedTypeOK, ErasCurrent, Messages
  <2>2. ASSUME due' # Absent, IsCurrent(due)'
        PROVE  due'.era = era'[due'.plugin]
    <3>1. due \in Messages /\ due.id < nextId /\ nextId \in Nat /\ through \in [Senders -> Nat]
      BY <2>2 DEF DelayedInvariant, DelayedTypeOK, NumbersGiven
    <3>2. due.plugin # p /\ due.plugin \in Senders
      BY <1>1, <2>2, <3>1 DEF IsCurrent, Messages
    <3>3. IsCurrent(due)
      BY <1>1, <2>2, <3>1, <3>2 DEF IsCurrent
    <3>. QED BY <2>2, <3>2, <3>3 DEF DelayedInvariant, DelayedTypeOK, ErasCurrent
  <2>. QED BY <2>1, <2>2 DEF ErasCurrent
<1>. QED BY <1>2, <1>3, <1>4, <1>5 DEF DelayedInvariant

\* The worker takes one.
LEMMA PopKeeps ==
  ASSUME DelayedInvariant, PopDue
  PROVE  DelayedInvariant'
<1>1. PICK m \in pending :
          /\ pending' = pending \ {m} /\ due' = m
          /\ count' = [count EXCEPT ![m.plugin] = @ - 1]
          /\ UNCHANGED <<bundle, latest, era, request, through, nextId>>
  BY DEF PopDue, book
<1>2. m \in Messages /\ m.plugin \in Senders /\ m.id < nextId /\ m.era = era[m.plugin]
  BY DEF DelayedInvariant, DelayedTypeOK, NumbersGiven, ErasCurrent, Messages
<1>3. IsFiniteSet(pending) /\ IsFiniteSet(pending')
  BY <1>1, FS_Subset DEF DelayedInvariant, DelayedTypeOK
<1>4. Cardinality(Of(m.plugin, pending)) \in Nat \ {0}
  <2>1. IsFiniteSet(Of(m.plugin, pending)) /\ m \in Of(m.plugin, pending)
    BY <1>3, FS_Subset DEF Of
  <2>. QED BY <2>1, FS_CardinalityType, FS_EmptySet
<1>5. ASSUME NEW q \in Senders
      PROVE  count'[q] = Cardinality(Of(q, pending')) /\ count'[q] \in Nat
  <2>1. count[q] = Cardinality(Of(q, pending)) /\ count \in [Senders -> Nat]
    BY DEF DelayedInvariant, CountsExact, DelayedTypeOK
  <2>2. Cardinality(Of(q, pending')) = IF m.plugin = q THEN count[q] - 1 ELSE count[q]
    BY <1>1, <1>3, <2>1, CountRemoved
  <2>. QED BY <1>1, <1>2, <1>4, <2>1, <2>2
<1>6. count' \in [Senders -> Nat]
  BY <1>1, <1>2, <1>5 DEF DelayedInvariant, DelayedTypeOK
<1>. QED BY <1>1, <1>2, <1>3, <1>5, <1>6
     DEF DelayedInvariant, DelayedTypeOK, CountsExact, NumbersGiven, ErasCurrent

-----------------------------------------------------------------------------
(* The system *)

LEMMA DelayedInitially ==
  ASSUME DelayedInit
  PROVE  DelayedInvariant
<1>1. \A p \in Senders : Of(p, pending) = {}
  BY DEF DelayedInit, Of
<1>. QED BY <1>1, FS_EmptySet
     DEF DelayedInit, DelayedInvariant, DelayedTypeOK, CountsExact, NumbersGiven, ErasCurrent

LEMMA DelayedStep ==
  ASSUME DelayedInvariant, [DelayedNext]_delayedVars
  PROVE  DelayedInvariant'
<1> USE DEF book, schedules
<1>1. ASSUME NEW p \in Senders, BeginRequest(p) \/ EndRequest(p) \/ RetireRequests(p)
                                \/ GrantNotifications(p)
      PROVE  DelayedInvariant'
  BY <1>1, SchedulesFramed DEF DelayedInvariant, DelayedTypeOK, BeginRequest, EndRequest,
     RetireRequests, GrantNotifications
<1>2. ASSUME NEW p \in Senders, Schedule(p)
      PROVE  DelayedInvariant'
  BY <1>2, ScheduleKeeps
<1>3. ASSUME NEW p \in Senders, RevokeNotifications(p) \/ EndActivation(p) \/ Enable(p)
      PROVE  DelayedInvariant'
  <2>1. CASE RevokeNotifications(p)
    BY <2>1, CancelKeeps DEF RevokeNotifications, EndEra, DelayedInvariant, DelayedTypeOK
  <2>2. CASE EndActivation(p)
    <3>1. bundle' \in [Senders -> Nat] /\ latest' \in [Senders -> Nat]
      BY <2>2 DEF EndActivation, DelayedInvariant, DelayedTypeOK
    <3>2. CancelPlugin(p) /\ era' = [era EXCEPT ![p] = @ + 1]
          /\ UNCHANGED <<nextId, due, request>>
      BY <2>2 DEF EndActivation, EndEra
    <3>. QED BY <3>1, <3>2, CancelKeeps DEF DelayedInvariant, DelayedTypeOK
  <2>3. CASE Enable(p)
    BY <2>3, CancelKeeps DEF Enable, DelayedInvariant, DelayedTypeOK
  <2>. QED BY <1>3, <2>1, <2>2, <2>3
<1>4. CASE PopDue
  BY <1>4, PopKeeps
<1>5. CASE CommitScheduledMessage
  BY <1>5 DEF CommitScheduledMessage, DelayedInvariant, DelayedTypeOK, CountsExact,
     NumbersGiven, ErasCurrent
<1>6. CASE UNCHANGED delayedVars
  BY <1>6, SchedulesFramed DEF delayedVars, DelayedInvariant, DelayedTypeOK
<1>. QED BY <1>1, <1>2, <1>3, <1>4, <1>5, <1>6 DEF DelayedNext

LEMMA DelayedInvariantHolds == DelayedSpec => []DelayedInvariant
<1>1. DelayedInit => DelayedInvariant
  BY DelayedInitially
<1>2. DelayedInvariant /\ [DelayedNext]_delayedVars => DelayedInvariant'
  BY DelayedStep
<1>. QED BY <1>1, <1>2, PTL DEF DelayedSpec

\* The count that limits a plugin is that of its queued messages, and the queued ones are
\* of the current grant and activation (pending_by_plugin, cancel_plugin).
THEOREM DelayedMessagesCounted == DelayedSpec => []DelayedMessagesExact
<1>1. DelayedInvariant => DelayedMessagesExact
  BY DEF DelayedInvariant, CountsExact, ErasCurrent, DelayedMessagesExact, Of
<1>. QED BY <1>1, DelayedInvariantHolds, PTL

\* No message of an ended grant or activation is published, although the worker may have
\* popped it before the revocation and although the permission may be granted again under
\* the same activation (commit_scheduled_message).
THEOREM RevokedMessagesSilent == DelayedSpec => RevokedMessageSilent
<1>1. DelayedInvariant /\ [DelayedNext]_delayedVars
         => [\A m \in published' \ published : m.era = era[m.plugin]]_delayedVars
  <2> SUFFICES ASSUME DelayedInvariant, DelayedNext, NEW m \in published' \ published
               PROVE  m.era = era[m.plugin]
    OBVIOUS
  <2>1. CASE CommitScheduledMessage
    BY <2>1 DEF CommitScheduledMessage, DelayedInvariant, ErasCurrent
  <2>2. CASE ~CommitScheduledMessage
    BY <2>2 DEF DelayedNext, BeginRequest, EndRequest, Schedule, RetireRequests,
       RevokeNotifications, GrantNotifications, EndActivation, Enable, PopDue
  <2>. QED BY <2>1, <2>2
<1>. QED BY <1>1, DelayedInvariantHolds, PTL DEF DelayedSpec, RevokedMessageSilent
=============================================================================
