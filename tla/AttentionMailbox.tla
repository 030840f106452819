-------------------------- MODULE AttentionMailbox --------------------------
(***************************************************************************)
(* The mailbox of NativeAttentionCoordinator (native_attention/mod.rs) as  *)
(* a value.  next_event always takes the event with the smallest sequence, *)
(* and every event gets the next sequence when it is admitted, so the four *)
(* stores of the mailbox are one sequence of events in that order; the     *)
(* stores' capacities are counts over it.  Toasts, their callbacks and the *)
(* tray are left out: nothing here waits for them.                         *)
(***************************************************************************)
EXTENDS PluginTimers, Sequences, SequencesExt

CONSTANTS
    OrdinaryCapacity,   \* ORDINARY_CAPACITY
    KeyCapacity,        \* TIMER_KEY_CAPACITY
    FocusCapacity       \* FOCUS_CAPACITY

ASSUME CapacityAssumption ==
    OrdinaryCapacity \in Nat /\ KeyCapacity \in Nat /\ FocusCapacity \in Nat

\* "key" is the slot of a timer event; the event of a completion without audio has
\* a key of its own (timerless_key) and no ticket.
Ordinary(focused) == [kind |-> "ordinary", focused |-> focused]
Published(key, ticket, focused, epoch) ==
    [kind |-> "published", key |-> key, ticket |-> ticket, focused |-> focused, epoch |-> epoch]
Cancelled(ticket, stop) ==
    [kind |-> "cancelled", key |-> ticket.key, ticket |-> ticket, stop |-> stop]
Focus(focused, stop) == [kind |-> "focus", focused |-> focused, stop |-> stop]

EventsOf(m, kind) == {m.events[i] : i \in {j \in DOMAIN m.events : m.events[j].kind = kind}}
CountOf(m, kind) == Cardinality({j \in DOMAIN m.events : m.events[j].kind = kind})
PublishedAt(m, key) == {e \in EventsOf(m, "published") : e.key = key}
CancelledAt(m, key) == {e \in EventsOf(m, "cancelled") : e.key = key}
SlotKeys(m) == {e.key : e \in EventsOf(m, "published") \union EventsOf(m, "cancelled")}
SlotFor(m, key) == key \in SlotKeys(m) \/ Cardinality(SlotKeys(m)) < KeyCapacity

NewMailbox ==
    [events |-> <<>>, epoch |-> 1, claimed |-> FALSE, owner |-> None,
     focused |-> FALSE, terminal |-> FALSE]

Post(m, e) == [m EXCEPT !.events = Append(@, e)]
Terminate(m) == [m EXCEPT !.terminal = TRUE]

(***************************************************************************)
(* The owner of the alarm sound.  The playback key is the epoch.           *)
(***************************************************************************)
AdvanceEpoch(m) == [m EXCEPT !.owner = None, !.claimed = FALSE, !.epoch = @ + 1]

OwnerIs(m, ticket, epoch, phase) ==
    m.owner = [ticket |-> ticket, epoch |-> epoch, phase |-> phase]
Playing(m) == m.owner # None /\ m.owner.phase = "playing"

\* The key to stop when the owner is revoked; a reserved owner has not started.
StopKey(m) == IF Playing(m) THEN m.owner.epoch ELSE 0

EpochOpen(m, epoch) ==
    ~m.terminal /\ m.epoch = epoch /\ ~m.claimed /\ m.owner = None
Reserve(m, ticket) ==
    [m EXCEPT !.claimed = TRUE,
              !.owner = [ticket |-> ticket, epoch |-> m.epoch, phase |-> "reserved"]]
Play(m) == [m EXCEPT !.owner.phase = "playing"]

(***************************************************************************)
(* What the other threads put into the mailbox.                            *)
(***************************************************************************)
AdmitsOrdinary(m) == ~m.terminal /\ CountOf(m, "ordinary") < OrdinaryCapacity

AdmitsTimer(m, key) == ~m.terminal /\ SlotFor(m, key)
\* A new event replaces the one that waits in its slot.
Vacated(events, key) ==
    LET slot == {i \in DOMAIN events : events[i].kind = "published" /\ events[i].key = key}
    IN IF slot = {} THEN events ELSE RemoveAt(events, CHOOSE i \in slot : TRUE)
PublishTimer(m, key, ticket) ==
    Post([m EXCEPT !.events = Vacated(@, key)], Published(key, ticket, m.focused, m.epoch))
ReplacedTickets(m, key) == {e.ticket : e \in PublishedAt(m, key)} \ {None}

\* A second cancellation for a key, or no slot for one, ends native attention.
CancelOverflows(m, t) ==
    /\ ~\E e \in CancelledAt(m, t.key) : e.ticket = t
    /\ ~SlotFor(m, t.key) \/ CancelledAt(m, t.key) # {}
AdmitsCancel(m, t) == ~m.terminal /\ SlotFor(m, t.key) /\ CancelledAt(m, t.key) = {}
\* Fault: the key is asked for when the owner is gone.
CancelAdvancedFirst(m, t) ==
    IF m.owner # None /\ m.owner.ticket = t
      THEN Post(AdvanceEpoch(m), Cancelled(t, StopKey(AdvanceEpoch(m))))
      ELSE Post(m, Cancelled(t, 0))
CancelTimer(m, t) ==
    IF m.owner # None /\ m.owner.ticket = t
      THEN Post(AdvanceEpoch(m), Cancelled(t, StopKey(m)))
      ELSE Post(m, Cancelled(t, 0))

FocusOverflows(m) == ~m.terminal /\ CountOf(m, "focus") >= FocusCapacity
\* Focus takes the sound from whoever owns it and closes the epoch to events
\* that were published before it.
AdmitFocus(m, focused) ==
    IF focused
      THEN Post([AdvanceEpoch(m) EXCEPT !.focused = TRUE], Focus(TRUE, StopKey(m)))
      ELSE Post([m EXCEPT !.focused = FALSE], Focus(FALSE, 0))
=============================================================================
