---------------------------- MODULE PluginTimers ----------------------------
(***************************************************************************)
(* The record that PluginTimerService (public_plugins/timers.rs) keeps for *)
(* a timer key, and the operations on it.  Every operation runs under the  *)
(* lock of the service.  Time is left out: a queued item may fall due at   *)
(* any step, so that due_at_ms and the order of the queue say nothing.     *)
(* Counters do not reach 2^64 here.                                        *)
(*                                                                         *)
(* "run" numbers the rounds over all records.  No operation reads it: the  *)
(* counters of a record restart when the record is removed and created     *)
(* again, and the properties need to tell such rounds apart.               *)
(***************************************************************************)
EXTENDS Naturals, FiniteSets

CONSTANT None

Phases == {"idle", "running", "paused", "claiming", "fired"}
AudioStates == {"issued", "admitted", "confirmed"}

ClaimTickets(K) == [key : K, round : Nat, claim : Nat, rev : Nat]
AudioTickets(K) == [key : K, round : Nat, audio : Nat, rev : Nat]
QueueItems(K) == [key : K, round : Nat, rev : Nat]

Records(K) ==
    [phase : Phases, rev : Nat, round : Nat, claims : Nat, audios : Nat, run : Nat,
     claim : ClaimTickets(K) \union {None}, admitted : BOOLEAN,
     audio : [state : AudioStates, ticket : AudioTickets(K)] \union {None}]

NewRecord ==
    [phase |-> "idle", rev |-> 0, round |-> 0, claims |-> 0, audios |-> 0, run |-> 0,
     claim |-> None, admitted |-> FALSE, audio |-> None]

\* A record that was never started, or was removed, behaves as a new one.
Rec(r) == IF r = None THEN NewRecord ELSE r

Holds(r, state, ticket) ==
    r # None /\ r.audio = [state |-> state, ticket |-> ticket]

(***************************************************************************)
(* Start, stop and reset by the window.                                    *)
(***************************************************************************)
\* The ticket whose sound must be cancelled when an operation takes the audio slot.
TakenAudio(r) ==
    IF r # None /\ r.audio # None /\ r.audio.state = "admitted" THEN {r.audio.ticket} ELSE {}

StartRound(r, run) ==
    [Rec(r) EXCEPT !.phase = "running", !.round = @ + 1, !.rev = @ + 1, !.run = run,
                   !.claim = None, !.audio = None]

Resume(r) == [r EXCEPT !.phase = "running", !.rev = @ + 1]
Pause(r)  == [r EXCEPT !.phase = "paused", !.rev = @ + 1]

Reset(r) ==
    [r EXCEPT !.phase = "idle", !.rev = @ + 1, !.claim = None, !.audio = None]

QueueItem(key, r) == [key |-> key, round |-> r.round, rev |-> r.rev]
\* Fault: the item of the earlier due point stays.
UnqueuedNone(queue, key) == queue
Unqueued(queue, key) == {i \in queue : i.key # key}

(***************************************************************************)
(* Claim of a due timer and its completion by the worker.                  *)
(***************************************************************************)
ItemCurrent(r, i) ==
    r # None /\ r.phase = "running" /\ r.round = i.round /\ r.rev = i.rev

ClaimTicket(key, r) ==
    [key |-> key, round |-> r.round, claim |-> r.claims + 1, rev |-> r.rev + 1]

Claim(key, r) ==
    [r EXCEPT !.phase = "claiming", !.claims = @ + 1, !.rev = @ + 1,
              !.claim = ClaimTicket(key, r), !.admitted = FALSE]

\* Fault: any claim of the round is taken for this one.
ClaimOfRound(r, t) == r # None /\ r.round = t.round
ClaimMatches(r, t) ==
    /\ r # None
    /\ r.phase = "claiming" /\ r.round = t.round /\ r.rev = t.rev
    /\ r.claim = t

AdmitClaim(r) == [r EXCEPT !.admitted = TRUE]

\* complete_claim changes nothing without the claim, nor when it was not admitted.
CanComplete(r, t, persisted) ==
    ClaimMatches(r, t) /\ (persisted => r.admitted)

IssuedTicket(r, t) ==
    [key |-> t.key, round |-> t.round, audio |-> r.audios + 1, rev |-> r.rev + 1]

CompleteClaim(r, t, persisted) ==
    IF persisted
      THEN [r EXCEPT !.phase = "fired", !.claim = None, !.audios = @ + 1, !.rev = @ + 1,
                     !.audio = [state |-> "issued", ticket |-> IssuedTicket(r, t)]]
      ELSE [r EXCEPT !.phase = "idle", !.claim = None, !.rev = @ + 1]

(***************************************************************************)
(* The audio slot.                                                         *)
(***************************************************************************)
MoveAudio(r, ticket, from, to) ==
    IF Holds(r, from, ticket) THEN [r EXCEPT !.audio.state = to] ELSE r

\* Focus of the main window and the end of native attention confirm every slot.
ConfirmCurrent(r) ==
    IF r # None /\ r.audio # None THEN [r EXCEPT !.audio.state = "confirmed"] ELSE r
=============================================================================
