----------------------------- MODULE CallPolicy -----------------------------
(***************************************************************************)
(* What the host promises about the network calls of a plugin request,     *)
(* whatever cache, lock or registry it keeps: a request may call while it  *)
(* is authorised, within its limits; an answer is delivered only while it  *)
(* is; and a request that lost its authorisation after a call never gets   *)
(* it back.                                                                *)
(***************************************************************************)
EXTENDS Integers, FiniteSets

CONSTANTS Requests, Calls, CallLimit, ConcurrentLimit, HostLimit

VARIABLES
    authorised,   \* requests that may call
    used,         \* attempts of each request
    flight,       \* calls in flight of each request
    delivered     \* calls whose answer reached the plugin

vars == <<authorised, used, flight, delivered>>

InFlight == UNION {flight[r] : r \in Requests}

Init ==
    /\ authorised = {}
    /\ used = [r \in Requests |-> 0]
    /\ flight = [r \in Requests |-> {}]
    /\ delivered = {}

\* A request is dispatched under the authority of its plugin.
Authorise(S) ==
    /\ \A r \in S : used[r] = 0
    /\ authorised' = authorised \cup S
    /\ UNCHANGED <<used, flight, delivered>>

\* An attempt counts whether or not a call comes of it.
Attempt(r) ==
    /\ r \in authorised /\ used[r] < CallLimit
    /\ used' = [used EXCEPT ![r] = @ + 1]
    /\ \/ UNCHANGED flight
       \/ \E t \in Calls \ (InFlight \cup delivered) :
             /\ Cardinality(flight[r]) < ConcurrentLimit
             /\ Cardinality(InFlight) < HostLimit
             /\ flight' = [flight EXCEPT ![r] = @ \cup {t}]
    /\ UNCHANGED <<authorised, delivered>>

Deliver(r, t) ==
    /\ r \in authorised /\ t \in flight[r]
    /\ flight' = [flight EXCEPT ![r] = @ \ {t}]
    /\ delivered' = delivered \cup {t}
    /\ UNCHANGED <<authorised, used>>

\* Calls fail or are cancelled, requests lose their authorisation, and others
\* gain theirs in the same step.
Revoke ==
    /\ \A r \in Requests : flight'[r] \subseteq flight[r]
    /\ \A r \in authorised' \ authorised : used[r] = 0
    /\ DOMAIN flight' = Requests
    /\ UNCHANGED <<used, delivered>>

Next ==
    \/ \E S \in SUBSET Requests : Authorise(S)
    \/ \E r \in Requests : Attempt(r) \/ \E t \in Calls : Deliver(r, t)
    \/ Revoke

Spec == Init /\ [][Next]_vars
=============================================================================
