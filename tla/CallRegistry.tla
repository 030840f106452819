---------------------------- MODULE CallRegistry ----------------------------
(***************************************************************************)
(* PluginNetworkRequestRegistry (public_plugins/network/registry.rs) as a  *)
(* value: the attempts each request context has used, the network calls in *)
(* flight, and the slots they hold.  The registry is one mutex, so each of *)
(* its operations is a function from a registry to a registry; NetworkGate *)
(* says who calls them and when.                                           *)
(***************************************************************************)
EXTENDS Integers, FiniteSets

CONSTANTS
    MaxCalls,        \* MAX_CALLS_PER_CONTEXT
    MaxConcurrent,   \* MAX_CONCURRENT_PER_CONTEXT
    MaxHostWide      \* MAX_CONCURRENT_HOST_WIDE

ASSUME LimitsAssumption ==
    MaxCalls \in Nat /\ MaxConcurrent \in Nat /\ MaxHostWide \in Nat

Usages == [attempts : Nat, next : Nat, active : Nat, retired : BOOLEAN]

\* A context without an entry has usage NoUsage.
NoUsage == [attempts |-> 0, next |-> 1, active |-> 0, retired |-> FALSE]
EmptyRegistry == [usage |-> [x \in {} |-> NoUsage], calls |-> {}, active |-> 0,
                  terminal |-> FALSE]

Known(g) == DOMAIN g.usage
UsageOf(g, x) == IF x \in Known(g) THEN g.usage[x] ELSE NoUsage
CallsOf(g, x) == {c \in g.calls : c.ctx = x}
SetUsage(g, x, u) ==
    [g EXCEPT !.usage = [y \in Known(g) \cup {x} |-> IF y = x THEN u ELSE g.usage[y]]]

\* reserve_attempt: every attempt counts, even one that is never registered.
CanAttempt(g, x) ==
    ~g.terminal /\ ~UsageOf(g, x).retired /\ UsageOf(g, x).attempts < MaxCalls
Attempt(g, x) ==
    SetUsage(g, x, [UsageOf(g, x) EXCEPT !.attempts = @ + 1, !.next = @ + 1])
NextCall(g, x) == [ctx |-> x, seq |-> UsageOf(g, x).next]

\* register
CanRegister(g, c) ==
    /\ ~g.terminal
    /\ c.ctx \in Known(g) /\ ~g.usage[c.ctx].retired
    /\ g.usage[c.ctx].active < MaxConcurrent /\ g.active < MaxHostWide
    /\ c \notin g.calls
Register(g, c) ==
    [SetUsage(g, c.ctx, [g.usage[c.ctx] EXCEPT !.active = @ + 1]) EXCEPT
        !.calls = @ \cup {c}, !.active = @ + 1]

\* release_slot: a count that would fall below zero closes the registry.
Release(g, x) ==
    IF g.active > 0 /\ x \in Known(g) /\ g.usage[x].active > 0
    THEN [SetUsage(g, x, [g.usage[x] EXCEPT !.active = @ - 1]) EXCEPT !.active = @ - 1]
    ELSE [g EXCEPT !.terminal = TRUE]

\* finish: only a call that is still registered frees its slot.
Finish(g, c) ==
    IF c \in g.calls THEN Release([g EXCEPT !.calls = @ \ {c}], c.ctx) ELSE g

\* Fault: cancelled calls keep their host-wide slots.
CancelKeepingSlots(g, S) ==
    [g EXCEPT !.calls = {c \in @ : c.ctx \notin S},
              !.usage = [x \in Known(g) \ S |-> g.usage[x]]]

\* cancel_matching: the contexts in S are retired, their calls removed and
\* released one by one, and those left without a call forgotten.
Cancelled(g, S) == {c \in g.calls : c.ctx \in S}
CancelContexts(g, S) ==
    LET left(x) == g.usage[x].active - Cardinality(CallsOf(g, x))
        kept == {x \in Known(g) : x \notin S \/ left(x) # 0}
        exact == \A x \in S \cap Known(g) : left(x) >= 0
    IN  [usage |-> [x \in kept |->
                       IF x \in S THEN [g.usage[x] EXCEPT !.active = left(x), !.retired = TRUE]
                       ELSE g.usage[x]],
         calls |-> g.calls \ Cancelled(g, S),
         active |-> g.active - Cardinality(Cancelled(g, S)),
         terminal |-> g.terminal \/ ~exact \/ g.active < Cardinality(Cancelled(g, S))]

\* shutdown
Close(g) == [CancelContexts(g, Known(g)) EXCEPT !.terminal = TRUE]

-----------------------------------------------------------------------------
(* What the operations keep *)

\* Every slot is held by one registered call, and every call by a known context
\* that is not retired and has issued its number.
Exact(g) ==
    /\ g.active = Cardinality(g.calls)
    /\ \A c \in g.calls : c.ctx \in Known(g) /\ c.seq < g.usage[c.ctx].next
    /\ \A x \in Known(g) :
          /\ g.usage[x].active = Cardinality(CallsOf(g, x))
          /\ ~g.usage[x].retired

WithinLimits(g) ==
    /\ g.active <= MaxHostWide
    /\ \A x \in Known(g) :
          g.usage[x].active <= MaxConcurrent /\ g.usage[x].attempts <= MaxCalls
=============================================================================
