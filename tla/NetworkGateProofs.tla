-------------------------- MODULE NetworkGateProofs --------------------------
(***************************************************************************)
(* For any number of plugins, requests and calls, whatever is submitted,   *)
(* retired, replaced, lost or shut down: the registry counts exactly the   *)
(* calls it holds and knows a context only while its request executes      *)
(* with the authority of its plugin, and so the gate keeps what CallPolicy *)
(* promises.                                                               *)
(*                                                                         *)
(* The registry forgets the attempts of a context it cancels.  That a      *)
(* request cannot call again from zero rests on the rest of the invariant: *)
(* request numbers are never used twice, what waits has made no attempt,   *)
(* and a request that still executes with the authority of its plugin, but *)
(* is not in the registry, has made none either.                           *)
(***************************************************************************)
EXTENDS NetworkGate, RequestQueueProofs, FiniteSetTheorems

-----------------------------------------------------------------------------
(* The invariant *)

\* A registry whose counts are right.
RegistryOK(g) ==
    /\ g = [usage |-> g.usage, calls |-> g.calls, active |-> g.active,
            terminal |-> g.terminal]
    /\ Known(g) \subseteq NetContexts
    /\ g.usage \in [Known(g) -> Usages]
    /\ g.calls \subseteq [ctx : NetContexts, seq : Nat] /\ IsFiniteSet(g.calls)
    /\ g.active \in Nat /\ g.terminal \in BOOLEAN
    /\ Exact(g) /\ WithinLimits(g)

GateTypeOK ==
    /\ queue \in [Plugins -> Queues \cup {None}]
    /\ live \subseteq Requests
    /\ nextRequest \in Nat /\ nextInc \in Nat /\ nextCall \in Nat
    /\ bundle \in [Plugins -> Bundles \cup {None}]
    /\ authority \in [Plugins -> Identities \cup {None}]
    /\ closed \in BOOLEAN
    /\ tasks \subseteq Tasks
    /\ attempts \in [Requests -> Nat]
    /\ delivered \subseteq Calls

QueuesSound == \A p \in Plugins : queue[p] # None => Sound(p, queue[p])

Holder(p) == queue[p].running.req
HasWaiting(p) == queue[p] # None /\ queue[p].waiting # None
\* A result action lives by the lease of its own number.
OwnLease(c, n) == c.kind = "result" => c.lease = n /\ c.pub = None

\* A request number is given to one request, and what waits has not called.
NumbersUnique ==
    /\ \A p \in Plugins :
          /\ Holds(p) =>
                /\ Holder(p).id < nextRequest
                /\ OwnLease(Holder(p), Holder(p).id)
          /\ HasWaiting(p) =>
                /\ queue[p].waiting.id < nextRequest
                /\ attempts[queue[p].waiting.id] = 0
                /\ Holds(p) => Holder(p).id # queue[p].waiting.id
    /\ \A p, q \in Plugins : p # q =>
          /\ Holds(p) /\ Holds(q) => Holder(p).id # Holder(q).id
          /\ Holds(p) /\ HasWaiting(q) => Holder(p).id # queue[q].waiting.id
          /\ HasWaiting(p) /\ HasWaiting(q) => queue[p].waiting.id # queue[q].waiting.id
    /\ \A r \in Requests : r >= nextRequest => attempts[r] = 0

\* The queue of a plugin whose Runtime is recovered is empty, with the new identity.
RecoveryQuiet ==
    \A p \in Plugins : In(p, "recovery") =>
        queue[p] # None /\ queue[p].running = None /\ Identity(queue[p]) = Identity(bundle[p])

\* The registry counts the attempts of a request from the first one.
Uncounted(p) ==
    /\ Holds(p) /\ queue[p].running.current
    /\ authority[p] = Identity(queue[p])
    /\ NetContext(p, queue[p]) \notin Known(registry)
AttemptsCounted ==
    /\ \A x \in Known(registry) : registry.usage[x].attempts = attempts[x.id]
    /\ \A p \in Plugins : Uncounted(p) => attempts[Holder(p).id] = 0

\* No number of a call object or of a call is used twice.
TasksUnique ==
    /\ \A t \in tasks :
          /\ t.call < nextCall /\ attempts[t.id.ctx.id] > 0
          /\ t.id.ctx \in Known(registry) => t.id.seq < registry.usage[t.id.ctx].next
    /\ \A t, u \in tasks : t.call = u.call \/ t.id = u.id => t = u
    /\ \A c \in delivered : c \in Nat /\ c < nextCall

GateInvariant ==
    /\ GateTypeOK /\ QueuesSound
    /\ RegistryOK(registry) /\ (registry.terminal => closed) /\ ContextsOwned
    /\ NumbersUnique /\ RecoveryQuiet /\ AttemptsCounted /\ TasksUnique

-----------------------------------------------------------------------------
(* The registry *)

\* The shape of a registry whose usage of one context is replaced.
LEMMA SetUsageFacts ==
  ASSUME NEW g, RegistryOK(g), NEW x \in NetContexts, NEW u \in Usages
  PROVE  LET h == SetUsage(g, x, u)
         IN  /\ h = [usage |-> h.usage, calls |-> g.calls, active |-> g.active,
                     terminal |-> g.terminal]
             /\ Known(h) = Known(g) \cup {x}
             /\ h.usage \in [Known(g) \cup {x} -> Usages]
             /\ h.usage[x] = u
             /\ \A y \in Known(g) : y # x => h.usage[y] = g.usage[y]
<1> DEFINE f == [y \in Known(g) \cup {x} |-> IF y = x THEN u ELSE g.usage[y]]
<1>1. SetUsage(g, x, u) = [usage |-> f, calls |-> g.calls, active |-> g.active,
                           terminal |-> g.terminal]
  BY DEF SetUsage, RegistryOK
<1>2. f \in [Known(g) \cup {x} -> Usages] /\ f[x] = u
      /\ \A y \in Known(g) : y # x => f[y] = g.usage[y]
  BY DEF RegistryOK
<1>. QED BY <1>1, <1>2 DEF Known

\* The usage of a context, known or not.
LEMMA UsageFacts ==
  ASSUME NEW g, RegistryOK(g), NEW x \in NetContexts
  PROVE  /\ UsageOf(g, x) \in Usages
         /\ UsageOf(g, x).active = Cardinality(CallsOf(g, x))
         /\ UsageOf(g, x).active <= MaxConcurrent
         /\ ~UsageOf(g, x).retired
<1>1. CASE x \in Known(g)
  BY <1>1 DEF UsageOf, RegistryOK, Exact, WithinLimits
<1>2. CASE x \notin Known(g)
  <2>1. CallsOf(g, x) = {}
    BY <1>2 DEF CallsOf, RegistryOK, Exact
  <2>2. UsageOf(g, x) = NoUsage
    BY <1>2 DEF UsageOf
  <2>. QED BY <2>1, <2>2, FS_EmptySet, LimitsAssumption DEF NoUsage, Usages
<1>. QED BY <1>1, <1>2

\* The calls of one context are finite, and at most all.
LEMMA CallsFinite ==
  ASSUME NEW g, RegistryOK(g), NEW x
  PROVE  IsFiniteSet(CallsOf(g, x)) /\ Cardinality(CallsOf(g, x)) \in Nat
BY FS_Subset, FS_CardinalityType DEF CallsOf, RegistryOK

\* An attempt of a context that has one left.
LEMMA AttemptOK ==
  ASSUME NEW g, RegistryOK(g), NEW x \in NetContexts, CanAttempt(g, x)
  PROVE  LET h == Attempt(g, x)
         IN  /\ RegistryOK(h)
             /\ h.calls = g.calls /\ h.terminal = g.terminal /\ h.active = g.active
             /\ Known(h) = Known(g) \cup {x}
             /\ h.usage[x].attempts = UsageOf(g, x).attempts + 1
             /\ h.usage[x].next = UsageOf(g, x).next + 1
             /\ \A y \in Known(g) : y # x => h.usage[y] = g.usage[y]
<1> DEFINE v == UsageOf(g, x)
           u == [v EXCEPT !.attempts = @ + 1, !.next = @ + 1]
           h == SetUsage(g, x, u)
<1>1. v \in Usages /\ v.active = Cardinality(CallsOf(g, x)) /\ v.active <= MaxConcurrent
      /\ ~v.retired
  BY UsageFacts
<1> HIDE DEF v
<1>2. u \in Usages /\ u.attempts = v.attempts + 1 /\ u.next = v.next + 1
      /\ u.active = v.active /\ u.retired = v.retired
      /\ v.attempts \in Nat /\ v.next \in Nat
  <2> DEFINE a == v.attempts + 1
             b == v.next + 1
             w == [v EXCEPT !.attempts = a, !.next = b]
  <2>1. a \in Nat /\ b \in Nat /\ v.attempts \in Nat /\ v.next \in Nat
    BY <1>1 DEF Usages
  <2> HIDE DEF a, b
  <2>2. w \in Usages /\ w.attempts = a /\ w.next = b
        /\ w.active = v.active /\ w.retired = v.retired
    <3>1. v \in Usages /\ a \in Nat /\ b \in Nat
      BY <1>1, <2>1
    <3>. QED BY <3>1 DEF Usages
  <2>3. w = u
    BY DEF a, b
  <2> HIDE DEF w, u
  <2>. QED BY <2>1, <2>2, <2>3 DEF a, b
<1> HIDE DEF u
<1>3. /\ h = [usage |-> h.usage, calls |-> g.calls, active |-> g.active,
              terminal |-> g.terminal]
      /\ Known(h) = Known(g) \cup {x}
      /\ h.usage \in [Known(g) \cup {x} -> Usages]
      /\ h.usage[x] = u
      /\ \A y \in Known(g) : y # x => h.usage[y] = g.usage[y]
  BY <1>2, SetUsageFacts
<1> HIDE DEF h
<1>4. h.calls = g.calls /\ h.terminal = g.terminal /\ h.active = g.active
  BY <1>3
<1>5. v.attempts < MaxCalls /\ v.attempts + 1 <= MaxCalls
  BY <1>2, LimitsAssumption DEF CanAttempt, v
<1>6. Exact(h)
  <2>1. h.active = Cardinality(h.calls)
    BY <1>4 DEF RegistryOK, Exact
  <2>2. ASSUME NEW c \in h.calls
        PROVE  c.ctx \in Known(h) /\ c.seq < h.usage[c.ctx].next
    <3>1. c.ctx \in Known(g) /\ c.seq < g.usage[c.ctx].next /\ c.seq \in Nat
          /\ g.usage[c.ctx].next \in Nat
      BY <1>4 DEF RegistryOK, Exact, Usages
    <3>2. CASE c.ctx = x
      <4>1. v.next = g.usage[x].next
        BY <3>1, <3>2 DEF v, UsageOf
      <4>. QED BY <1>2, <1>3, <3>1, <3>2, <4>1
    <3>3. CASE c.ctx # x
      BY <1>3, <3>1, <3>3
    <3>. QED BY <3>2, <3>3
  <2>3. ASSUME NEW y \in Known(h)
        PROVE  h.usage[y].active = Cardinality(CallsOf(h, y)) /\ ~h.usage[y].retired
    <3>1. CallsOf(h, y) = CallsOf(g, y)
      BY <1>4 DEF CallsOf
    <3>2. CASE y = x
      BY <1>1, <1>2, <1>3, <3>1, <3>2
    <3>3. CASE y # x
      BY <1>3, <3>1, <3>3 DEF RegistryOK, Exact
    <3>. QED BY <3>2, <3>3
  <2>. QED BY <2>1, <2>2, <2>3 DEF Exact
<1>7. WithinLimits(h)
  <2>1. h.active <= MaxHostWide
    BY <1>4 DEF RegistryOK, WithinLimits
  <2>2. ASSUME NEW y \in Known(h)
        PROVE  h.usage[y].active <= MaxConcurrent /\ h.usage[y].attempts <= MaxCalls
    <3>1. CASE y = x
      BY <1>1, <1>2, <1>3, <1>5, <3>1
    <3>2. CASE y # x
      BY <1>3, <3>2 DEF RegistryOK, WithinLimits
    <3>. QED BY <3>1, <3>2
  <2>. QED BY <2>1, <2>2 DEF WithinLimits
<1>8. RegistryOK(h)
  BY <1>3, <1>4, <1>6, <1>7 DEF RegistryOK
<1>9. Attempt(g, x) = h
  BY DEF h, u, v, Attempt
<1>. QED BY <1>2, <1>3, <1>4, <1>8, <1>9 DEF v

\* A registry whose calls and their number are replaced.
LEMMA CallsReplaced ==
  ASSUME NEW k, k = [usage |-> k.usage, calls |-> k.calls, active |-> k.active,
                     terminal |-> k.terminal],
         NEW S, NEW m
  PROVE  [k EXCEPT !.calls = S, !.active = m] =
            [usage |-> k.usage, calls |-> S, active |-> m, terminal |-> k.terminal]
<1> DEFINE l == [k EXCEPT !.calls = S]
<1>1. [k EXCEPT !.calls = S, !.active = m] = [l EXCEPT !.active = m]
  OBVIOUS
<1>2. l = [usage |-> k.usage, calls |-> S, active |-> k.active, terminal |-> k.terminal]
  OBVIOUS
<1> HIDE DEF l
<1>3. [l EXCEPT !.active = m] =
         [usage |-> k.usage, calls |-> S, active |-> m, terminal |-> k.terminal]
  BY <1>2
<1>. QED BY <1>1, <1>3

\* The calls of one context change, and its usage with them.
LEMMA RecountOK ==
  ASSUME NEW g, RegistryOK(g), NEW x \in Known(g),
         NEW S \in SUBSET [ctx : NetContexts, seq : Nat], IsFiniteSet(S),
         Cardinality(S) <= MaxHostWide,
         \A c \in S : c.ctx \in Known(g) /\ c.seq < g.usage[c.ctx].next,
         \A y : y # x => {c \in S : c.ctx = y} = CallsOf(g, y),
         NEW u \in Usages,
         u.active = Cardinality({c \in S : c.ctx = x}), u.active <= MaxConcurrent,
         u.attempts = g.usage[x].attempts, u.next = g.usage[x].next, ~u.retired,
         NEW h,
         h = [usage |-> SetUsage(g, x, u).usage, calls |-> S, active |-> Cardinality(S),
              terminal |-> g.terminal]
  PROVE  /\ RegistryOK(h)
         /\ Known(h) = Known(g) /\ h.calls = S /\ h.terminal = g.terminal
         /\ \A y \in Known(g) : /\ h.usage[y].attempts = g.usage[y].attempts
                                /\ h.usage[y].next = g.usage[y].next
<1> DEFINE f == SetUsage(g, x, u).usage
<1>1. x \in NetContexts
  BY DEF RegistryOK
<1>2. /\ DOMAIN f = Known(g) /\ f \in [Known(g) -> Usages] /\ f[x] = u
      /\ \A y \in Known(g) : y # x => f[y] = g.usage[y]
  <2>1. Known(g) \cup {x} = Known(g)
    OBVIOUS
  <2>. QED BY <1>1, <2>1, SetUsageFacts DEF Known
<1> HIDE DEF f
<1>3. h.usage = f /\ h.calls = S /\ h.active = Cardinality(S) /\ h.terminal = g.terminal
      /\ Known(h) = Known(g)
  BY <1>2 DEF f, Known
<1>4. \A y \in Known(g) : h.usage[y].attempts = g.usage[y].attempts
                          /\ h.usage[y].next = g.usage[y].next
  <2> SUFFICES ASSUME NEW y \in Known(g)
               PROVE  f[y].attempts = g.usage[y].attempts /\ f[y].next = g.usage[y].next
    BY <1>3
  <2>. QED BY <1>2
<1>5. Exact(h)
  <2>1. ASSUME NEW c \in S
        PROVE  c.ctx \in Known(g) /\ c.seq < h.usage[c.ctx].next
    BY <1>4
  <2>2. ASSUME NEW y \in Known(g)
        PROVE  f[y].active = Cardinality({c \in S : c.ctx = y}) /\ ~f[y].retired
    <3>1. CASE y = x
      BY <1>2, <3>1
    <3>2. CASE y # x
      BY <1>2, <3>2 DEF RegistryOK, Exact
    <3>. QED BY <3>1, <3>2
  <2>. QED BY <1>3, <2>1, <2>2 DEF Exact, CallsOf
<1>6. WithinLimits(h)
  <2>1. ASSUME NEW y \in Known(g)
        PROVE  f[y].active <= MaxConcurrent /\ f[y].attempts <= MaxCalls
    <3>1. CASE y = x
      BY <1>2, <3>1 DEF RegistryOK, WithinLimits
    <3>2. CASE y # x
      BY <1>2, <3>2 DEF RegistryOK, WithinLimits
    <3>. QED BY <3>1, <3>2
  <2>. QED BY <1>3, <2>1 DEF WithinLimits
<1>7. RegistryOK(h)
  <2>1. h = [usage |-> h.usage, calls |-> h.calls, active |-> h.active,
             terminal |-> h.terminal]
    BY <1>3 DEF f
  <2>2. h.active \in Nat /\ h.terminal \in BOOLEAN
    BY <1>3, FS_CardinalityType DEF RegistryOK
  <2>3. Known(g) \subseteq NetContexts
    BY DEF RegistryOK
  <2>. QED BY <1>2, <1>3, <1>5, <1>6, <2>1, <2>2, <2>3 DEF RegistryOK
<1>. QED BY <1>3, <1>4, <1>7

\* A call is registered under a number given out.
LEMMA RegisterOK ==
  ASSUME NEW g, RegistryOK(g), NEW c \in [ctx : NetContexts, seq : Nat],
         CanRegister(g, c), c.seq < g.usage[c.ctx].next
  PROVE  LET h == Register(g, c)
         IN  /\ RegistryOK(h)
             /\ Known(h) = Known(g) /\ h.calls = g.calls \cup {c} /\ h.terminal = g.terminal
             /\ \A y \in Known(g) : /\ h.usage[y].attempts = g.usage[y].attempts
                                    /\ h.usage[y].next = g.usage[y].next
<1> DEFINE x == c.ctx
           v == g.usage[x]
           u == [v EXCEPT !.active = @ + 1]
           S == g.calls \cup {c}
           h == Register(g, c)
<1>1. /\ x \in Known(g) /\ c \notin g.calls /\ v \in Usages /\ ~v.retired
      /\ v.active = Cardinality(CallsOf(g, x)) /\ v.active < MaxConcurrent
      /\ g.active = Cardinality(g.calls) /\ g.active < MaxHostWide
      /\ g.active \in Nat /\ v.active \in Nat
  BY DEF CanRegister, RegistryOK, Exact, Usages
<1>2. u \in Usages /\ u.active = v.active + 1 /\ u.attempts = v.attempts
      /\ u.next = v.next /\ u.retired = v.retired
  BY <1>1 DEF Usages
<1>3. S \in SUBSET [ctx : NetContexts, seq : Nat] /\ IsFiniteSet(S)
      /\ Cardinality(S) = g.active + 1 /\ Cardinality(S) <= MaxHostWide
  <2>1. IsFiniteSet(g.calls) /\ g.calls \in SUBSET [ctx : NetContexts, seq : Nat]
    BY DEF RegistryOK
  <2>2. IsFiniteSet(S) /\ Cardinality(S) = Cardinality(g.calls) + 1
    BY <1>1, <2>1, FS_AddElement
  <2>. QED BY <1>1, <2>1, <2>2, LimitsAssumption
<1>4. Cardinality({d \in S : d.ctx = x}) = v.active + 1
  <2>1. {d \in S : d.ctx = x} = CallsOf(g, x) \cup {c} /\ c \notin CallsOf(g, x)
    BY <1>1 DEF CallsOf
  <2>. QED BY <1>1, <2>1, CallsFinite, FS_AddElement
<1>5. \A y : y # x => {d \in S : d.ctx = y} = CallsOf(g, y)
  BY DEF CallsOf
<1>6. \A d \in S : d.ctx \in Known(g) /\ d.seq < g.usage[d.ctx].next
  BY <1>1 DEF RegistryOK, Exact
<1>7. h = [usage |-> SetUsage(g, x, u).usage, calls |-> S, active |-> Cardinality(S),
           terminal |-> g.terminal]
  <2> DEFINE k == SetUsage(g, x, u)
  <2>1. x \in NetContexts
    BY DEF RegistryOK
  <2>2. h = [k EXCEPT !.calls = @ \cup {c}, !.active = @ + 1]
    BY DEF Register
  <2> HIDE DEF h, u, S, x, v
  <2>3. k = [usage |-> k.usage, calls |-> g.calls, active |-> g.active,
             terminal |-> g.terminal]
    <3>1. x \in NetContexts /\ u \in Usages
      BY <1>2, <2>1
    <3>2. /\ k = [usage |-> k.usage, calls |-> g.calls, active |-> g.active,
                  terminal |-> g.terminal]
          /\ Known(k) = Known(g) \cup {x}
          /\ k.usage \in [Known(g) \cup {x} -> Usages]
          /\ k.usage[x] = u
          /\ \A y \in Known(g) : y # x => k.usage[y] = g.usage[y]
      BY <3>1, SetUsageFacts
    <3>. QED BY <3>2
  <2> HIDE DEF k
  <2>4. k.calls \cup {c} = S /\ k.active + 1 = Cardinality(S)
    BY <1>3, <2>3 DEF S
  <2>5. h = [k EXCEPT !.calls = S, !.active = Cardinality(S)]
    BY <2>2, <2>4
  <2>6. h = [usage |-> k.usage, calls |-> S, active |-> Cardinality(S),
             terminal |-> g.terminal]
    <3>1. k = [usage |-> k.usage, calls |-> k.calls, active |-> k.active,
               terminal |-> k.terminal]
          /\ k.terminal = g.terminal
      BY <2>3
    <3>. QED BY <2>5, <3>1, CallsReplaced
  <2>. QED BY <2>6 DEF k
<1>8. u.active <= MaxConcurrent
  BY <1>1, <1>2, LimitsAssumption
<1> HIDE DEF h, u, S, v, x
<1>9. u.attempts = g.usage[x].attempts /\ u.next = g.usage[x].next /\ ~u.retired
      /\ u.active = Cardinality({d \in S : d.ctx = x})
  BY <1>1, <1>2, <1>4 DEF v
<1>10. /\ RegistryOK(h)
       /\ Known(h) = Known(g) /\ h.calls = S /\ h.terminal = g.terminal
       /\ \A y \in Known(g) : /\ h.usage[y].attempts = g.usage[y].attempts
                              /\ h.usage[y].next = g.usage[y].next
  BY <1>1, <1>2, <1>3, <1>5, <1>6, <1>7, <1>8, <1>9, RecountOK
<1>. QED BY <1>10 DEF h, S

\* The end of a call frees its slot, if the call is still registered.
LEMMA FinishOK ==
  ASSUME NEW g, RegistryOK(g), NEW c
  PROVE  LET h == Finish(g, c)
         IN  /\ RegistryOK(h)
             /\ Known(h) = Known(g) /\ h.calls = g.calls \ {c} /\ h.terminal = g.terminal
             /\ \A y \in Known(g) : /\ h.usage[y].attempts = g.usage[y].attempts
                                    /\ h.usage[y].next = g.usage[y].next
<1>1. CASE c \notin g.calls
  <2>1. Finish(g, c) = g /\ g.calls \ {c} = g.calls
    BY <1>1 DEF Finish
  <2>. QED BY <2>1
<1>2. CASE c \in g.calls
  <2> DEFINE x == c.ctx
             v == g.usage[x]
             u == [v EXCEPT !.active = @ - 1]
             S == g.calls \ {c}
             k == [g EXCEPT !.calls = S]
             h == Finish(g, c)
  <2>1. /\ x \in Known(g) /\ v \in Usages /\ ~v.retired /\ v.active <= MaxConcurrent
        /\ v.active = Cardinality(CallsOf(g, x)) /\ c \in CallsOf(g, x)
        /\ g.active = Cardinality(g.calls) /\ g.active <= MaxHostWide
        /\ g.active \in Nat /\ v.active \in Nat /\ IsFiniteSet(g.calls)
        /\ g.calls \in SUBSET [ctx : NetContexts, seq : Nat]
    BY <1>2 DEF RegistryOK, Exact, WithinLimits, Usages, CallsOf
  <2>2. v.active > 0 /\ g.active > 0
    BY <1>2, <2>1, CallsFinite, FS_EmptySet
  <2>3. u \in Usages /\ u.active = v.active - 1 /\ u.attempts = v.attempts
        /\ u.next = v.next /\ u.retired = v.retired
    BY <2>1, <2>2 DEF Usages
  <2>4. S \in SUBSET [ctx : NetContexts, seq : Nat] /\ IsFiniteSet(S)
        /\ Cardinality(S) = g.active - 1 /\ Cardinality(S) <= MaxHostWide
    <3>1. IsFiniteSet(S) /\ Cardinality(S) = Cardinality(g.calls) - 1
      BY <1>2, <2>1, FS_RemoveElement
    <3>. QED BY <2>1, <3>1, LimitsAssumption
  <2>5. Cardinality({d \in S : d.ctx = x}) = v.active - 1
    <3>1. {d \in S : d.ctx = x} = CallsOf(g, x) \ {c}
      BY DEF CallsOf
    <3>2. IsFiniteSet(CallsOf(g, x))
      BY CallsFinite
    <3>3. Cardinality(CallsOf(g, x) \ {c}) = Cardinality(CallsOf(g, x)) - 1
      BY <2>1, <3>2, FS_RemoveElement
    <3>. QED BY <2>1, <3>1, <3>3
  <2>6. \A y : y # x => {d \in S : d.ctx = y} = CallsOf(g, y)
    BY DEF CallsOf
  <2>7. \A d \in S : d.ctx \in Known(g) /\ d.seq < g.usage[d.ctx].next
    BY DEF RegistryOK, Exact
  <2>8. h = [usage |-> SetUsage(g, x, u).usage, calls |-> S, active |-> Cardinality(S),
             terminal |-> g.terminal]
    <3>1. k = [usage |-> g.usage, calls |-> S, active |-> g.active,
               terminal |-> g.terminal]
      <4> HIDE DEF S
      <4>1. g = [usage |-> g.usage, calls |-> g.calls, active |-> g.active,
                 terminal |-> g.terminal]
        BY DEF RegistryOK
      <4>. QED BY <4>1
    <3>2. h = Release(k, x)
      BY <1>2 DEF Finish
    <3> HIDE DEF k, h, S, v, x
    <3>3. k.usage = g.usage /\ k.active = g.active /\ Known(k) = Known(g)
      BY <3>1 DEF Known
    <3>4. h = [SetUsage(k, x, u) EXCEPT !.active = @ - 1]
      BY <2>1, <2>2, <3>2, <3>3 DEF Release, v
    <3> HIDE DEF u
    <3>5. SetUsage(k, x, u) = [usage |-> SetUsage(g, x, u).usage, calls |-> S,
                               active |-> g.active, terminal |-> g.terminal]
      BY <3>1, <3>3 DEF SetUsage, RegistryOK
    <3>. QED BY <2>4, <3>4, <3>5
  <2>9. u.active <= MaxConcurrent
    BY <2>1, <2>3, LimitsAssumption
  <2> HIDE DEF h, u, S, v, x
  <2>10. u.attempts = g.usage[x].attempts /\ u.next = g.usage[x].next /\ ~u.retired
         /\ u.active = Cardinality({d \in S : d.ctx = x})
    BY <2>1, <2>3, <2>5 DEF v
  <2>11. /\ RegistryOK(h)
         /\ Known(h) = Known(g) /\ h.calls = S /\ h.terminal = g.terminal
         /\ \A y \in Known(g) : /\ h.usage[y].attempts = g.usage[y].attempts
                                /\ h.usage[y].next = g.usage[y].next
    BY <2>1, <2>3, <2>4, <2>6, <2>7, <2>8, <2>9, <2>10, RecountOK
  <2>. QED BY <2>11 DEF h, S
<1>. QED BY <1>1, <1>2

\* What is left of the registry when the calls of S are cancelled: no context of S, and
\* the others as they were.
Without(g, h, S) ==
    /\ Known(h) = Known(g) \ S
    /\ h.calls = {c \in g.calls : c.ctx \notin S}
    /\ \A y \in Known(h) : h.usage[y] = g.usage[y]

LEMMA CancelOK ==
  ASSUME NEW g, RegistryOK(g), NEW S
  PROVE  LET h == CancelContexts(g, S)
         IN  RegistryOK(h) /\ Without(g, h, S) /\ h.terminal = g.terminal
<1> DEFINE h == CancelContexts(g, S)
           gone == Cancelled(g, S)
           rest == g.calls \ gone
           f == [x \in Known(g) \ S |-> g.usage[x]]
<1>1. \A x \in Known(g) : g.usage[x].active - Cardinality(CallsOf(g, x)) = 0
  BY CallsFinite DEF RegistryOK, Exact
<1>2. /\ gone \subseteq g.calls /\ IsFiniteSet(gone) /\ IsFiniteSet(rest)
      /\ Cardinality(gone) \in Nat /\ Cardinality(gone) <= Cardinality(g.calls)
      /\ Cardinality(rest) = g.active - Cardinality(gone)
      /\ Cardinality(g.calls) = g.active /\ g.active \in Nat
  <2>1. IsFiniteSet(g.calls) /\ gone \subseteq g.calls /\ g.active = Cardinality(g.calls)
        /\ g.active \in Nat
    BY DEF RegistryOK, Exact, Cancelled
  <2>2. IsFiniteSet(gone) /\ Cardinality(gone) <= Cardinality(g.calls)
        /\ Cardinality(gone) \in Nat
    BY <2>1, FS_Subset, FS_CardinalityType
  <2>3. /\ IsFiniteSet(rest)
        /\ Cardinality(rest) = Cardinality(g.calls) - Cardinality(g.calls \cap gone)
    BY <2>1, FS_Difference
  <2>4. g.calls \cap gone = gone
    BY <2>1
  <2>. QED BY <2>1, <2>2, <2>3, <2>4
<1>3. h = [usage |-> f, calls |-> rest, active |-> Cardinality(rest),
           terminal |-> g.terminal]
  <2> DEFINE left(x) == g.usage[x].active - Cardinality(CallsOf(g, x))
  <2>1. {x \in Known(g) : x \notin S \/ left(x) # 0} = Known(g) \ S
    BY <1>1
  <2>2. \A x \in S \cap Known(g) : left(x) >= 0
    BY <1>1
  <2>3. ~(g.active < Cardinality(gone))
    BY <1>2
  <2>4. g.terminal \in BOOLEAN
    BY DEF RegistryOK
  <2>5. [x \in Known(g) \ S |->
            IF x \in S THEN [g.usage[x] EXCEPT !.active = left(x), !.retired = TRUE]
            ELSE g.usage[x]] = f
    OBVIOUS
  <2> HIDE DEF left, f
  <2>6. h = [usage |-> [x \in {y \in Known(g) : y \notin S \/ left(y) # 0} |->
                          IF x \in S THEN [g.usage[x] EXCEPT !.active = left(x), !.retired = TRUE]
                          ELSE g.usage[x]],
             calls |-> g.calls \ gone,
             active |-> g.active - Cardinality(gone),
             terminal |-> g.terminal \/ ~(\A x \in S \cap Known(g) : left(x) >= 0)
                          \/ g.active < Cardinality(gone)]
    BY DEF CancelContexts, left
  <2>. QED BY <1>2, <2>1, <2>2, <2>3, <2>4, <2>5, <2>6
<1> HIDE DEF h
<1>4. /\ Known(h) = Known(g) \ S /\ h.usage = f /\ h.calls = rest
      /\ h.active = Cardinality(rest) /\ h.terminal = g.terminal
      /\ rest = {c \in g.calls : c.ctx \notin S}
      /\ \A y \in Known(h) : h.usage[y] = g.usage[y]
  BY <1>3 DEF Known, Cancelled
<1>5. Exact(h)
  <2>1. \A y \in Known(h) : CallsOf(h, y) = CallsOf(g, y)
    BY <1>4 DEF CallsOf
  <2>2. \A y \in Known(h) : h.usage[y].active = Cardinality(CallsOf(h, y))
                            /\ ~h.usage[y].retired
    BY <1>4, <2>1 DEF RegistryOK, Exact
  <2>3. \A c \in h.calls : c.ctx \in Known(h) /\ c.seq < h.usage[c.ctx].next
    BY <1>4 DEF RegistryOK, Exact
  <2>. QED BY <1>4, <2>2, <2>3 DEF Exact
<1>6. WithinLimits(h)
  <2>1. Cardinality(rest) \in Nat /\ Cardinality(rest) <= g.active
    BY <1>2, FS_CardinalityType
  <2>2. h.active <= MaxHostWide
    BY <1>2, <1>4, <2>1, LimitsAssumption DEF RegistryOK, WithinLimits
  <2>3. \A y \in Known(h) : h.usage[y].active <= MaxConcurrent
                            /\ h.usage[y].attempts <= MaxCalls
    BY <1>4 DEF RegistryOK, WithinLimits
  <2>. QED BY <2>2, <2>3 DEF WithinLimits
<1>7. RegistryOK(h)
  <2>1. h = [usage |-> h.usage, calls |-> h.calls, active |-> h.active,
             terminal |-> h.terminal]
    BY <1>3
  <2>2. h.usage \in [Known(h) -> Usages] /\ Known(h) \subseteq NetContexts
    BY <1>4 DEF RegistryOK
  <2>3. h.calls \subseteq [ctx : NetContexts, seq : Nat] /\ IsFiniteSet(h.calls)
        /\ h.active \in Nat /\ h.terminal \in BOOLEAN
    BY <1>2, <1>4, FS_CardinalityType DEF RegistryOK
  <2>. QED BY <1>5, <1>6, <2>1, <2>2, <2>3 DEF RegistryOK
<1>8. RegistryOK(h) /\ Without(g, h, S) /\ h.terminal = g.terminal
  BY <1>4, <1>7 DEF Without
<1>. QED BY <1>8 DEF h

\* The shutdown forgets everything.
LEMMA CloseOK ==
  ASSUME NEW g, RegistryOK(g)
  PROVE  RegistryOK(Close(g)) /\ Without(g, Close(g), Known(g))
<1> DEFINE k == CancelContexts(g, Known(g))
           h == Close(g)
<1>1. RegistryOK(k) /\ Without(g, k, Known(g)) /\ k.terminal = g.terminal
  BY CancelOK
<1>2. h = [k EXCEPT !.terminal = TRUE]
  BY DEF Close
<1> HIDE DEF h, k
<1>3. k = [usage |-> k.usage, calls |-> k.calls, active |-> k.active,
           terminal |-> k.terminal]
  BY <1>1 DEF RegistryOK
<1>4. h = [usage |-> k.usage, calls |-> k.calls, active |-> k.active, terminal |-> TRUE]
  BY <1>2, <1>3
<1>5. h.usage = k.usage /\ h.calls = k.calls /\ h.active = k.active /\ h.terminal = TRUE
      /\ Known(h) = Known(k)
  BY <1>4 DEF Known
<1>6. RegistryOK(h)
  <2>1. Exact(h) /\ WithinLimits(h)
    BY <1>1, <1>5 DEF RegistryOK, Exact, WithinLimits, CallsOf
  <2>2. h = [usage |-> h.usage, calls |-> h.calls, active |-> h.active,
             terminal |-> h.terminal]
    BY <1>4
  <2>. QED BY <1>1, <1>5, <2>1, <2>2 DEF RegistryOK
<1>7. Without(g, h, Known(g))
  BY <1>1, <1>5 DEF Without
<1>. QED BY <1>6, <1>7 DEF h

-----------------------------------------------------------------------------
(* What the operations on a queue leave executing and waiting *)

\* After an operation of an old request only what waited executes with currency.
Inherits(q, r) ==
    /\ r.running # None =>
          \/ /\ q.running # None /\ r.running.req = q.running.req /\ ~r.running.current
          \/ /\ q.waiting # None /\ r.running.req.id = q.waiting.id
             /\ r.running.req.kind = "command" /\ r.waiting = None
    /\ r.waiting # None => q.waiting # None /\ r.waiting.id = q.waiting.id

LEMMA StartFacts ==
  ASSUME NEW q \in Queues, NEW c \in Candidates
  PROVE  /\ Start(q, c).running = [req |-> c, current |-> TRUE, retirement |-> "none"]
         /\ Start(q, c).running # None
         /\ Start(q, c).waiting = q.waiting
<1>1. [req |-> c, current |-> TRUE, retirement |-> "none"] \in RunningRequests
  BY DEF RunningRequests, Reasons
<1>. QED BY <1>1, NoneAssumption DEF Start, Queues

\* dispatch() of the waiting request.
LEMMA DispatchInherits ==
  ASSUME NEW p, NEW e \in Queues, Fits(p, e), e.running = None
  PROVE  LET r == DispatchWaiting(e)
         IN  /\ r.running # None => e.waiting # None /\ r.running.req = e.waiting
                                    /\ r.waiting = None
             /\ r.waiting # None => r.waiting = e.waiting
<1>1. CASE e.waiting = None
  BY <1>1 DEF DispatchWaiting
<1>2. CASE e.waiting # None /\ e.rebuilding
  BY <1>2 DEF DispatchWaiting
<1>3. CASE e.waiting # None /\ ~e.rebuilding
  <2> DEFINE free == [e EXCEPT !.waiting = None]
  <2>1. free \in Queues /\ e.waiting \in Candidates /\ free.waiting = None
    BY <1>3 DEF Queues
  <2>2. DispatchWaiting(e) = Start(free, e.waiting)
    BY <1>3, DispatchLosesNothing
  <2> HIDE DEF free
  <2>3. /\ Start(free, e.waiting).running =
              [req |-> e.waiting, current |-> TRUE, retirement |-> "none"]
        /\ Start(free, e.waiting).waiting = None
    BY <2>1, StartFacts
  <2>. QED BY <1>3, <2>2, <2>3
<1>. QED BY <1>1, <1>2, <1>3

\* An operation that frees the slot and dispatches what waits.
LEMMA FreedInherits ==
  ASSUME NEW p, NEW q, Sound(p, q),
         NEW e \in Queues, e.running = None,
         e.waiting = None => q.waiting = None,
         e.waiting # None =>
             /\ q.waiting # None /\ e.waiting.id = q.waiting.id /\ e.waiting.kind = "command"
             /\ e.waiting.plugin = p /\ SameIdentity(e, e.waiting)
  PROVE  Inherits(q, DispatchWaiting(e))
<1>1. Fits(p, e)
  BY DEF Fits
<1> DEFINE r == DispatchWaiting(e)
<1>2. /\ r.running # None => e.waiting # None /\ r.running.req = e.waiting
                             /\ r.waiting = None
      /\ r.waiting # None => r.waiting = e.waiting
  BY <1>1, DispatchInherits
<1> HIDE DEF r
<1>3. Inherits(q, r)
  BY <1>2 DEF Inherits
<1>. QED BY <1>3 DEF r

LEMMA CompleteInherits ==
  ASSUME NEW p, NEW q, Sound(p, q), q.running # None, NEW now
  PROVE  Inherits(q, Complete(q, now))
<1> DEFINE r == q.running
           ticket == IF r.req.kind = "command" THEN q.ticket
                     ELSE [req |-> r.req,
                           reason |-> IF Live(r.req, now) THEN r.retirement ELSE "expired"]
           e == [q EXCEPT !.running = None, !.ticket = ticket]
<1>1. q \in Queues /\ r \in RunningRequests /\ QueueOK(p, q)
  BY DEF Sound, Queues
<1>2. ticket \in Tickets \cup {None}
  <2>1. CASE r.req.kind = "command"
    BY <1>1, <2>1 DEF Queues
  <2>2. CASE r.req.kind # "command"
    BY <1>1, <2>2 DEF RunningRequests, Tickets, Reasons
  <2>. QED BY <2>1, <2>2
<1>3. Complete(q, now) = DispatchWaiting(e)
  BY DEF Complete
<1> HIDE DEF ticket
<1>4. e \in Queues /\ e.running = None /\ e.waiting = q.waiting /\ e.gen = q.gen
      /\ e.inc = q.inc
  BY <1>1, <1>2 DEF Queues
<1> HIDE DEF e
<1>5. Inherits(q, DispatchWaiting(e))
  BY <1>1, <1>4, FreedInherits DEF QueueOK, WaitingOK, SameIdentity
<1>. QED BY <1>3, <1>5

LEMMA CancelInherits ==
  ASSUME NEW p, NEW q, Sound(p, q), q.running # None
  PROVE  Inherits(q, Cancel(q, Ctx(q.running.req)))
<1>1. q \in Queues /\ q.running \in RunningRequests /\ QueueOK(p, q)
  BY DEF Sound, Queues
<1>2. Runs(q, Ctx(q.running.req))
  BY DEF Runs
<1>3. CASE q.running.req.kind = "result"
  <2> DEFINE d == Retired(q.running, "cancelled")
             e == [q EXCEPT !.running = d]
  <2>1. Cancel(q, Ctx(q.running.req)) = e
    BY <1>2, <1>3 DEF Cancel
  <2>2. d.req = q.running.req /\ ~d.current
    BY <1>1, RetiredFacts DEF Reasons
  <2> HIDE DEF d
  <2>3. e.running = d /\ e.waiting = q.waiting
    BY <1>1 DEF Queues
  <2> HIDE DEF e
  <2>. QED BY <2>1, <2>2, <2>3 DEF Inherits
<1>4. CASE q.running.req.kind # "result"
  <2> DEFINE e == [q EXCEPT !.running = None]
  <2>1. Cancel(q, Ctx(q.running.req)) = DispatchWaiting(e)
    BY <1>2, <1>4 DEF Cancel
  <2>2. e \in Queues /\ e.running = None /\ e.waiting = q.waiting /\ e.gen = q.gen
        /\ e.inc = q.inc
    BY <1>1 DEF Queues
  <2> HIDE DEF e
  <2>3. Inherits(q, DispatchWaiting(e))
    BY <1>1, <2>2, FreedInherits DEF QueueOK, WaitingOK, SameIdentity
  <2>. QED BY <2>1, <2>3
<1>. QED BY <1>3, <1>4

LEMMA RetireContextInherits ==
  ASSUME NEW p, NEW q, Sound(p, q), q.running # None
  PROVE  Inherits(q, RetireContext(q, Ctx(q.running.req)))
<1> DEFINE ctx == Ctx(q.running.req)
           d == Retired(q.running, "expired")
           e == [q EXCEPT !.running = d]
           r == RetireTicket(e, ctx)
<1>1. q \in Queues /\ q.running \in RunningRequests
  BY DEF Sound, Queues
<1>2. RetireContext(q, ctx) = r
  BY DEF RetireContext, RetireRunning, Runs
<1>3. d.req = q.running.req /\ ~d.current /\ d \in RunningRequests
  BY <1>1, RetiredFacts DEF Reasons
<1> HIDE DEF d, ctx
<1>4. e \in Queues /\ e.running = d /\ e.waiting = q.waiting
  BY <1>1, <1>3 DEF Queues
<1> HIDE DEF e
<1>5. r.running = d /\ r.waiting = q.waiting
  BY <1>4 DEF RetireTicket, Queues
<1> HIDE DEF r
<1>6. Inherits(q, r)
  BY <1>3, <1>5 DEF Inherits
<1>. QED BY <1>2, <1>6 DEF ctx

LEMMA ExpireInherits ==
  ASSUME NEW p, NEW q, Sound(p, q), q.running # None
  PROVE  Inherits(q, ExpireRunning(q)) /\ ExpireRunning(q).running = None
<1> DEFINE free == [q EXCEPT !.running = None]
           e == ExpireRunning(q)
<1>1. q \in Queues /\ q.gen + 1 \in Nat /\ free \in Queues /\ free.running = None
      /\ free.waiting = q.waiting
  BY DEF Sound, Queues
<1> HIDE DEF free
<1>2. CASE q.waiting = None
  <2>1. e.running = None /\ e.waiting = None
    BY <1>1, <1>2 DEF ExpireRunning, Rebind, Queues, free
  <2> HIDE DEF e
  <2>. QED BY <2>1 DEF Inherits, e
<1>3. CASE q.waiting # None
  <2> DEFINE new == [q.waiting EXCEPT !.gen = q.gen + 1]
             kept == Remember(Forget(free.issued, Ctx(free.waiting)), Ctx(new))
             bound == [free EXCEPT !.waiting = new, !.issued = kept]
  <2>1. q.waiting \in Candidates /\ new.id = q.waiting.id
    BY <1>1, <1>3 DEF Queues, Candidates
  <2>2. Rebind(free, q.gen + 1) = bound
    BY <1>1, <1>3 DEF Rebind
  <2> HIDE DEF new, kept
  <2>3. bound.running = None /\ bound.waiting = new /\ DOMAIN bound = DOMAIN q
    BY <1>1 DEF Queues
  <2>4. e = [bound EXCEPT !.gen = q.gen + 1, !.rebuilding = TRUE]
    BY <2>2 DEF ExpireRunning, free
  <2> HIDE DEF bound, e
  <2>5. e.running = None /\ e.waiting = new
    BY <1>1, <2>3, <2>4 DEF Queues
  <2>. QED BY <1>3, <2>1, <2>5 DEF Inherits, e
<1>. QED BY <1>2, <1>3

LEMMA ReplacedInherits ==
  ASSUME NEW p, NEW q, NEW gen, Sound(p, q), CanReplace(q, gen),
         NEW inc \in Nat, NEW fresh \in Tokens
  PROVE  Inherits(q, RuntimeReplaced(q, inc, fresh))
<1> DEFINE w == IF q.waiting = None THEN None ELSE [q.waiting EXCEPT !.inc = inc]
           e == [q EXCEPT !.inc = inc, !.pub = fresh, !.rebuilding = FALSE, !.waiting = w]
<1>1. q \in Queues /\ QueueOK(p, q)
  BY DEF Sound
<1>2. /\ w \in Candidates \cup {None}
      /\ w = None => q.waiting = None
      /\ w # None => /\ w.gen = q.waiting.gen /\ w.inc = inc /\ w.id = q.waiting.id
                     /\ w.kind = q.waiting.kind /\ w.plugin = q.waiting.plugin
                     /\ q.waiting # None
  <2>1. CASE q.waiting = None
    BY <2>1
  <2>2. CASE q.waiting # None
    <3>1. q.waiting \in Candidates /\ w = [q.waiting EXCEPT !.inc = inc]
      BY <1>1, <2>2 DEF Queues
    <3>2. w \in Candidates
      BY <3>1 DEF Candidates
    <3>. QED BY <2>2, <3>1, <3>2, NoneAssumption DEF Candidates
  <2>. QED BY <2>1, <2>2
<1>3. RuntimeReplaced(q, inc, fresh) = DispatchWaiting(e)
  BY DEF RuntimeReplaced
<1> HIDE DEF w
<1>4. e \in Queues /\ e.running = None /\ e.waiting = w /\ e.gen = q.gen /\ e.inc = inc
  BY <1>1, <1>2 DEF Queues, CanReplace
<1> HIDE DEF e
<1>5. Inherits(q, DispatchWaiting(e))
  BY <1>1, <1>2, <1>4, FreedInherits DEF QueueOK, WaitingOK, SameIdentity
<1>. QED BY <1>3, <1>5

LEMMA RetirePluginInherits ==
  ASSUME NEW p, NEW q, Sound(p, q), NEW fresh
  PROVE  /\ Inherits(q, RetirePlugin(q, fresh))
         /\ q.running = None => RetirePlugin(q, fresh).running = None
         /\ RetirePlugin(q, fresh).gen = q.gen /\ RetirePlugin(q, fresh).inc = q.inc
<1> DEFINE t == IF q.ticket = None THEN None ELSE [q.ticket EXCEPT !.reason = "expired"]
           r == IF q.running = None THEN None ELSE Retired(q.running, "expired")
           e == [q EXCEPT !.pub = fresh, !.ticket = t, !.running = r, !.waiting = None]
<1>1. q \in Queues
  BY DEF Sound
<1>2. /\ q.running = None => r = None
      /\ q.running # None => r.req = q.running.req /\ ~r.current
  BY <1>1, RetiredFacts DEF Queues, Reasons
<1>3. RetirePlugin(q, fresh) = e
  BY DEF RetirePlugin
<1> HIDE DEF t, r
<1>4. e.running = r /\ e.waiting = None /\ e.gen = q.gen /\ e.inc = q.inc
  BY <1>1 DEF Queues
<1> HIDE DEF e
<1>5. Inherits(q, e)
  BY <1>2, <1>4 DEF Inherits
<1>. QED BY <1>2, <1>3, <1>4, <1>5

\* An emptied queue inherits nothing.
LEMMA InvalidateEmpties ==
  ASSUME NEW p, NEW q, Sound(p, q), NEW fresh, NEW gen, NEW inc
  PROVE  /\ Invalidate(q, fresh).running = None /\ Invalidate(q, fresh).waiting = None
         /\ Activate(q, gen, inc, fresh).running = None
         /\ Activate(q, gen, inc, fresh).waiting = None
         /\ Activate(q, gen, inc, fresh).gen = gen /\ Activate(q, gen, inc, fresh).inc = inc
<1> DEFINE e == Invalidate(q, fresh)
<1>1. q \in Queues
  BY DEF Sound
<1>2. e.running = None /\ e.waiting = None /\ DOMAIN e = DOMAIN q
  BY <1>1 DEF Invalidate, Queues
<1> DEFINE d == [e EXCEPT !.gen = gen, !.inc = inc]
<1>3. d = Activate(q, gen, inc, fresh)
  BY DEF Activate
<1> HIDE DEF e
<1>4. d.running = None /\ d.waiting = None /\ d.gen = gen /\ d.inc = inc
  BY <1>1, <1>2 DEF Queues
<1>. QED BY <1>2, <1>3, <1>4 DEF e

\* A new request executes, or waits behind one that lost its currency.
LEMMA EnqueueTakes ==
  ASSUME NEW p, NEW q, Sound(p, q), NEW c \in Candidates, c.plugin = p, Accepts(q, c)
  PROVE  LET r == Enqueue(q, c)
         IN  \/ /\ r.running # None /\ r.running.req = c /\ r.waiting = None
                /\ q.running = None
             \/ /\ r.waiting = c
                /\ r.running # None =>
                      q.running # None /\ r.running.req = q.running.req /\ ~r.running.current
<1> DEFINE ticket == IF c.kind # "command" THEN None
                     ELSE IF PendingTicket(q) THEN [q.ticket EXCEPT !.reason = "cancelled"]
                     ELSE q.ticket
           known == [q EXCEPT !.ticket = ticket, !.issued = Remember(@, Ctx(c))]
           r == Enqueue(q, c)
<1>1. q \in Queues /\ QueueOK(p, q)
  BY DEF Sound
<1>2. ticket \in Tickets \cup {None}
  <2>1. CASE c.kind # "command" \/ ~PendingTicket(q)
    BY <1>1, <2>1 DEF Queues
  <2>2. CASE c.kind = "command" /\ PendingTicket(q)
    <3>1. q.ticket \in Tickets
      BY <1>1, <2>2 DEF PendingTicket, Queues
    <3>. QED BY <2>2, <3>1, TicketFacts DEF Reasons
  <2>. QED BY <2>1, <2>2
<1>3. r = CASE q.rebuilding -> [known EXCEPT !.waiting = c]
            [] ~q.rebuilding /\ q.running # None ->
                  [known EXCEPT !.waiting = c, !.running = Superseded(@)]
            [] OTHER -> Dispatch(known, c)
  BY DEF Enqueue
<1>4. Remember(q.issued, Ctx(c)) \in Seq(Contexts)
  BY <1>1, CtxType, RememberLast DEF Queues
<1> HIDE DEF ticket
<1>5. /\ known \in Queues /\ known.running = q.running /\ known.waiting = q.waiting
      /\ known.gen = q.gen /\ known.inc = q.inc /\ known.rebuilding = q.rebuilding
  BY <1>1, <1>2, <1>4 DEF Queues
<1> HIDE DEF known, r
<1>6. q.rebuilding \in BOOLEAN
  BY <1>1 DEF Queues
<1>7. CASE q.rebuilding
  <2>1. r = [known EXCEPT !.waiting = c]
    BY <1>3, <1>7
  <2>2. r.waiting = c /\ r.running = q.running
    BY <1>5, <2>1 DEF Queues
  <2>3. q.running = None
    BY <1>1, <1>7 DEF QueueOK, RunningOK
  <2>. QED BY <2>2, <2>3 DEF r
<1>8. CASE ~q.rebuilding /\ q.running # None
  <2>1. r = [known EXCEPT !.waiting = c, !.running = Superseded(@)]
    BY <1>3, <1>8
  <2>2. q.running \in RunningRequests
    BY <1>1, <1>8 DEF Queues
  <2>3. Superseded(q.running).req = q.running.req /\ ~Superseded(q.running).current
    BY <2>2, SupersededFacts
  <2>4. r.waiting = c /\ r.running = Superseded(q.running)
    BY <1>5, <2>1 DEF Queues
  <2>. QED BY <1>8, <2>3, <2>4 DEF r
<1>9. CASE ~q.rebuilding /\ q.running = None
  <2>1. r = Dispatch(known, c)
    BY <1>3, <1>6, <1>9
  <2>2. CanDispatch(known, c)
    BY <1>5, <1>9 DEF CanDispatch, Accepts, SameIdentity
  <2>3. r = Start(known, c)
    BY <2>1, <2>2 DEF Dispatch
  <2>4. q.waiting = None
    BY <1>1, <1>9 DEF QueueOK, WaitingOK
  <2>5. r.running = [req |-> c, current |-> TRUE, retirement |-> "none"]
        /\ r.running # None /\ r.waiting = None
    BY <1>5, <2>3, <2>4, StartFacts
  <2>. QED BY <1>9, <2>5 DEF r
<1>. QED BY <1>6, <1>7, <1>8, <1>9

\* A result action executes at once.
LEMMA AdmitResultTakes ==
  ASSUME NEW p, NEW q, Sound(p, q), NEW c \in Candidates, AdmitsResult(q, c)
  PROVE  LET r == AdmitResult(q, c)
         IN  /\ r.running # None /\ r.running.req = c /\ r.waiting = None
             /\ q.running = None
<1> DEFINE known == [q EXCEPT !.ticket = None, !.issued = Remember(@, Ctx(c))]
<1>1. q \in Queues /\ q.running = None /\ q.waiting = None
  BY DEF Sound, AdmitsResult, SlotsFree
<1>2. Remember(q.issued, Ctx(c)) \in Seq(Contexts)
  BY <1>1, CtxType, RememberLast DEF Queues
<1>3. known \in Queues /\ known.waiting = None
  BY <1>1, <1>2 DEF Queues
<1>4. AdmitResult(q, c) = Start(known, c)
  BY DEF AdmitResult
<1> HIDE DEF known
<1>5. /\ Start(known, c).running = [req |-> c, current |-> TRUE, retirement |-> "none"]
      /\ Start(known, c).running # None /\ Start(known, c).waiting = None
  BY <1>3, StartFacts
<1>. QED BY <1>1, <1>4, <1>5

-----------------------------------------------------------------------------
(* Steps that change one queue and cancel the calls of its plugin *)

\* The registry loses the contexts in S and nothing else.
Forgets(S) ==
    /\ RegistryOK(registry') /\ registry'.terminal = registry.terminal
    /\ Without(registry, registry', S)

\* What the new queue r of p executes or lets wait has not called with currency: it is
\* the request that lost its currency, the one that waited, or a new one.
Slots(p, r) ==
    r # None =>
        /\ r.running # None =>
              \/ Holds(p) /\ r.running.req = Holder(p) /\ ~r.running.current
              \/ /\ HasWaiting(p) /\ r.running.req.id = queue[p].waiting.id
                 /\ r.running.req.kind = "command" /\ r.waiting = None
              \/ /\ nextRequest < nextRequest' /\ r.running.req.id = nextRequest
                 /\ OwnLease(r.running.req, nextRequest)
                 /\ r.waiting = None
        /\ r.waiting # None =>
              \/ HasWaiting(p) /\ r.waiting.id = queue[p].waiting.id
              \/ nextRequest < nextRequest' /\ r.waiting.id = nextRequest

QueueStep(p, r) ==
    /\ queue' = [queue EXCEPT ![p] = r]
    /\ r = None \/ Sound(p, r)
    /\ Slots(p, r)
    /\ nextRequest' \in Nat /\ nextRequest' >= nextRequest
    /\ live' \subseteq Requests /\ live' \subseteq live \cup {nextRequest}
    /\ Forgets(ContextsOf(p))
    /\ authority' \in [Plugins -> Identities \cup {None}]
    /\ bundle' \in [Plugins -> Bundles \cup {None}]
    /\ \A q \in Plugins : q # p => authority'[q] = authority[q] /\ bundle'[q] = bundle[q]
    /\ bundle'[p] # None /\ bundle'[p].state = "recovery" =>
          r # None /\ r.running = None /\ Identity(r) = Identity(bundle'[p])
    /\ nextInc' \in Nat /\ UNCHANGED <<closed, calls>>

LEMMA NumbersStep ==
  ASSUME GateInvariant, NEW p \in Plugins, NEW r, QueueStep(p, r)
  PROVE  NumbersUnique'
<1> DEFINE Held(q) == queue'[q] # None /\ queue'[q].running # None
           Wait(q) == queue'[q] # None /\ queue'[q].waiting # None
           held(q) == queue'[q].running.req.id
           wait(q) == queue'[q].waiting.id
<1>1. queue \in [Plugins -> Queues \cup {None}] /\ nextRequest \in Nat
      /\ nextRequest' \in Nat /\ nextRequest <= nextRequest' /\ attempts' = attempts
      /\ NumbersUnique
  BY DEF GateInvariant, GateTypeOK, QueueStep, calls
<1>2. queue'[p] = r /\ \A q \in Plugins : q # p => queue'[q] = queue[q]
  BY <1>1 DEF QueueStep
<1>3. ASSUME NEW q \in Plugins, q # p
      PROVE  /\ Held(q) <=> Holds(q)
             /\ Holds(q) => held(q) = Holder(q).id /\ held(q) < nextRequest
             /\ Wait(q) <=> HasWaiting(q)
             /\ HasWaiting(q) => wait(q) = queue[q].waiting.id /\ wait(q) < nextRequest
  BY <1>1, <1>2, <1>3 DEF Holds, Holder, HasWaiting, NumbersUnique
<1>4. Held(p) => \/ Holds(p) /\ held(p) = Holder(p).id /\ queue'[p].running.req = Holder(p)
                 \/ HasWaiting(p) /\ held(p) = queue[p].waiting.id /\ ~Wait(p)
                    /\ queue'[p].running.req.kind = "command"
                 \/ nextRequest < nextRequest' /\ held(p) = nextRequest /\ ~Wait(p)
                    /\ OwnLease(queue'[p].running.req, nextRequest)
  BY <1>2 DEF QueueStep, Slots
<1>5. Wait(p) => \/ HasWaiting(p) /\ wait(p) = queue[p].waiting.id
                 \/ nextRequest < nextRequest' /\ wait(p) = nextRequest
  BY <1>2 DEF QueueStep, Slots
<1>6. ASSUME NEW q \in Plugins
      PROVE  /\ Held(q) => held(q) \in Requests /\ held(q) \in Nat
             /\ Wait(q) => wait(q) \in Requests /\ wait(q) \in Nat
  <2>1. queue'[q] # None => queue'[q] \in Queues
    BY <1>1, <1>2 DEF QueueStep, Sound
  <2>2. Held(q) => queue'[q].running \in RunningRequests
    BY <2>1 DEF Queues
  <2>3. Wait(q) => queue'[q].waiting \in Candidates
    BY <2>1 DEF Queues
  <2>. QED BY <2>2, <2>3, GateAssumption DEF RunningRequests, Candidates
<1>7. Holds(p) => Holder(p).id < nextRequest
  BY <1>1 DEF NumbersUnique
<1>8. HasWaiting(p) => queue[p].waiting.id < nextRequest
  BY <1>1 DEF NumbersUnique
<1>9. \A q \in Plugins : q # p =>
         /\ Holds(p) /\ Holds(q) => Holder(p).id # Holder(q).id
         /\ Holds(p) /\ HasWaiting(q) => Holder(p).id # queue[q].waiting.id
         /\ Holds(q) /\ HasWaiting(p) => Holder(q).id # queue[p].waiting.id
         /\ HasWaiting(p) /\ HasWaiting(q) => queue[p].waiting.id # queue[q].waiting.id
  BY <1>1 DEF NumbersUnique
<1>10. ASSUME NEW q \in Plugins
       PROVE  /\ Held(q) => held(q) < nextRequest' /\ OwnLease(queue'[q].running.req, held(q))
              /\ Wait(q) => wait(q) < nextRequest' /\ attempts[wait(q)] = 0
                            /\ (Held(q) => held(q) # wait(q))
  <2>1. CASE q # p
    <3>1. /\ Held(q) => held(q) < nextRequest'
          /\ Wait(q) => wait(q) < nextRequest'
      BY <1>1, <1>3, <1>6, <2>1
    <3>2. Held(q) => queue'[q].running.req = Holder(q)
      BY <1>2, <2>1 DEF Holder
    <3>3. /\ Held(q) => OwnLease(Holder(q), Holder(q).id)
          /\ Wait(q) => attempts[queue[q].waiting.id] = 0
          /\ Wait(q) /\ Held(q) => Holder(q).id # queue[q].waiting.id
      BY <1>1, <1>3, <2>1 DEF NumbersUnique
    <3>. QED BY <1>3, <2>1, <3>1, <3>2, <3>3
  <2>2. CASE q = p
    <3>1. Held(p) => held(p) < nextRequest'
      BY <1>1, <1>4, <1>6, <1>7, <1>8
    <3>2. Held(p) => OwnLease(queue'[p].running.req, held(p))
      BY <1>1, <1>4 DEF NumbersUnique, OwnLease
    <3>3. Wait(p) => wait(p) < nextRequest' /\ attempts[wait(p)] = 0
      <4>1. CASE HasWaiting(p) /\ wait(p) = queue[p].waiting.id
        <5>1. attempts[wait(p)] = 0
          BY <1>1, <4>1 DEF NumbersUnique
        <5>2. Wait(p) => wait(p) < nextRequest'
          BY <1>1, <1>6, <1>8, <4>1
        <5>. QED BY <5>1, <5>2
      <4>2. CASE nextRequest < nextRequest' /\ wait(p) = nextRequest
        BY <1>1, <1>6, <4>2 DEF NumbersUnique
      <4>. QED BY <1>5, <4>1, <4>2
    <3>4. Wait(p) /\ Held(p) => held(p) # wait(p)
      BY <1>1, <1>4, <1>5, <1>7 DEF NumbersUnique
    <3>. QED BY <2>2, <3>1, <3>2, <3>3, <3>4
  <2>. QED BY <2>1, <2>2
<1> HIDE DEF Held, Wait, held, wait
<1>11. ASSUME NEW q \in Plugins, NEW s \in Plugins, q # s
       PROVE  /\ Held(q) /\ Held(s) => held(q) # held(s)
              /\ Held(q) /\ Wait(s) => held(q) # wait(s)
              /\ Wait(q) /\ Wait(s) => wait(q) # wait(s)
  <2>1. CASE q # p /\ s # p
    BY <1>1, <1>3, <1>11, <2>1 DEF NumbersUnique
  <2>2. CASE q = p
    BY <1>1, <1>3, <1>4, <1>5, <1>9, <1>11, <2>2
  <2>3. CASE s = p
    BY <1>1, <1>3, <1>4, <1>5, <1>9, <1>11, <2>3
  <2>. QED BY <2>1, <2>2, <2>3
<1>12. ASSUME NEW n \in Requests, n >= nextRequest'
       PROVE  attempts[n] = 0
  <2>1. n \in Nat /\ n >= nextRequest
    BY <1>1, <1>12, GateAssumption
  <2>. QED BY <1>1, <2>1 DEF NumbersUnique
<1>. QED BY <1>1, <1>10, <1>11, <1>12
     DEF NumbersUnique, Held, Wait, held, wait, Holds, Holder, HasWaiting, OwnLease

LEMMA QueueStepKeeps ==
  ASSUME GateInvariant, NEW p \in Plugins, NEW r, QueueStep(p, r)
  PROVE  GateInvariant'
<1>1. queue \in [Plugins -> Queues \cup {None}] /\ QueuesSound
      /\ attempts' = attempts /\ tasks' = tasks /\ nextCall' = nextCall
      /\ delivered' = delivered /\ closed' = closed
  BY DEF GateInvariant, GateTypeOK, QueueStep, calls
<1>2. queue'[p] = r /\ \A q \in Plugins : q # p => queue'[q] = queue[q]
  BY <1>1 DEF QueueStep
<1>3. /\ RegistryOK(registry') /\ registry'.terminal = registry.terminal
      /\ Known(registry') \subseteq Known(registry)
      /\ \A x \in Known(registry) : x.plugin # p => x \in Known(registry')
      /\ \A x \in Known(registry') : x.plugin # p /\ x.plugin \in Plugins
                                     /\ registry'.usage[x] = registry.usage[x]
  BY DEF QueueStep, Forgets, Without, ContextsOf, RegistryOK, NetContexts
<1>4. \A q \in Plugins : q # p => authority'[q] = authority[q] /\ bundle'[q] = bundle[q]
  BY DEF QueueStep
<1>5. GateTypeOK'
  <2>1. queue' \in [Plugins -> Queues \cup {None}]
    BY <1>1 DEF QueueStep, Sound
  <2>. QED BY <1>1, <2>1 DEF GateInvariant, GateTypeOK, QueueStep
<1>6. QueuesSound'
  BY <1>1, <1>2 DEF QueuesSound, QueueStep
<1>7. (registry.terminal => closed)'
  BY <1>1, <1>3 DEF GateInvariant
<1>8. ContextsOwned'
  <2> SUFFICES ASSUME NEW x \in Known(registry')
               PROVE  /\ Holds(x.plugin)' /\ queue'[x.plugin].running.current
                      /\ x = NetContext(x.plugin, queue'[x.plugin])
                      /\ authority'[x.plugin] = [gen |-> x.gen, inc |-> x.inc]
    BY DEF ContextsOwned
  <2>1. x \in Known(registry) /\ x.plugin \in Plugins /\ x.plugin # p
    BY <1>3
  <2>2. queue'[x.plugin] = queue[x.plugin] /\ authority'[x.plugin] = authority[x.plugin]
    BY <1>2, <1>4, <2>1
  <2>. QED BY <2>1, <2>2 DEF GateInvariant, ContextsOwned, Holds
<1>9. NumbersUnique'
  BY NumbersStep
<1>10. RecoveryQuiet'
  <2> SUFFICES ASSUME NEW q \in Plugins, bundle'[q] # None, bundle'[q].state = "recovery"
               PROVE  queue'[q] # None /\ queue'[q].running = None
                      /\ Identity(queue'[q]) = Identity(bundle'[q])
    BY DEF RecoveryQuiet, In
  <2>1. CASE q = p
    BY <1>2, <2>1 DEF QueueStep
  <2>2. CASE q # p
    BY <1>2, <1>4, <2>2 DEF GateInvariant, RecoveryQuiet, In
  <2>. QED BY <2>1, <2>2
<1>11. AttemptsCounted'
  <2>1. ASSUME NEW x \in Known(registry')
        PROVE  registry'.usage[x].attempts = attempts'[x.id]
    BY <1>1, <1>3 DEF GateInvariant, AttemptsCounted
  <2>2. ASSUME NEW q \in Plugins, Uncounted(q)'
        PROVE  attempts'[queue'[q].running.req.id] = 0
    <3>1. CASE q # p
      <4>1. queue'[q] = queue[q] /\ authority'[q] = authority[q]
        BY <1>2, <1>4, <3>1
      <4>2. NetContext(q, queue[q]).plugin = q
        BY DEF NetContext
      <4>3. NetContext(q, queue[q]) \notin Known(registry)
        BY <1>3, <2>2, <3>1, <4>1, <4>2 DEF Uncounted
      <4>4. Uncounted(q)
        BY <2>2, <4>1, <4>3 DEF Uncounted, Holds
      <4>. QED BY <1>1, <4>1, <4>4 DEF GateInvariant, AttemptsCounted, Holder
    <3>2. CASE q = p
      <4>1. r # None /\ r.running # None /\ r.running.current
        BY <1>2, <2>2, <3>2 DEF Uncounted, Holds
      <4>2. CASE HasWaiting(p) /\ r.running.req.id = queue[p].waiting.id
        BY <1>1, <1>2, <3>2, <4>2 DEF GateInvariant, NumbersUnique
      <4>3. CASE r.running.req.id = nextRequest
        <5>1. r.running.req.id \in Requests /\ nextRequest \in Nat
          BY <4>1 DEF QueueStep, Sound, Queues, RunningRequests, Candidates, GateInvariant,
             GateTypeOK
        <5>. QED BY <1>1, <1>2, <3>2, <4>3, <5>1 DEF GateInvariant, NumbersUnique
      <4>. QED BY <4>1, <4>2, <4>3 DEF QueueStep, Slots
    <3>. QED BY <3>1, <3>2
  <2>. QED BY <2>1, <2>2 DEF AttemptsCounted, Holder
<1>12. TasksUnique'
  BY <1>1, <1>3 DEF GateInvariant, TasksUnique
<1>. QED BY <1>3, <1>5, <1>6, <1>7, <1>8, <1>9, <1>10, <1>11, <1>12 DEF GateInvariant

-----------------------------------------------------------------------------
(* Which contexts an operation cancels *)

\* The contexts of a plugin that the registry knows are those of its executing request.
LEMMA OwnedContexts ==
  ASSUME GateInvariant, NEW p \in Plugins
  PROVE  /\ ~Holds(p) => ContextsOf(p) = {}
         /\ Holds(p) => /\ OfRequest(Ctx(queue[p].running.req)) = ContextsOf(p)
                        /\ OfRuntime(p, Identity(queue[p])) = ContextsOf(p)
<1>1. \A x \in ContextsOf(p) : Holds(p) /\ x = NetContext(p, queue[p])
  BY DEF GateInvariant, ContextsOwned, ContextsOf
<1>2. CASE Holds(p)
  <2>1. /\ Ctx(queue[p].running.req).plugin = p
        /\ Ctx(queue[p].running.req).gen = queue[p].gen
        /\ Ctx(queue[p].running.req).id = queue[p].running.req.id
    BY <1>2 DEF GateInvariant, QueuesSound, Holds, Sound, QueueOK, RunningOK, SameIdentity, Ctx
  <2>2. \A x \in ContextsOf(p) : x.gen = queue[p].gen /\ x.inc = queue[p].inc
                                 /\ x.id = queue[p].running.req.id
    BY <1>1 DEF NetContext
  <2>3. OfRequest(Ctx(queue[p].running.req)) = ContextsOf(p)
    BY <2>1, <2>2 DEF OfRequest
  <2>4. OfRuntime(p, Identity(queue[p])) = ContextsOf(p)
    BY <2>2 DEF OfRuntime, Identity
  <2>. QED BY <1>2, <2>3, <2>4
<1>3. CASE ~Holds(p)
  BY <1>1, <1>3
<1>. QED BY <1>2, <1>3

\* Cancelling them forgets them.
LEMMA CancelForgets ==
  ASSUME GateInvariant, NEW S, CancelCalls(S)
  PROVE  Forgets(S)
<1>1. RegistryOK(registry)
  BY DEF GateInvariant
<1>2. /\ RegistryOK(CancelContexts(registry, S))
      /\ Without(registry, CancelContexts(registry, S), S)
      /\ CancelContexts(registry, S).terminal = registry.terminal
  BY <1>1, CancelOK
<1>. QED BY <1>2 DEF CancelCalls, Forgets

\* What a queue inherits are slots, whatever becomes of the numbers.
LEMMA InheritedSlots ==
  ASSUME NEW p \in Plugins, queue[p] # None, NEW r, Inherits(queue[p], r)
  PROVE  Slots(p, r)
BY DEF Inherits, Slots, Holds, Holder, HasWaiting

LEMMA EmptySlots ==
  ASSUME NEW p, NEW r, r # None => r.running = None /\ r.waiting = None
  PROVE  Slots(p, r)
BY DEF Slots

-----------------------------------------------------------------------------
(* The operations that are such steps *)

\* The parts of GateInvariant a queue step begins with.
LEMMA QueueFacts ==
  ASSUME GateInvariant, NEW p \in Plugins
  PROVE  /\ queue[p] # None => Sound(p, queue[p]) /\ queue[p] \in Queues
                               /\ queue[p].pub \in Tokens
                               /\ queue[p].gen \in Nat /\ queue[p].inc \in Nat
         /\ live \subseteq Requests /\ nextRequest \in Nat /\ nextInc \in Nat
         /\ bundle \in [Plugins -> Bundles \cup {None}]
         /\ authority \in [Plugins -> Identities \cup {None}]
         /\ bundle[p] # None => bundle[p] \in Bundles
         /\ In(p, "recovery") => queue[p] # None /\ queue[p].running = None
                                 /\ Identity(queue[p]) = Identity(bundle[p])
BY DEF GateInvariant, GateTypeOK, QueuesSound, Sound, Queues, RecoveryQuiet

\* An operation on an executing request that changes the queue alone.
LEMMA RequestStep ==
  ASSUME GateInvariant, NEW p \in Plugins, Holds(p), NEW r, Sound(p, r),
         Inherits(queue[p], r), SetQueue(p, r),
         CancelCalls(OfRequest(Ctx(queue[p].running.req))),
         UNCHANGED <<live, nextRequest, plugin, authority, closed, calls>>
  PROVE  QueueStep(p, r)
<1>1. Forgets(ContextsOf(p))
  BY OwnedContexts, CancelForgets
<1>2. Slots(p, r)
  BY InheritedSlots DEF Holds
<1>3. ~In(p, "recovery")
  BY QueueFacts DEF Holds
<1>. QED BY <1>1, <1>2, <1>3, QueueFacts DEF QueueStep, SetQueue, plugin, In

LEMMA CompleteStep ==
  ASSUME GateInvariant, NEW p \in Plugins, CompleteRequest(p)
  PROVE  \E r : QueueStep(p, r)
<1>1. Sound(p, queue[p]) /\ queue[p].running # None /\ Holds(p)
  BY QueueFacts DEF CompleteRequest, Holds
<1> DEFINE r == Complete(queue[p], live)
<1>2. Sound(p, r) /\ Inherits(queue[p], r)
  BY <1>1, CompleteSound, CompleteInherits
<1>3. QueueStep(p, r)
  BY <1>1, <1>2, RequestStep DEF CompleteRequest
<1>. QED BY <1>3

LEMMA CancelStep ==
  ASSUME GateInvariant, NEW p \in Plugins, CancelRequest(p)
  PROVE  \E r : QueueStep(p, r)
<1>1. Sound(p, queue[p]) /\ queue[p].running # None /\ Holds(p)
  BY QueueFacts DEF CancelRequest, Holds
<1> DEFINE r == Cancel(queue[p], Ctx(queue[p].running.req))
<1>2. Sound(p, r) /\ Inherits(queue[p], r)
  BY <1>1, CancelSound, CancelInherits
<1>3. QueueStep(p, r)
  BY <1>1, <1>2, RequestStep DEF CancelRequest
<1>. QED BY <1>3

LEMMA RetireStep ==
  ASSUME GateInvariant, NEW p \in Plugins, RetireRunningRequest(p)
  PROVE  \E r : QueueStep(p, r)
<1>1. Sound(p, queue[p]) /\ queue[p].running # None /\ Holds(p)
  BY QueueFacts DEF RetireRunningRequest, Holds
<1> DEFINE r == RetireContext(queue[p], Ctx(queue[p].running.req))
<1>2. Sound(p, r) /\ Inherits(queue[p], r)
  BY <1>1, RetireContextSound, RetireContextInherits
<1>3. QueueStep(p, r)
  BY <1>1, <1>2, RequestStep DEF RetireRunningRequest
<1>. QED BY <1>3

LEMMA ExpireStep ==
  ASSUME GateInvariant, NEW p \in Plugins, Expire(p)
  PROVE  \E r : QueueStep(p, r)
<1>1. Sound(p, queue[p]) /\ queue[p].running # None /\ Holds(p) /\ queue[p] # None
  BY QueueFacts DEF Expire, Holds
<1> DEFINE r == ExpireRunning(queue[p])
<1>2. Sound(p, r) /\ Inherits(queue[p], r)
  BY <1>1, ExpireSound, ExpireInherits
<1> HIDE DEF r
<1>3. Forgets(ContextsOf(p))
  BY <1>1, OwnedContexts, CancelForgets DEF Expire, InvalidateRuntime
<1>4. Slots(p, r)
  BY <1>1, <1>2, InheritedSlots
<1>5. ~In(p, "recovery")
  BY <1>1, QueueFacts
<1>6. authority' \in [Plugins -> Identities \cup {None}]
      /\ \A q \in Plugins : q # p => authority'[q] = authority[q]
  <2>1. authority \in [Plugins -> Identities \cup {None}]
    BY QueueFacts
  <2>2. authority' = [authority EXCEPT ![p] = IF @ = Identity(queue[p]) THEN None ELSE @]
    BY DEF Expire, InvalidateRuntime
  <2>. QED BY <2>1, <2>2
<1>7. QueueStep(p, r)
  BY <1>2, <1>3, <1>4, <1>5, <1>6, QueueFacts DEF QueueStep, Expire, SetQueue, plugin, In, r
<1>. QED BY <1>7

\* An operation on the plugin that exchanges its authority.
LEMMA ExchangeStep ==
  ASSUME GateInvariant, NEW p \in Plugins, NEW r, r = None \/ Sound(p, r), Slots(p, r),
         NEW b \in Bundles \cup {None}, NEW a \in Identities \cup {None},
         SetQueue(p, r), bundle' = [bundle EXCEPT ![p] = b], ExchangeAuthority(p, a),
         b # None /\ b.state = "recovery" =>
            r # None /\ r.running = None /\ Identity(r) = Identity(b),
         nextInc' \in Nat, UNCHANGED <<live, nextRequest, closed, calls>>
  PROVE  QueueStep(p, r)
<1>1. Forgets(ContextsOf(p))
  BY CancelForgets DEF ExchangeAuthority
<1>2. authority \in [Plugins -> Identities \cup {None}]
      /\ bundle \in [Plugins -> Bundles \cup {None}]
      /\ live \subseteq Requests /\ nextRequest \in Nat
  BY QueueFacts
<1>3. authority' \in [Plugins -> Identities \cup {None}]
      /\ bundle' \in [Plugins -> Bundles \cup {None}] /\ bundle'[p] = b
      /\ \A q \in Plugins : q # p => authority'[q] = authority[q] /\ bundle'[q] = bundle[q]
  BY <1>2 DEF ExchangeAuthority
<1>. QED BY <1>1, <1>2, <1>3 DEF QueueStep, SetQueue

\* retire_plugin_requests and invalidate_plugin of a queue that may be absent.
LEMMA RetireAllFacts ==
  ASSUME GateInvariant, NEW p \in Plugins
  PROVE  LET r == RetireAll(queue[p])
         IN  /\ r = None \/ Sound(p, r)
             /\ r = None <=> queue[p] = None
             /\ Slots(p, r)
             /\ queue[p] # None => /\ queue[p].running = None => r.running = None
                                   /\ r.gen = queue[p].gen /\ r.inc = queue[p].inc
<1> DEFINE r == RetireAll(queue[p])
<1>1. CASE queue[p] = None
  <2>1. r = None
    BY <1>1 DEF RetireAll
  <2>. QED BY <1>1, <2>1, EmptySlots
<1>2. CASE queue[p] # None
  <2>1. Sound(p, queue[p]) /\ queue[p].pub \in Tokens
    BY <1>2, QueueFacts
  <2>2. r = RetirePlugin(queue[p], queue[p].pub)
    BY <1>2 DEF RetireAll, Keep
  <2>3. Sound(p, r)
    BY <2>1, <2>2, RetirePluginSound
  <2>4. Inherits(queue[p], r) /\ (queue[p].running = None => r.running = None)
        /\ r.gen = queue[p].gen /\ r.inc = queue[p].inc
    BY <2>1, <2>2, RetirePluginInherits
  <2>5. r # None
    BY <2>3, NoneAssumption DEF Sound
  <2> HIDE DEF r
  <2>6. Slots(p, r)
    BY <1>2, <2>4, InheritedSlots
  <2>. QED BY <1>2, <2>3, <2>4, <2>5, <2>6 DEF r
<1>. QED BY <1>1, <1>2

LEMMA InvalidateAllFacts ==
  ASSUME NEW p, NEW q, q = None \/ Sound(p, q)
  PROVE  LET r == InvalidateAll(q)
         IN  /\ r = None \/ Sound(p, r)
             /\ r # None => r.running = None /\ r.waiting = None
<1> DEFINE r == InvalidateAll(q)
<1>1. CASE q = None
  BY <1>1 DEF InvalidateAll
<1>2. CASE q # None
  <2>1. Sound(p, q) /\ q.pub \in Tokens
    BY <1>2 DEF Sound, Queues
  <2>2. r = Invalidate(q, q.pub)
    BY <1>2 DEF InvalidateAll, Keep
  <2>3. Sound(p, Invalidate(q, q.pub))
    BY <2>1, InvalidateSound
  <2>4. Invalidate(q, q.pub).running = None /\ Invalidate(q, q.pub).waiting = None
    BY <2>1, InvalidateEmpties
  <2>. QED BY <2>2, <2>3, <2>4
<1>. QED BY <1>1, <1>2

\* What an operation without calls to cancel leaves to be forgotten.
LEMMA NothingForgets ==
  ASSUME GateInvariant, NEW p \in Plugins, ~Holds(p),
         UNCHANGED registry \/ CancelCalls({}) \/ CancelCalls(ContextsOf(p))
  PROVE  Forgets(ContextsOf(p))
<1>1. ContextsOf(p) = {}
  BY OwnedContexts
<1>2. CASE UNCHANGED registry
  <2>1. {c \in registry.calls : c.ctx \notin {}} = registry.calls
        /\ Known(registry) \ {} = Known(registry) /\ RegistryOK(registry)
    BY DEF GateInvariant
  <2>. QED BY <1>1, <1>2, <2>1 DEF Forgets, Without
<1>3. CASE CancelCalls({}) \/ CancelCalls(ContextsOf(p))
  BY <1>1, <1>3, CancelForgets
<1>. QED BY <1>2, <1>3

LEMMA SubmitStep ==
  ASSUME GateInvariant, NEW p \in Plugins, NEW kind \in Kinds, Submit(p, kind)
  PROVE  \E r : QueueStep(p, r)
<1> DEFINE q == IF queue[p] = None THEN NewQueue(bundle[p].gen, bundle[p].inc, 1)
                ELSE queue[p]
           c == Candidate(p, kind, Identity(q))
<1>1. /\ ~closed /\ nextRequest \in Requests /\ nextRequest' = nextRequest + 1
      /\ queue[p] = None => bundle[p] # None
      /\ In(p, "recovery") => Identity(bundle[p]) # Identity(q)
      /\ UNCHANGED <<plugin, authority, closed, calls>>
  BY DEF Submit
<1>2. kind = "result" =>
         /\ AdmitsResult(q, c) /\ SetQueue(p, AdmitResult(q, c))
         /\ live' = live \cup {c.lease} /\ UNCHANGED registry
  BY DEF Submit
<1>3. kind # "result" =>
         /\ Accepts(q, c) /\ SetQueue(p, Enqueue(q, c)) /\ UNCHANGED live
         /\ CancelCalls(IF q.running # None THEN OfRequest(Ctx(q.running.req)) ELSE {})
  BY DEF Submit
<1>4. /\ Sound(p, q) /\ q.gen \in Nat /\ q.inc \in Nat
      /\ q.running = None <=> ~Holds(p)
      /\ q.waiting # None => queue[p] # None /\ queue[p] = q
      /\ q.running # None => queue[p] # None /\ queue[p] = q
  <2>1. CASE queue[p] = None
    <3>1. bundle[p].gen \in Nat /\ bundle[p].inc \in Nat /\ 1 \in Tokens
      BY <1>1, <2>1, QueueFacts, GateAssumption DEF Bundles
    <3>2. q = NewQueue(bundle[p].gen, bundle[p].inc, 1)
      BY <2>1
    <3>3. Sound(p, q)
      BY <3>1, <3>2, NewQueueSound
    <3>. QED BY <2>1, <3>1, <3>2, <3>3 DEF NewQueue, Holds
  <2>2. CASE queue[p] # None
    BY <2>2, QueueFacts DEF Holds
  <2>. QED BY <2>1, <2>2
<1>5. ~In(p, "recovery")
  BY <1>1, QueueFacts
<1> HIDE DEF q
<1>6. /\ c \in Candidates /\ c.id = nextRequest /\ c.plugin = p /\ c.kind = kind
      /\ OwnLease(c, nextRequest) /\ (kind = "result" => c.lease = nextRequest)
  BY <1>1, <1>4, GateAssumption DEF Candidate, Identity, Candidates, OwnLease
<1> HIDE DEF c
<1>7. nextRequest \in Nat /\ nextRequest' \in Nat /\ nextRequest < nextRequest'
      /\ nextRequest' >= nextRequest
  BY <1>1, QueueFacts
<1>8. /\ authority' \in [Plugins -> Identities \cup {None}]
      /\ bundle' \in [Plugins -> Bundles \cup {None}]
      /\ \A s \in Plugins : s # p => authority'[s] = authority[s] /\ bundle'[s] = bundle[s]
      /\ ~(bundle'[p] # None /\ bundle'[p].state = "recovery")
      /\ nextInc' \in Nat /\ live \subseteq Requests
  BY <1>1, <1>5, QueueFacts DEF plugin, In
<1>9. CASE kind = "result"
  <2> DEFINE r == AdmitResult(q, c)
  <2>1. Sound(p, r)
    BY <1>2, <1>4, <1>6, <1>9, AdmitResultSound
  <2>2. r.running # None /\ r.running.req = c /\ r.waiting = None /\ q.running = None
    BY <1>2, <1>4, <1>6, <1>9, AdmitResultTakes
  <2>3. queue' = [queue EXCEPT ![p] = r]
    BY <1>2, <1>9 DEF SetQueue
  <2> HIDE DEF r
  <2>4. Forgets(ContextsOf(p))
    BY <1>2, <1>4, <1>9, <2>2, NothingForgets
  <2>5. Slots(p, r)
    BY <1>6, <1>7, <1>9, <2>2 DEF Slots
  <2>6. live' \subseteq Requests /\ live' \subseteq live \cup {nextRequest}
    BY <1>1, <1>2, <1>6, <1>8, <1>9
  <2>7. QueueStep(p, r)
    BY <1>1, <1>7, <1>8, <2>1, <2>3, <2>4, <2>5, <2>6 DEF QueueStep
  <2>. QED BY <2>7
<1>10. CASE kind # "result"
  <2> DEFINE r == Enqueue(q, c)
  <2>1. Sound(p, r)
    BY <1>3, <1>4, <1>6, <1>10, EnqueueSound
  <2>2. \/ r.running # None /\ r.running.req = c /\ r.waiting = None /\ q.running = None
        \/ /\ r.waiting = c
           /\ r.running # None =>
                 q.running # None /\ r.running.req = q.running.req /\ ~r.running.current
    BY <1>3, <1>4, <1>6, <1>10, EnqueueTakes
  <2>3. queue' = [queue EXCEPT ![p] = r]
    BY <1>3, <1>10 DEF SetQueue
  <2> HIDE DEF r
  <2>4. Forgets(ContextsOf(p))
    <3>1. CASE q.running = None
      BY <1>3, <1>4, <1>10, <3>1, NothingForgets
    <3>2. CASE q.running # None
      BY <1>3, <1>4, <1>10, <3>2, OwnedContexts, CancelForgets
    <3>. QED BY <3>1, <3>2
  <2>5. Slots(p, r)
    <3>1. CASE r.running # None /\ r.running.req = c /\ r.waiting = None
      BY <1>6, <1>7, <1>10, <3>1 DEF Slots
    <3>2. CASE r.waiting = c /\ (r.running # None =>
                q.running # None /\ r.running.req = q.running.req /\ ~r.running.current)
      BY <1>4, <1>6, <1>7, <3>2 DEF Slots, Holds, Holder
    <3>. QED BY <2>2, <3>1, <3>2
  <2>6. live' \subseteq Requests /\ live' \subseteq live \cup {nextRequest}
    BY <1>3, <1>8, <1>10
  <2>7. QueueStep(p, r)
    BY <1>1, <1>7, <1>8, <2>1, <2>3, <2>4, <2>5, <2>6 DEF QueueStep
  <2>. QED BY <2>7
<1>. QED BY <1>9, <1>10

LEMMA FinishReplaceStep ==
  ASSUME GateInvariant, NEW p \in Plugins, FinishReplace(p)
  PROVE  \E r : QueueStep(p, r)
<1> DEFINE r == RuntimeReplaced(queue[p], bundle[p].inc, Keep(queue[p]))
<1>1. /\ queue[p] # None /\ bundle[p] # None /\ bundle[p].state = "active"
      /\ CanReplace(queue[p], bundle[p].gen) /\ SetQueue(p, r)
      /\ ReplaceAuthority(p, Granted(bundle[p]))
      /\ UNCHANGED <<live, nextRequest, plugin, closed, calls>>
  BY DEF FinishReplace
<1>2. Sound(p, queue[p]) /\ bundle[p].inc \in Nat /\ bundle[p].gen \in Nat
      /\ Keep(queue[p]) \in Tokens
  BY <1>1, QueueFacts DEF Bundles, Keep
<1>3. Sound(p, r) /\ Inherits(queue[p], r)
  BY <1>1, <1>2, ReplacedSound, ReplacedInherits
<1> HIDE DEF r
<1>4. ~Holds(p)
  BY <1>1 DEF CanReplace, Holds
<1>5. Forgets(ContextsOf(p))
  <2>1. ContextsOf(p) = {} /\ ContextsOf(p) \ OfRuntime(p, Granted(bundle[p])) = {}
    BY <1>4, OwnedContexts
  <2>2. CancelCalls({})
    BY <1>1, <2>1 DEF ReplaceAuthority
  <2>. QED BY <1>4, <2>2, NothingForgets
<1>6. Slots(p, r)
  BY <1>1, <1>3, InheritedSlots
<1>7. authority' \in [Plugins -> Identities \cup {None}]
      /\ \A s \in Plugins : s # p => authority'[s] = authority[s]
  <2>1. Granted(bundle[p]) \in Identities \cup {None}
    BY <1>2 DEF Granted, Identity, Identities
  <2>. QED BY <1>1, <2>1, QueueFacts DEF ReplaceAuthority
<1>8. QueueStep(p, r)
  BY <1>1, <1>3, <1>5, <1>6, <1>7, QueueFacts DEF QueueStep, SetQueue, plugin
<1>. QED BY <1>8

LEMMA ChangeStep ==
  ASSUME GateInvariant, NEW p \in Plugins, NEW network \in BOOLEAN, CommitChange(p, network)
  PROVE  \E r : QueueStep(p, r)
<1> DEFINE r == RetireAll(queue[p])
           b == [bundle[p] EXCEPT !.network = network]
<1>1. /\ bundle[p] # None /\ SetQueue(p, r)
      /\ bundle' = [bundle EXCEPT ![p].network = network]
      /\ ExchangeAuthority(p, Granted(bundle'[p]))
      /\ UNCHANGED <<live, nextRequest, nextInc, closed, calls>>
  BY DEF CommitChange
<1>2. bundle \in [Plugins -> Bundles \cup {None}] /\ bundle[p] \in Bundles /\ nextInc \in Nat
  BY <1>1, QueueFacts
<1>3. b \in Bundles /\ b.state = bundle[p].state /\ Identity(b) = Identity(bundle[p])
  BY <1>2 DEF Bundles, Identity
<1>4. bundle' = [bundle EXCEPT ![p] = b] /\ bundle'[p] = b
  BY <1>1, <1>2
<1> HIDE DEF b
<1>5. Granted(b) \in Identities \cup {None}
  BY <1>3 DEF Granted, Bundles, Identity, Identities
<1>6. /\ r = None \/ Sound(p, r)
      /\ r = None <=> queue[p] = None
      /\ Slots(p, r)
      /\ queue[p] # None => /\ queue[p].running = None => r.running = None
                            /\ r.gen = queue[p].gen /\ r.inc = queue[p].inc
  BY RetireAllFacts
<1> HIDE DEF r
<1>7. b.state = "recovery" =>
         r # None /\ r.running = None /\ Identity(r) = Identity(b)
  BY <1>1, <1>3, <1>6, QueueFacts DEF In, Identity
<1>8. QueueStep(p, r)
  BY <1>1, <1>2, <1>3, <1>4, <1>5, <1>6, <1>7, ExchangeStep
<1>. QED BY <1>8

LEMMA DisableStep ==
  ASSUME GateInvariant, NEW p \in Plugins, NEW fault \in BOOLEAN, CommitDisable(p, fault)
  PROVE  \E r : QueueStep(p, r)
<1> DEFINE q == IF fault THEN queue[p] ELSE RetireAll(queue[p])
           r == InvalidateAll(q)
<1>1. /\ SetQueue(p, r) /\ bundle' = [bundle EXCEPT ![p] = None]
      /\ ExchangeAuthority(p, None) /\ nextInc' \in Nat
      /\ UNCHANGED <<live, nextRequest, closed, calls>>
  BY QueueFacts DEF CommitDisable
<1>2. q = None \/ Sound(p, q)
  BY RetireAllFacts, QueueFacts
<1> HIDE DEF q
<1>3. (r = None \/ Sound(p, r)) /\ (r # None => r.running = None /\ r.waiting = None)
  BY <1>2, InvalidateAllFacts
<1> HIDE DEF r
<1>4. Slots(p, r)
  BY <1>3, EmptySlots
<1>5. QueueStep(p, r)
  BY <1>1, <1>3, <1>4, ExchangeStep
<1>. QED BY <1>5

LEMMA ActivationStep ==
  ASSUME GateInvariant, NEW p \in Plugins, CommitActivation(p)
  PROVE  \E r : QueueStep(p, r)
<1> DEFINE gen == 1 + (IF bundle[p] # None THEN bundle[p].gen
                       ELSE IF queue[p] # None THEN queue[p].gen ELSE 0)
           new == [gen |-> gen, inc |-> nextInc, network |-> TRUE, state |-> "active"]
           r == IF queue[p] = None THEN NewQueue(gen, nextInc, 1)
                ELSE Activate(RetireAll(queue[p]), gen, nextInc, Keep(queue[p]))
<1>1. /\ SetQueue(p, r) /\ bundle' = [bundle EXCEPT ![p] = new]
      /\ ExchangeAuthority(p, Granted(new)) /\ nextInc' = nextInc + 1
      /\ UNCHANGED <<live, nextRequest, closed, calls>>
  BY DEF CommitActivation
<1>2. gen \in Nat /\ nextInc \in Nat /\ nextInc + 1 \in Nat
  BY QueueFacts DEF Bundles
<1> HIDE DEF gen
<1>3. new \in Bundles /\ new.state = "active" /\ Granted(new) \in Identities \cup {None}
  BY <1>2 DEF Bundles, Granted, Identity, Identities
<1> HIDE DEF new
<1>4. Sound(p, r) /\ r.running = None /\ r.waiting = None
  <2>1. CASE queue[p] = None
    <3>1. Sound(p, NewQueue(gen, nextInc, 1))
      BY <1>2, NewQueueSound, GateAssumption
    <3>. QED BY <2>1, <3>1 DEF NewQueue
  <2>2. CASE queue[p] # None
    <3> DEFINE q == RetireAll(queue[p])
    <3>1. Sound(p, q) /\ Keep(queue[p]) \in Tokens
      BY <2>2, RetireAllFacts, QueueFacts DEF Keep
    <3> HIDE DEF q
    <3>2. Sound(p, Activate(q, gen, nextInc, Keep(queue[p])))
      BY <1>2, <3>1, ActivateSound
    <3>3. /\ Activate(q, gen, nextInc, Keep(queue[p])).running = None
          /\ Activate(q, gen, nextInc, Keep(queue[p])).waiting = None
      BY <3>1, InvalidateEmpties
    <3>. QED BY <2>2, <3>2, <3>3 DEF q
  <2>. QED BY <2>1, <2>2
<1> HIDE DEF r
<1>5. Slots(p, r)
  BY <1>4, EmptySlots
<1>6. QueueStep(p, r)
  BY <1>1, <1>2, <1>3, <1>4, <1>5, ExchangeStep
<1>. QED BY <1>6

LEMMA BeginUninstallStep ==
  ASSUME GateInvariant, NEW p \in Plugins, NEW purge \in BOOLEAN, BeginUninstall(p, purge)
  PROVE  \E r : QueueStep(p, r)
<1> DEFINE q == RetireAll(queue[p])
           r == IF purge THEN None ELSE InvalidateAll(q)
           b == [bundle[p] EXCEPT !.state = "uninstalling"]
<1>1. /\ bundle[p] # None /\ SetQueue(p, r)
      /\ bundle' = [bundle EXCEPT ![p].state = "uninstalling"]
      /\ ExchangeAuthority(p, None) /\ nextInc' \in Nat
      /\ UNCHANGED <<live, nextRequest, closed, calls>>
  BY QueueFacts DEF BeginUninstall
<1>2. bundle \in [Plugins -> Bundles \cup {None}] /\ bundle[p] \in Bundles
  BY <1>1, QueueFacts
<1>3. b \in Bundles /\ b.state = "uninstalling" /\ bundle' = [bundle EXCEPT ![p] = b]
  BY <1>1, <1>2 DEF Bundles
<1> HIDE DEF b
<1>4. q = None \/ Sound(p, q)
  BY RetireAllFacts
<1> HIDE DEF q
<1>5. (r = None \/ Sound(p, r)) /\ (r # None => r.running = None /\ r.waiting = None)
  BY <1>4, InvalidateAllFacts
<1> HIDE DEF r
<1>6. Slots(p, r)
  BY <1>5, EmptySlots
<1>7. QueueStep(p, r)
  BY <1>1, <1>3, <1>5, <1>6, ExchangeStep
<1>. QED BY <1>7

LEMMA AbortUninstallStep ==
  ASSUME GateInvariant, NEW p \in Plugins, AbortUninstall(p)
  PROVE  \E r : QueueStep(p, r)
<1> DEFINE r == IF queue[p] = None THEN NewQueue(bundle[p].gen, nextInc, 1)
                ELSE Activate(queue[p], bundle[p].gen, nextInc, Keep(queue[p]))
           b == [bundle[p] EXCEPT !.inc = nextInc, !.state = "recovery"]
<1>1. /\ In(p, "uninstalling") /\ SetQueue(p, r) /\ nextInc' = nextInc + 1
      /\ bundle' = [bundle EXCEPT ![p].inc = nextInc, ![p].state = "recovery"]
      /\ ExchangeAuthority(p, None)
      /\ UNCHANGED <<live, nextRequest, closed, calls>>
  BY DEF AbortUninstall
<1>2. bundle \in [Plugins -> Bundles \cup {None}] /\ bundle[p] \in Bundles
      /\ nextInc \in Nat /\ nextInc + 1 \in Nat /\ bundle[p].gen \in Nat
  BY <1>1, QueueFacts DEF In, Bundles
<1>3. b \in Bundles /\ b.gen = bundle[p].gen /\ b.inc = nextInc
  BY <1>2 DEF Bundles
<1>4. bundle' = [bundle EXCEPT ![p] = b]
  BY <1>1, <1>2
<1> HIDE DEF b
<1>5. Sound(p, r) /\ r.running = None /\ r.waiting = None
      /\ r.gen = bundle[p].gen /\ r.inc = nextInc
  <2>1. CASE queue[p] = None
    <3>1. Sound(p, NewQueue(bundle[p].gen, nextInc, 1))
      BY <1>2, NewQueueSound, GateAssumption
    <3>. QED BY <2>1, <3>1 DEF NewQueue
  <2>2. CASE queue[p] # None
    <3> DEFINE q == queue[p]
               g == bundle[p].gen
    <3>1. Sound(p, q) /\ Keep(q) \in Tokens /\ g \in Nat
      BY <1>2, <2>2, QueueFacts DEF Keep
    <3>2. r = Activate(q, g, nextInc, Keep(q))
      BY <2>2
    <3> HIDE DEF q, g
    <3>3. Sound(p, Activate(q, g, nextInc, Keep(q)))
      BY <1>2, <3>1, ActivateSound
    <3>4. /\ Activate(q, g, nextInc, Keep(q)).running = None
          /\ Activate(q, g, nextInc, Keep(q)).waiting = None
          /\ Activate(q, g, nextInc, Keep(q)).gen = g
          /\ Activate(q, g, nextInc, Keep(q)).inc = nextInc
      BY <3>1, InvalidateEmpties
    <3>. QED BY <3>2, <3>3, <3>4 DEF g
  <2>. QED BY <2>1, <2>2
<1> HIDE DEF r
<1>6. Slots(p, r)
  BY <1>5, EmptySlots
<1>7. r # None /\ Identity(r) = Identity(b)
  BY <1>3, <1>5, NoneAssumption DEF Sound, Identity
<1>8. QueueStep(p, r)
  BY <1>1, <1>2, <1>3, <1>4, <1>5, <1>6, <1>7, ExchangeStep
<1>. QED BY <1>8

LEMMA FailClosedStep ==
  ASSUME GateInvariant, NEW p \in Plugins, FailClosed(p)
  PROVE  \E r : QueueStep(p, r)
<1> DEFINE r == RetireAll(queue[p])
           b == bundle[p]
<1>1. /\ SetQueue(p, r) /\ ExchangeAuthority(p, None)
      /\ UNCHANGED <<live, nextRequest, plugin, closed, calls>>
  BY DEF FailClosed
<1>2. bundle \in [Plugins -> Bundles \cup {None}] /\ b \in Bundles \cup {None}
      /\ nextInc \in Nat /\ bundle' = [bundle EXCEPT ![p] = b] /\ nextInc' \in Nat
  BY <1>1, QueueFacts DEF plugin
<1>3. /\ r = None \/ Sound(p, r)
      /\ r = None <=> queue[p] = None
      /\ Slots(p, r)
      /\ queue[p] # None => /\ queue[p].running = None => r.running = None
                            /\ r.gen = queue[p].gen /\ r.inc = queue[p].inc
  BY RetireAllFacts
<1> HIDE DEF r
<1>4. b # None /\ b.state = "recovery" =>
         r # None /\ r.running = None /\ Identity(r) = Identity(b)
  BY <1>3, QueueFacts DEF In, Identity
<1> HIDE DEF b
<1>5. QueueStep(p, r)
  BY <1>1, <1>2, <1>3, <1>4, ExchangeStep
<1>. QED BY <1>5

-----------------------------------------------------------------------------
(* Steps that leave the queues alone *)

\* Authority is lost, and what executes without it is forgotten.
QuietStep ==
    /\ UNCHANGED <<queue, nextRequest, calls>> /\ live' \subseteq live
    /\ RegistryOK(registry') /\ (registry'.terminal => closed')
    /\ \E S : Without(registry, registry', S)
    /\ closed' \in BOOLEAN /\ (closed => closed') /\ nextInc' \in Nat
    /\ authority' \in [Plugins -> Identities \cup {None}]
    /\ bundle' \in [Plugins -> Bundles \cup {None}]
    /\ \A x \in Known(registry') : authority'[x.plugin] = authority[x.plugin]
    /\ \A p \in Plugins : Holds(p) /\ authority'[p] = Identity(queue[p]) =>
          /\ authority[p] = authority'[p]
          /\ NetContext(p, queue[p]) \in Known(registry)
                => NetContext(p, queue[p]) \in Known(registry')
    /\ RecoveryQuiet'

LEMMA QuietStepKeeps ==
  ASSUME GateInvariant, QuietStep
  PROVE  GateInvariant'
<1>1. /\ queue' = queue /\ nextRequest' = nextRequest /\ attempts' = attempts
      /\ tasks' = tasks /\ nextCall' = nextCall /\ delivered' = delivered
  BY DEF QuietStep, calls
<1>2. /\ Known(registry') \subseteq Known(registry)
      /\ \A x \in Known(registry') : registry'.usage[x] = registry.usage[x]
  BY DEF QuietStep, Without
<1>3. GateTypeOK'
  BY <1>1 DEF GateInvariant, GateTypeOK, QuietStep
<1>4. QueuesSound' /\ NumbersUnique'
  BY <1>1 DEF GateInvariant, QueuesSound, NumbersUnique, Holds, Holder, HasWaiting
<1>5. ContextsOwned'
  BY <1>1, <1>2 DEF GateInvariant, ContextsOwned, QuietStep, Holds
<1>6. AttemptsCounted'
  <2>1. ASSUME NEW x \in Known(registry')
        PROVE  registry'.usage[x].attempts = attempts'[x.id]
    BY <1>1, <1>2 DEF GateInvariant, AttemptsCounted
  <2>2. ASSUME NEW p \in Plugins, Uncounted(p)'
        PROVE  attempts'[queue'[p].running.req.id] = 0
    <3>1. Holds(p) /\ queue[p].running.current /\ authority'[p] = Identity(queue[p])
          /\ NetContext(p, queue[p]) \notin Known(registry')
      BY <1>1, <2>2 DEF Uncounted, Holds
    <3>2. Uncounted(p)
      BY <3>1 DEF Uncounted, QuietStep
    <3>. QED BY <1>1, <3>2 DEF GateInvariant, AttemptsCounted, Holder
  <2>. QED BY <2>1, <2>2 DEF AttemptsCounted, Holder
<1>7. TasksUnique'
  BY <1>1, <1>2 DEF GateInvariant, TasksUnique
<1>. QED BY <1>3, <1>4, <1>5, <1>6, <1>7 DEF GateInvariant, QuietStep

\* A registry that is left alone forgets nothing.
LEMMA Unforgotten ==
  ASSUME GateInvariant, UNCHANGED registry
  PROVE  RegistryOK(registry') /\ (registry'.terminal => closed)
         /\ Known(registry') = Known(registry) /\ \E S : Without(registry, registry', S)
<1>1. {c \in registry.calls : c.ctx \notin {}} = registry.calls
      /\ Known(registry) \ {} = Known(registry) /\ RegistryOK(registry)
  BY DEF GateInvariant
<1>2. Without(registry, registry', {})
  BY <1>1 DEF Without
<1>. QED BY <1>1, <1>2 DEF GateInvariant

LEMMA DismissStep ==
  ASSUME GateInvariant, NEW r \in live, DismissResult(r)
  PROVE  QuietStep
<1>1. live' \subseteq live /\ RecoveryQuiet'
  BY DEF DismissResult, GateInvariant, RecoveryQuiet, plugin, In
<1>. QED BY <1>1, Unforgotten DEF DismissResult, plugin, GateInvariant, GateTypeOK, QuietStep

\* A plugin whose queue holds no request gives its bundle and its authority away freely.
LEMMA ReplaceStep ==
  ASSUME GateInvariant, NEW p \in Plugins, CommitReplace(p)
  PROVE  QuietStep
<1>1. bundle \in [Plugins -> Bundles \cup {None}] /\ bundle[p] \in Bundles
      /\ queue[p].gen \in Nat /\ nextInc \in Nat /\ nextInc + 1 \in Nat
      /\ bundle[p].state = "active"
  BY QueueFacts DEF CommitReplace
<1> DEFINE b == [bundle[p] EXCEPT !.gen = queue[p].gen, !.inc = nextInc]
<1>2. b \in Bundles /\ b.state = "active"
  BY <1>1 DEF Bundles
<1>3. bundle' = [bundle EXCEPT ![p] = b]
  BY <1>1 DEF CommitReplace
<1> HIDE DEF b
<1>4. bundle' \in [Plugins -> Bundles \cup {None}]
      /\ \A q \in Plugins : In(q, "recovery")' => In(q, "recovery") /\ bundle'[q] = bundle[q]
  BY <1>1, <1>2, <1>3 DEF In
<1>5. RecoveryQuiet'
  BY <1>4 DEF GateInvariant, RecoveryQuiet, CommitReplace, scheduler
<1>. QED BY <1>1, <1>4, <1>5, Unforgotten
     DEF CommitReplace, scheduler, GateInvariant, GateTypeOK, QuietStep

LEMMA CommitUninstallStep ==
  ASSUME GateInvariant, NEW p \in Plugins, CommitUninstall(p)
  PROVE  QuietStep
<1>1. bundle \in [Plugins -> Bundles \cup {None}]
      /\ bundle' = [bundle EXCEPT ![p] = None]
  BY QueueFacts DEF CommitUninstall
<1>2. bundle' \in [Plugins -> Bundles \cup {None}]
      /\ \A q \in Plugins : In(q, "recovery")' => In(q, "recovery") /\ bundle'[q] = bundle[q]
  BY <1>1 DEF In
<1>3. RecoveryQuiet'
  BY <1>2 DEF GateInvariant, RecoveryQuiet, CommitUninstall, scheduler
<1>. QED BY <1>2, <1>3, Unforgotten
     DEF CommitUninstall, scheduler, GateInvariant, GateTypeOK, QuietStep

LEMMA FinishRecoveryStep ==
  ASSUME GateInvariant, NEW p \in Plugins, FinishRecovery(p)
  PROVE  QuietStep
<1>1. bundle \in [Plugins -> Bundles \cup {None}] /\ bundle[p] \in Bundles
      /\ authority \in [Plugins -> Identities \cup {None}]
      /\ queue[p] # None /\ queue[p].running = None
  BY QueueFacts DEF FinishRecovery, In
<1> DEFINE b == [bundle[p] EXCEPT !.state = "active"]
<1>2. b \in Bundles /\ b.state = "active"
  BY <1>1 DEF Bundles
<1>3. bundle' = [bundle EXCEPT ![p] = b] /\ bundle'[p] = b
  BY <1>1 DEF FinishRecovery
<1> HIDE DEF b
<1>4. Granted(b) \in Identities \cup {None}
  BY <1>2 DEF Granted, Bundles, Identity, Identities
<1>5. bundle' \in [Plugins -> Bundles \cup {None}]
      /\ \A q \in Plugins : In(q, "recovery")' => In(q, "recovery") /\ bundle'[q] = bundle[q]
  BY <1>1, <1>2, <1>3 DEF In
<1>6. RecoveryQuiet'
  BY <1>5 DEF GateInvariant, RecoveryQuiet, FinishRecovery, scheduler
<1>7. ~Holds(p)
  BY <1>1 DEF Holds
<1>8. authority' = [authority EXCEPT ![p] = Granted(b)] /\ CancelCalls({})
  <2>1. ContextsOf(p) = {} /\ ContextsOf(p) \ OfRuntime(p, Granted(b)) = {}
    BY <1>7, OwnedContexts
  <2>. QED BY <1>3, <2>1 DEF FinishRecovery, ReplaceAuthority
<1>9. RegistryOK(registry') /\ registry'.terminal = registry.terminal
      /\ Without(registry, registry', {}) /\ Known(registry') = Known(registry)
  BY <1>8, CancelForgets DEF Forgets, Without
<1>10. \A x \in Known(registry) : x.plugin # p
  BY <1>7 DEF GateInvariant, ContextsOwned
<1>. QED BY <1>1, <1>4, <1>5, <1>6, <1>7, <1>8, <1>9, <1>10
     DEF FinishRecovery, scheduler, GateInvariant, GateTypeOK, QuietStep

LEMMA LoseRuntimeStep ==
  ASSUME GateInvariant, NEW p \in Plugins, NEW gen, LoseRuntime(p, gen)
  PROVE  QuietStep
<1>1. authority \in [Plugins -> Identities \cup {None}]
      /\ authority' = [authority EXCEPT ![p] =
                          IF @ # None /\ @.gen = gen THEN None ELSE @]
  BY QueueFacts DEF LoseRuntime
<1>2. /\ authority' \in [Plugins -> Identities \cup {None}]
      /\ \A q \in Plugins : q # p => authority'[q] = authority[q]
      /\ authority'[p] = IF authority[p] # None /\ authority[p].gen = gen
                         THEN None ELSE authority[p]
  BY <1>1
<1>3. /\ RegistryOK(registry') /\ registry'.terminal = registry.terminal
      /\ Without(registry, registry', OfGeneration(p, gen))
      /\ Known(registry') = Known(registry) \ OfGeneration(p, gen)
  BY CancelForgets DEF LoseRuntime, Forgets, Without
<1>4. ASSUME NEW x \in Known(registry')
      PROVE  authority'[x.plugin] = authority[x.plugin]
  <2>1. x \in Known(registry) /\ x \in NetContexts /\ x.plugin \in Plugins
        /\ (x.plugin = p => x.gen # gen)
    BY <1>3 DEF OfGeneration, ContextsOf, GateInvariant, RegistryOK, NetContexts
  <2>2. authority[x.plugin] = [gen |-> x.gen, inc |-> x.inc]
    BY <2>1 DEF GateInvariant, ContextsOwned
  <2>3. authority[x.plugin].gen = x.gen
    BY <2>2
  <2>. QED BY <1>2, <2>1, <2>3
<1>5. ASSUME NEW q \in Plugins, Holds(q), authority'[q] = Identity(queue[q])
      PROVE  /\ authority[q] = authority'[q]
             /\ NetContext(q, queue[q]) \in Known(registry)
                   => NetContext(q, queue[q]) \in Known(registry')
  <2>1. queue[q].gen \in Nat /\ queue[q].inc \in Nat
    BY <1>5, QueueFacts DEF Holds
  <2>2. Identity(queue[q]) # None /\ Identity(queue[q]).gen = queue[q].gen
    BY <2>1, GateAssumption DEF Identity
  <2>3. NetContext(q, queue[q]).plugin = q /\ NetContext(q, queue[q]).gen = queue[q].gen
    BY DEF NetContext
  <2>4. CASE q # p
    BY <1>2, <1>3, <2>3, <2>4 DEF OfGeneration, ContextsOf
  <2>5. CASE q = p
    <3>1. authority'[p] = authority[p] /\ authority[p].gen # gen
      <4>1. authority'[p] # None
        BY <1>5, <2>2, <2>5
      <4>2. ~(authority[p] # None /\ authority[p].gen = gen)
        BY <1>2, <4>1
      <4>. QED BY <1>2, <4>1, <4>2
    <3>2. queue[p].gen # gen
      BY <1>5, <2>2, <2>5, <3>1
    <3>. QED BY <1>3, <2>3, <2>5, <3>1, <3>2 DEF OfGeneration
  <2>. QED BY <2>4, <2>5
<1>6. RecoveryQuiet'
  BY DEF GateInvariant, RecoveryQuiet, LoseRuntime, scheduler, plugin, In
<1>. QED BY <1>2, <1>3, <1>4, <1>5, <1>6
     DEF LoseRuntime, scheduler, plugin, GateInvariant, GateTypeOK, QuietStep

LEMMA ShutdownStep ==
  ASSUME GateInvariant, Shutdown
  PROVE  QuietStep
<1>1. RegistryOK(registry') /\ Without(registry, registry', Known(registry))
      /\ Known(registry') = {}
  BY CloseOK DEF Shutdown, GateInvariant, Without
<1>2. ASSUME NEW q \in Plugins, Holds(q)
      PROVE  authority'[q] # Identity(queue[q])
  <2>1. queue[q].gen \in Nat /\ queue[q].inc \in Nat
    BY <1>2, QueueFacts DEF Holds
  <2>2. Identity(queue[q]) # None
    BY <2>1, GateAssumption DEF Identity
  <2>. QED BY <2>2 DEF Shutdown
<1>3. RecoveryQuiet'
  BY DEF GateInvariant, RecoveryQuiet, Shutdown, scheduler, plugin, In
<1>. QED BY <1>1, <1>2, <1>3
     DEF Shutdown, scheduler, plugin, GateInvariant, GateTypeOK, QuietStep

-----------------------------------------------------------------------------
(* The steps of calls *)

\* The context of the executing request.
LEMMA CurrentFacts ==
  ASSUME GateInvariant, NEW p \in Plugins, NEW x \in CurrentContexts(p)
  PROVE  /\ x = NetContext(p, queue[p]) /\ x \in NetContexts /\ x.plugin = p
         /\ Holds(p) /\ queue[p].running.current
         /\ x.id = Holder(p).id /\ x.id \in Requests /\ x.id < nextRequest
         /\ Identity(queue[p]) = [gen |-> x.gen, inc |-> x.inc]
<1>1. x = NetContext(p, queue[p]) /\ Holds(p) /\ queue[p].running.current
  BY DEF CurrentContexts, Holds, Current
<1>2. queue[p] \in Queues
  BY <1>1, QueueFacts DEF Holds
<1>3. queue[p].running \in RunningRequests
  BY <1>1, <1>2 DEF Holds, Queues
<1>4. queue[p].gen \in Nat /\ queue[p].inc \in Nat /\ queue[p].running.req.id \in Requests
  BY <1>2, <1>3 DEF Queues, RunningRequests, Candidates
<1>5. Holder(p).id < nextRequest
  BY <1>1 DEF GateInvariant, NumbersUnique
<1>. QED BY <1>1, <1>4, <1>5 DEF NetContext, NetContexts, Identity, Holder

\* What an attempt does to the registry.
AdmitsCall(x, c) ==
    /\ CanRegister(Attempt(registry, x), c) /\ nextCall \in Calls
    /\ registry' = Register(Attempt(registry, x), c)
    /\ tasks' = tasks \cup {[call |-> nextCall, id |-> c, stage |-> "sent"]}
    /\ nextCall' = nextCall + 1
RefusesCall(x) ==
    registry' = Attempt(registry, x) /\ UNCHANGED <<tasks, nextCall>>

LEMMA AdmitFacts ==
  ASSUME GateInvariant, NEW p \in Plugins, NEW x \in CurrentContexts(p),
         CallCurrent(x), CanAttempt(registry, x),
         \/ AdmitsCall(x, NextCall(registry, x)) \/ RefusesCall(x)
  PROVE  /\ RegistryOK(registry') /\ registry'.terminal = registry.terminal
         /\ Known(registry') = Known(registry) \cup {x}
         /\ UsageOf(registry, x).attempts = attempts[x.id]
         /\ UsageOf(registry, x).next \in Nat
         /\ x \notin Known(registry) => attempts[x.id] = 0
         /\ registry'.usage[x].attempts = attempts[x.id] + 1
         /\ registry'.usage[x].next = UsageOf(registry, x).next + 1
         /\ \A y \in Known(registry) : y # x =>
               /\ registry'.usage[y].attempts = registry.usage[y].attempts
               /\ registry'.usage[y].next = registry.usage[y].next
         /\ NextCall(registry, x) \in [ctx : NetContexts, seq : Nat]
         /\ AdmitsCall(x, NextCall(registry, x)) =>
               registry'.calls = registry.calls \cup {NextCall(registry, x)}
         /\ RefusesCall(x) => registry'.calls = registry.calls
<1> DEFINE g == Attempt(registry, x)
           c == NextCall(registry, x)
<1>1. x = NetContext(p, queue[p]) /\ x \in NetContexts /\ x.id = Holder(p).id /\ x.plugin = p
      /\ Holds(p) /\ queue[p].running.current
      /\ Identity(queue[p]) = [gen |-> x.gen, inc |-> x.inc]
  BY CurrentFacts
<1>2. RegistryOK(registry)
  BY DEF GateInvariant
<1>3. /\ RegistryOK(g)
      /\ g.calls = registry.calls /\ g.terminal = registry.terminal
      /\ g.active = registry.active
      /\ Known(g) = Known(registry) \cup {x}
      /\ g.usage[x].attempts = UsageOf(registry, x).attempts + 1
      /\ g.usage[x].next = UsageOf(registry, x).next + 1
      /\ \A y \in Known(registry) : y # x => g.usage[y] = registry.usage[y]
  BY <1>1, <1>2, AttemptOK
<1> HIDE DEF g
<1>4. UsageOf(registry, x) \in Usages
  BY <1>1, <1>2, UsageFacts
<1>5. UsageOf(registry, x).next \in Nat
  BY <1>4 DEF Usages
<1>6. c \in [ctx : NetContexts, seq : Nat] /\ c.ctx = x /\ c.seq = UsageOf(registry, x).next
  BY <1>1, <1>5 DEF NextCall
<1>7. /\ UsageOf(registry, x).attempts = attempts[x.id]
      /\ x \notin Known(registry) => attempts[x.id] = 0
  <2>1. CASE x \in Known(registry)
    BY <2>1 DEF GateInvariant, AttemptsCounted, UsageOf
  <2>2. CASE x \notin Known(registry)
    <3>1. authority[p] = Identity(queue[p])
      BY <1>1 DEF CallCurrent
    <3>2. Uncounted(p)
      BY <1>1, <2>2, <3>1 DEF Uncounted
    <3>3. attempts[x.id] = 0
      BY <1>1, <3>2 DEF GateInvariant, AttemptsCounted
    <3>. QED BY <2>2, <3>3 DEF UsageOf, NoUsage
  <2>. QED BY <2>1, <2>2
<1> HIDE DEF c
<1>8. CASE AdmitsCall(x, c)
  <2>1. CanRegister(g, c) /\ registry' = Register(g, c) /\ registry'.calls # registry.calls
        /\ c.seq < g.usage[c.ctx].next
    <3>1. CanRegister(g, c) /\ registry' = Register(g, c)
      BY <1>8 DEF AdmitsCall, g
    <3>2. c.seq < g.usage[c.ctx].next
      BY <1>3, <1>5, <1>6
    <3>3. registry'.calls = g.calls \cup {c}
      BY <1>3, <1>6, <3>1, <3>2, RegisterOK
    <3>. QED BY <1>3, <3>1, <3>2, <3>3 DEF CanRegister
  <2>2. /\ RegistryOK(registry')
        /\ Known(registry') = Known(g) /\ registry'.calls = g.calls \cup {c}
        /\ registry'.terminal = g.terminal
        /\ \A y \in Known(g) : /\ registry'.usage[y].attempts = g.usage[y].attempts
                               /\ registry'.usage[y].next = g.usage[y].next
    BY <1>3, <1>6, <2>1, RegisterOK
  <2>3. ~RefusesCall(x)
    BY <1>3, <2>1 DEF RefusesCall, g
  <2>4. x \in Known(g) /\ \A y \in Known(registry) : y \in Known(g)
    BY <1>3
  <2>. QED BY <1>3, <1>5, <1>6, <1>7, <2>2, <2>3, <2>4 DEF c
<1>9. CASE RefusesCall(x)
  <2>1. registry' = g
    BY <1>9 DEF RefusesCall, g
  <2>2. ~AdmitsCall(x, c)
    <3>1. SUFFICES ASSUME AdmitsCall(x, c)
                   PROVE  FALSE
      OBVIOUS
    <3>2. CanRegister(g, c) /\ registry' = Register(g, c) /\ c.seq < g.usage[c.ctx].next
      BY <1>3, <1>5, <1>6, <3>1 DEF AdmitsCall, g
    <3>3. registry'.calls = g.calls \cup {c}
      BY <1>3, <1>6, <3>2, RegisterOK
    <3>. QED BY <2>1, <3>2, <3>3 DEF CanRegister
  <2>. QED BY <1>3, <1>5, <1>6, <1>7, <2>1, <2>2 DEF c
<1>. QED BY <1>8, <1>9 DEF c

LEMMA AdmitKeeps ==
  ASSUME GateInvariant, NEW p \in Plugins, Admit(p)
  PROVE  GateInvariant'
<1>1. PICK x \in CurrentContexts(p) :
        /\ CallCurrent(x) /\ CanAttempt(registry, x)
        /\ attempts' = [attempts EXCEPT ![x.id] = @ + 1]
        /\ AdmitsCall(x, NextCall(registry, x)) \/ RefusesCall(x)
        /\ UNCHANGED <<scheduler, plugin, authority, closed, delivered>>
  BY DEF Admit, AdmitsCall, RefusesCall
<1> DEFINE c == NextCall(registry, x)
           new == [call |-> nextCall, id |-> c, stage |-> "sent"]
<1>2. /\ x = NetContext(p, queue[p]) /\ x \in NetContexts /\ x.plugin = p
      /\ Holds(p) /\ queue[p].running.current
      /\ x.id = Holder(p).id /\ x.id \in Requests /\ x.id < nextRequest
      /\ Identity(queue[p]) = [gen |-> x.gen, inc |-> x.inc]
  BY CurrentFacts
<1>3. /\ RegistryOK(registry') /\ registry'.terminal = registry.terminal
      /\ Known(registry') = Known(registry) \cup {x}
      /\ UsageOf(registry, x).attempts = attempts[x.id]
      /\ UsageOf(registry, x).next \in Nat
      /\ x \notin Known(registry) => attempts[x.id] = 0
      /\ registry'.usage[x].attempts = attempts[x.id] + 1
      /\ registry'.usage[x].next = UsageOf(registry, x).next + 1
      /\ \A y \in Known(registry) : y # x =>
            /\ registry'.usage[y].attempts = registry.usage[y].attempts
            /\ registry'.usage[y].next = registry.usage[y].next
      /\ c \in [ctx : NetContexts, seq : Nat]
      /\ AdmitsCall(x, c) => registry'.calls = registry.calls \cup {c}
      /\ RefusesCall(x) => registry'.calls = registry.calls
  BY <1>1, AdmitFacts
<1>4. c.ctx = x /\ c.seq = UsageOf(registry, x).next
  BY DEF NextCall
<1>5. /\ queue' = queue /\ live' = live /\ nextRequest' = nextRequest /\ bundle' = bundle
      /\ nextInc' = nextInc /\ authority' = authority /\ closed' = closed
      /\ delivered' = delivered
  BY <1>1 DEF scheduler, plugin
<1>6. /\ \/ tasks' = tasks \cup {new} /\ nextCall' = nextCall + 1 /\ nextCall \in Calls
         \/ tasks' = tasks /\ nextCall' = nextCall
  BY <1>1 DEF AdmitsCall, RefusesCall
<1>7. /\ attempts \in [Requests -> Nat] /\ attempts' \in [Requests -> Nat]
      /\ attempts'[x.id] = attempts[x.id] + 1
      /\ \A r \in Requests : r # x.id => attempts'[r] = attempts[r]
      /\ nextCall \in Nat /\ nextRequest \in Nat
  <2>1. attempts \in [Requests -> Nat] /\ nextCall \in Nat /\ nextRequest \in Nat
    BY DEF GateInvariant, GateTypeOK
  <2>2. attempts[x.id] \in Nat
    BY <1>2, <2>1
  <2>. QED BY <1>1, <1>2, <2>1, <2>2
<1> HIDE DEF c
<1>8. GateTypeOK'
  <2>1. tasks' \subseteq Tasks /\ nextCall' \in Nat
    BY <1>3, <1>6, <1>7 DEF GateInvariant, GateTypeOK, Tasks
  <2>. QED BY <1>5, <1>7, <2>1 DEF GateInvariant, GateTypeOK
<1> HIDE DEF new
<1>9. QueuesSound' /\ RecoveryQuiet'
  BY <1>5 DEF GateInvariant, QueuesSound, RecoveryQuiet, In
<1>10. (registry.terminal => closed)'
  BY <1>3, <1>5 DEF GateInvariant
<1>11. ContextsOwned'
  <2>1. authority[p] = [gen |-> x.gen, inc |-> x.inc]
    BY <1>1, <1>2 DEF CallCurrent
  <2>2. ASSUME NEW y \in Known(registry')
        PROVE  /\ Holds(y.plugin) /\ queue[y.plugin].running.current
               /\ y = NetContext(y.plugin, queue[y.plugin])
               /\ authority[y.plugin] = [gen |-> y.gen, inc |-> y.inc]
    <3>1. CASE y = x
      BY <1>2, <2>1, <3>1
    <3>2. CASE y # x
      BY <1>3, <3>2 DEF GateInvariant, ContextsOwned
    <3>. QED BY <3>1, <3>2
  <2>. QED BY <1>5, <2>2 DEF ContextsOwned, Holds
<1>12. ASSUME NEW q \in Plugins, HasWaiting(q)
       PROVE  queue[q].waiting.id \in Requests /\ queue[q].waiting.id # x.id
  <2>1. queue[q] \in Queues
    BY <1>12, QueueFacts DEF HasWaiting
  <2>2. queue[q].waiting \in Candidates
    BY <1>12, <2>1 DEF HasWaiting, Queues
  <2>. QED BY <1>2, <1>12, <2>2 DEF GateInvariant, NumbersUnique, Candidates
<1>13. ASSUME NEW q \in Plugins, Holds(q), q # p
       PROVE  Holder(q).id \in Requests /\ Holder(q).id # x.id
  <2>1. queue[q] \in Queues
    BY <1>13, QueueFacts DEF Holds
  <2>2. queue[q].running \in RunningRequests
    BY <1>13, <2>1 DEF Holds, Queues
  <2>. QED BY <1>2, <1>13, <2>2 DEF GateInvariant, NumbersUnique, RunningRequests, Candidates,
       Holder
<1>14. NumbersUnique'
  <2>1. \A q \in Plugins : HasWaiting(q) => attempts'[queue[q].waiting.id] = 0
    BY <1>7, <1>12 DEF GateInvariant, NumbersUnique
  <2>2. \A r \in Requests : r >= nextRequest => attempts'[r] = 0
    <3> SUFFICES ASSUME NEW r \in Requests, r >= nextRequest
                 PROVE  attempts'[r] = 0
      OBVIOUS
    <3>1. r # x.id
      BY <1>2, <1>7, GateAssumption
    <3>. QED BY <1>7, <3>1 DEF GateInvariant, NumbersUnique
  <2>. QED BY <1>5, <2>1, <2>2 DEF GateInvariant, NumbersUnique, Holds, Holder, HasWaiting
<1>15. ASSUME NEW y \in Known(registry), y # x
       PROVE  y.id \in Requests /\ y.id # x.id
  <2>1. y \in NetContexts /\ Holds(y.plugin) /\ y = NetContext(y.plugin, queue[y.plugin])
    BY <1>15 DEF GateInvariant, RegistryOK, ContextsOwned
  <2>2. y.plugin \in Plugins /\ y.plugin # p
    BY <1>2, <1>15, <2>1 DEF NetContexts
  <2>3. y.id = Holder(y.plugin).id
    BY <2>1 DEF NetContext, Holder
  <2>. QED BY <1>13, <2>1, <2>2, <2>3
<1>16. AttemptsCounted'
  <2>1. ASSUME NEW y \in Known(registry')
        PROVE  registry'.usage[y].attempts = attempts'[y.id]
    <3>1. CASE y = x
      BY <1>3, <1>7, <3>1
    <3>2. CASE y # x
      BY <1>3, <1>7, <1>15, <3>2 DEF GateInvariant, AttemptsCounted
    <3>. QED BY <3>1, <3>2
  <2>2. ASSUME NEW q \in Plugins, Uncounted(q)'
        PROVE  attempts'[Holder(q).id] = 0
    <3>1. q # p
      BY <1>2, <1>3, <1>5, <2>2 DEF Uncounted
    <3>2. Uncounted(q)
      BY <1>3, <1>5, <2>2 DEF Uncounted, Holds
    <3>3. attempts[Holder(q).id] = 0 /\ Holds(q)
      BY <3>2 DEF GateInvariant, AttemptsCounted, Uncounted
    <3>. QED BY <1>7, <1>13, <3>1, <3>3
  <2>. QED BY <1>5, <2>1, <2>2 DEF AttemptsCounted, Holder
<1>17. TasksUnique'
  <2>1. ASSUME NEW t \in tasks
        PROVE  /\ t.call \in Nat /\ t.call < nextCall /\ attempts[t.id.ctx.id] > 0
               /\ t.id.ctx.id \in Requests /\ t.id.seq \in Nat
               /\ t.id.ctx \in Known(registry) =>
                     t.id.seq < registry.usage[t.id.ctx].next
    <3>1. t \in Tasks
      BY DEF GateInvariant, GateTypeOK
    <3>2. t.call \in Calls /\ t.id \in [ctx : NetContexts, seq : Nat]
      BY <3>1 DEF Tasks
    <3>3. t.call \in Nat /\ t.id.ctx \in NetContexts /\ t.id.seq \in Nat
      BY <3>2, GateAssumption
    <3>. QED BY <3>3 DEF GateInvariant, TasksUnique, NetContexts
  <2>2. ASSUME NEW t \in tasks, t.id.ctx = x
        PROVE  t.id.seq < UsageOf(registry, x).next
    BY <1>3, <2>1, <2>2 DEF UsageOf
  <2>3. ASSUME NEW t \in tasks
        PROVE  /\ t.call < nextCall' /\ attempts'[t.id.ctx.id] > 0
               /\ t.id.ctx \in Known(registry') =>
                     t.id.seq < registry'.usage[t.id.ctx].next
               /\ t.call # nextCall /\ t.id # c
    <3>1. t.call < nextCall' /\ t.call # nextCall
      BY <1>6, <1>7, <2>1
    <3>2. attempts'[t.id.ctx.id] > 0
      BY <1>2, <1>7, <2>1
    <3>3. t.id # c
      BY <1>3, <1>4, <2>1, <2>2
    <3>4. CASE t.id.ctx = x
      BY <1>3, <2>1, <2>2, <3>1, <3>2, <3>3, <3>4
    <3>5. CASE t.id.ctx # x
      BY <1>3, <2>1, <3>1, <3>2, <3>3, <3>5
    <3>. QED BY <3>4, <3>5
  <2>4. \A k \in delivered : k \in Nat /\ k < nextCall'
    BY <1>6, <1>7 DEF GateInvariant, TasksUnique
  <2>5. CASE tasks' = tasks
    BY <1>5, <2>3, <2>4, <2>5 DEF GateInvariant, TasksUnique
  <2>6. CASE tasks' = tasks \cup {new} /\ nextCall' = nextCall + 1
    <3>1. new.call = nextCall /\ new.id = c
      BY DEF new
    <3>2. new.call < nextCall' /\ attempts'[new.id.ctx.id] > 0
          /\ new.id.seq < registry'.usage[new.id.ctx].next
      BY <1>2, <1>3, <1>4, <1>7, <2>6, <3>1
    <3>3. \A t, u \in tasks' : t.call = u.call \/ t.id = u.id => t = u
      BY <2>3, <2>6, <3>1 DEF GateInvariant, TasksUnique
    <3>. QED BY <1>5, <2>3, <2>4, <2>6, <3>2, <3>3 DEF TasksUnique
  <2>. QED BY <1>6, <2>5, <2>6
<1>. QED BY <1>3, <1>8, <1>9, <1>10, <1>11, <1>14, <1>16, <1>17 DEF GateInvariant

LEMMA RespondKeeps ==
  ASSUME GateInvariant, NEW t \in tasks, Respond(t)
  PROVE  GateInvariant'
<1> DEFINE u == [t EXCEPT !.stage = "answered"]
<1>1. /\ queue' = queue /\ live' = live /\ nextRequest' = nextRequest /\ bundle' = bundle
      /\ nextInc' = nextInc /\ authority' = authority /\ closed' = closed
      /\ registry' = registry /\ nextCall' = nextCall /\ attempts' = attempts
      /\ delivered' = delivered /\ tasks' = (tasks \ {t}) \cup {u}
  BY DEF Respond, scheduler, plugin
<1>2. t \in Tasks
  BY DEF GateInvariant, GateTypeOK
<1>3. u \in Tasks /\ u.call = t.call /\ u.id = t.id
  BY <1>2 DEF Tasks
<1> HIDE DEF u
<1>4. GateTypeOK'
  BY <1>1, <1>3 DEF GateInvariant, GateTypeOK
<1>5. TasksUnique'
  <2>1. \A v \in tasks' : \E w \in tasks : v.call = w.call /\ v.id = w.id
    BY <1>1, <1>3
  <2>2. \A v \in tasks' :
          /\ v.call < nextCall /\ attempts[v.id.ctx.id] > 0
          /\ v.id.ctx \in Known(registry) => v.id.seq < registry.usage[v.id.ctx].next
    BY <1>1, <1>3 DEF GateInvariant, TasksUnique
  <2>3. \A v, w \in tasks' : v.call = w.call \/ v.id = w.id => v = w
    BY <1>1, <1>3 DEF GateInvariant, TasksUnique
  <2>. QED BY <1>1, <2>2, <2>3 DEF GateInvariant, TasksUnique
<1>6. /\ QueuesSound' /\ RegistryOK(registry)' /\ (registry.terminal => closed)'
      /\ ContextsOwned' /\ NumbersUnique' /\ RecoveryQuiet' /\ AttemptsCounted'
  BY <1>1 DEF GateInvariant, QueuesSound, ContextsOwned, NumbersUnique, RecoveryQuiet,
     AttemptsCounted, Uncounted, Holds, Holder, HasWaiting, In
<1>. QED BY <1>4, <1>5, <1>6 DEF GateInvariant

LEMMA FinishKeeps ==
  ASSUME GateInvariant, NEW t \in tasks,
         tasks' = tasks \ {t}, registry' = Finish(registry, t.id),
         delivered' \in {delivered, delivered \cup {t.call}},
         UNCHANGED <<scheduler, plugin, authority, closed, nextCall, attempts>>
  PROVE  GateInvariant'
<1>1. /\ queue' = queue /\ live' = live /\ nextRequest' = nextRequest /\ bundle' = bundle
      /\ nextInc' = nextInc /\ authority' = authority /\ closed' = closed
      /\ nextCall' = nextCall /\ attempts' = attempts
  BY DEF scheduler, plugin
<1>2. /\ RegistryOK(registry')
      /\ Known(registry') = Known(registry) /\ registry'.terminal = registry.terminal
      /\ \A y \in Known(registry) :
            /\ registry'.usage[y].attempts = registry.usage[y].attempts
            /\ registry'.usage[y].next = registry.usage[y].next
  <2>1. RegistryOK(registry)
    BY DEF GateInvariant
  <2>. QED BY <2>1, FinishOK
<1>3. t.call \in Calls /\ t.call \in Nat
  BY GateAssumption DEF GateInvariant, GateTypeOK, Tasks
<1>4. GateTypeOK'
  BY <1>1, <1>3 DEF GateInvariant, GateTypeOK
<1>5. TasksUnique'
  BY <1>1, <1>2, <1>3 DEF GateInvariant, TasksUnique
<1>6. /\ QueuesSound' /\ (registry.terminal => closed)'
      /\ ContextsOwned' /\ NumbersUnique' /\ RecoveryQuiet' /\ AttemptsCounted'
  BY <1>1, <1>2 DEF GateInvariant, QueuesSound, ContextsOwned, NumbersUnique, RecoveryQuiet,
     AttemptsCounted, Uncounted, Holds, Holder, HasWaiting, In
<1>. QED BY <1>2, <1>4, <1>5, <1>6 DEF GateInvariant

-----------------------------------------------------------------------------
(* The invariant holds *)

LEMMA InitGate == Init => GateInvariant
<1> SUFFICES ASSUME Init PROVE GateInvariant
  OBVIOUS
<1> DEFINE t == CHOOSE u \in Tokens : TRUE
<1>1. t \in Tokens
  BY GateAssumption
<1> HIDE DEF t
<1>2. \A p \in Plugins : Sound(p, NewQueue(1, 1, t))
  BY <1>1, NewQueueSound
<1>3. queue = [p \in Plugins |-> NewQueue(1, 1, t)]
  BY DEF Init, t
<1>4. NewQueue(1, 1, t).running = None /\ NewQueue(1, 1, t).waiting = None
  BY DEF NewQueue
<1>5. \A p \in Plugins : ~Holds(p) /\ ~HasWaiting(p) /\ ~In(p, "recovery")
  BY <1>3, <1>4 DEF Holds, HasWaiting, In, Init
<1>6. GateTypeOK
  <2>1. queue \in [Plugins -> Queues \cup {None}]
    BY <1>2, <1>3 DEF Sound
  <2>. QED BY <2>1 DEF Init, GateTypeOK, Bundles, Identities
<1>7. QueuesSound
  BY <1>2, <1>3 DEF QueuesSound
<1>8. RegistryOK(registry) /\ Known(registry) = {} /\ ~registry.terminal
  <2>1. registry = [usage |-> [x \in {} |-> NoUsage], calls |-> {}, active |-> 0,
                    terminal |-> FALSE]
    BY DEF Init, EmptyRegistry
  <2>2. Known(registry) = {}
    BY <2>1 DEF Known
  <2>3. Exact(registry) /\ WithinLimits(registry)
    BY <2>1, <2>2, FS_EmptySet, LimitsAssumption DEF Exact, WithinLimits
  <2>. QED BY <2>1, <2>2, <2>3, FS_EmptySet DEF RegistryOK
<1>9. ContextsOwned /\ NumbersUnique /\ RecoveryQuiet /\ AttemptsCounted /\ TasksUnique
  BY <1>5, <1>8 DEF Init, ContextsOwned, NumbersUnique, RecoveryQuiet, AttemptsCounted,
     Uncounted, TasksUnique
<1>. QED BY <1>6, <1>7, <1>8, <1>9 DEF GateInvariant

\* Every other step changes one queue or none.
OtherStep == (\E p \in Plugins : \E r : QueueStep(p, r)) \/ QuietStep

LEMMA OtherSteps ==
  ASSUME GateInvariant,
         \/ \E p \in Plugins : RequestSteps(p) \/ PluginSteps(p)
         \/ \E r \in live : DismissResult(r)
         \/ Shutdown
  PROVE  OtherStep
<1>1. ASSUME NEW p \in Plugins, RequestSteps(p)
      PROVE  \E r : QueueStep(p, r)
  <2>1. ASSUME NEW kind \in Kinds, Submit(p, kind)
        PROVE  \E r : QueueStep(p, r)
    BY <2>1, SubmitStep
  <2>2. CASE CompleteRequest(p)
    BY <2>2, CompleteStep
  <2>3. CASE CancelRequest(p)
    BY <2>3, CancelStep
  <2>4. CASE RetireRunningRequest(p)
    BY <2>4, RetireStep
  <2>5. CASE Expire(p)
    BY <2>5, ExpireStep
  <2>. QED BY <1>1, <2>1, <2>2, <2>3, <2>4, <2>5 DEF RequestSteps
<1>2. ASSUME NEW p \in Plugins, PluginSteps(p)
      PROVE  (\E r : QueueStep(p, r)) \/ QuietStep
  <2>1. CASE CommitReplace(p)
    BY <2>1, ReplaceStep
  <2>2. CASE FinishReplace(p)
    BY <2>2, FinishReplaceStep
  <2>3. CASE CommitActivation(p)
    BY <2>3, ActivationStep
  <2>4. ASSUME NEW b \in BOOLEAN, CommitChange(p, b)
        PROVE  \E r : QueueStep(p, r)
    BY <2>4, ChangeStep
  <2>5. ASSUME NEW b \in BOOLEAN, CommitDisable(p, b)
        PROVE  \E r : QueueStep(p, r)
    BY <2>5, DisableStep
  <2>6. ASSUME NEW b \in BOOLEAN, BeginUninstall(p, b)
        PROVE  \E r : QueueStep(p, r)
    BY <2>6, BeginUninstallStep
  <2>7. CASE CommitUninstall(p)
    BY <2>7, CommitUninstallStep
  <2>8. CASE AbortUninstall(p)
    BY <2>8, AbortUninstallStep
  <2>9. CASE FinishRecovery(p)
    BY <2>9, FinishRecoveryStep
  <2>10. ASSUME NEW gen \in 1..MaxGen, LoseRuntime(p, gen)
         PROVE  QuietStep
    BY <2>10, LoseRuntimeStep
  <2>11. CASE FailClosed(p)
    BY <2>11, FailClosedStep
  <2>. QED BY <1>2, <2>1, <2>2, <2>3, <2>4, <2>5, <2>6, <2>7, <2>8, <2>9, <2>10, <2>11
       DEF PluginSteps
<1>3. ASSUME NEW r \in live, DismissResult(r)
      PROVE  QuietStep
  BY <1>3, DismissStep
<1>4. CASE Shutdown
  BY <1>4, ShutdownStep DEF OtherStep
<1>5. CASE \E p \in Plugins : RequestSteps(p) \/ PluginSteps(p)
  <2>1. PICK p \in Plugins : RequestSteps(p) \/ PluginSteps(p)
    BY <1>5
  <2>2. (\E r : QueueStep(p, r)) \/ QuietStep
    BY <1>1, <1>2, <2>1
  <2>. QED BY <2>2 DEF OtherStep
<1>. QED BY <1>3, <1>4, <1>5 DEF OtherStep

LEMMA NextGate == GateInvariant /\ [Next]_vars => GateInvariant'
<1> SUFFICES ASSUME GateInvariant, [Next]_vars PROVE GateInvariant'
  OBVIOUS
<1>1. ASSUME NEW p \in Plugins, CallSteps(p)
      PROVE  GateInvariant'
  <2>1. CASE Admit(p)
    BY <2>1, AdmitKeeps
  <2>2. ASSUME NEW t \in tasks, Respond(t)
        PROVE  GateInvariant'
    BY <2>2, RespondKeeps
  <2>3. ASSUME NEW t \in tasks, End(t)
        PROVE  GateInvariant'
    BY <2>3, FinishKeeps DEF End
  <2>4. ASSUME NEW t \in tasks, Deliver(t)
        PROVE  GateInvariant'
    BY <2>4, FinishKeeps DEF Deliver
  <2>. QED BY <1>1, <2>1, <2>2, <2>3, <2>4 DEF CallSteps
<1>2. CASE OtherStep
  BY <1>2, QueueStepKeeps, QuietStepKeeps DEF OtherStep
<1>3. CASE UNCHANGED vars
  BY <1>3 DEF vars, GateInvariant, GateTypeOK, QueuesSound, ContextsOwned, NumbersUnique,
     RecoveryQuiet, AttemptsCounted, Uncounted, TasksUnique, Holds, Holder, HasWaiting, In
<1>. QED BY <1>1, <1>2, <1>3, OtherSteps DEF Next

\* The registry, the requests and the authorities agree in every reachable state
\* (release_slot, cancel_matching, finish in registry.rs; enqueue_reserved,
\* retire_plugin_requests and invalidate_plugin in scheduler.rs under the gate).
THEOREM GateCorrect == Spec => []GateInvariant
  BY InitGate, NextGate, PTL DEF Spec

\* Every variable of the gate stays in its type.
THEOREM GateTyped == Spec => []TypeOK
<1>1. GateInvariant => TypeOK
  BY DEF GateInvariant, GateTypeOK, RegistryOK, TypeOK
<1>. QED BY <1>1, GateCorrect, PTL

\* Every slot of the registry is held by one registered call, within the limits, and
\* the registry closes only at shutdown (registry.rs).
THEOREM SlotsCounted == Spec => []SlotsExact
<1>1. GateInvariant => SlotsExact
  BY DEF GateInvariant, SlotsExact, RegistryOK
<1>. QED BY <1>1, GateCorrect, PTL

\* The registry knows only the contexts of requests that execute, own their slot and
\* have the authority of their plugin (authority_gate.rs, activation.rs).
THEOREM CallsOwned == Spec => []ContextsOwned
<1>1. GateInvariant => ContextsOwned
  BY DEF GateInvariant
<1>. QED BY <1>1, GateCorrect, PTL

-----------------------------------------------------------------------------
(* The gate keeps the policy *)

\* There are at most as many call objects as calls registered for them.
LEMMA FewTasks ==
  ASSUME GateInvariant, NEW S \in SUBSET registry.calls
  PROVE  LET T == {t.call : t \in {u \in tasks : u.id \in S}}
         IN  IsFiniteSet(S) /\ IsFiniteSet(T) /\ Cardinality(T) \in Nat
             /\ Cardinality(S) \in Nat /\ Cardinality(T) <= Cardinality(S)
<1> DEFINE U == {u \in tasks : u.id \in S}
           T == {t.call : t \in U}
           D == {u.id : u \in U}
           f == [c \in D |-> (CHOOSE u \in U : u.id = c).call]
<1>1. IsFiniteSet(registry.calls) /\ IsFiniteSet(S) /\ Cardinality(S) \in Nat
  BY FS_Subset, FS_CardinalityType DEF GateInvariant, RegistryOK
<1>2. D \in SUBSET S
  OBVIOUS
<1>3. IsFiniteSet(D) /\ Cardinality(D) \in Nat /\ Cardinality(D) <= Cardinality(S)
  BY <1>1, <1>2, FS_Subset, FS_CardinalityType
<1>4. ASSUME NEW u \in U
      PROVE  u.id \in D /\ f[u.id] = u.call
  <2>1. u.id \in D /\ f[u.id] = (CHOOSE w \in U : w.id = u.id).call
    OBVIOUS
  <2>2. (CHOOSE w \in U : w.id = u.id) \in U /\ (CHOOSE w \in U : w.id = u.id).id = u.id
    OBVIOUS
  <2>3. \A w \in U : w.id = u.id => w = u
    BY DEF GateInvariant, TasksUnique
  <2>. QED BY <2>1, <2>2, <2>3
<1>5. f \in Surjection(D, T)
  <2>1. \A c \in D : \E u \in U : u.id = c
    OBVIOUS
  <2>2. \A k \in T : \E u \in U : u.call = k
    OBVIOUS
  <2>3. DOMAIN f = D /\ f = [c \in D |-> f[c]]
    OBVIOUS
  <2> HIDE DEF f, D
  <2>4. \A c \in D : f[c] \in T
    BY <1>4, <2>1
  <2>5. \A k \in T : \E c \in D : f[c] = k
    BY <1>4, <2>2
  <2> HIDE DEF T
  <2>6. f \in [D -> T]
    BY <2>3, <2>4
  <2>. QED BY <2>5, <2>6 DEF Surjection
<1> HIDE DEF f, D
<1>6. IsFiniteSet(T) /\ Cardinality(T) <= Cardinality(D)
  BY <1>3, <1>5, FS_Surjection
<1>7. Cardinality(T) \in Nat
  BY <1>6, FS_CardinalityType
<1>. QED BY <1>1, <1>3, <1>6, <1>7

\* A step that changes none of them changes nobody's authorisation.
LEMMA SameAuthorised ==
  ASSUME UNCHANGED <<queue, live, authority, closed>>
  PROVE  Authorised' = Authorised
BY DEF Authorised, CurrentContexts, CallCurrent, Current, Runs, Live, NetContext, Ctx

\* Who is authorised anew executes a request that has not called.
LEMMA NewlyAuthorised ==
  ASSUME GateInvariant, GateInvariant', OtherStep, NEW r \in Authorised', r \notin Authorised
  PROVE  attempts[r] = 0
<1>0. PICK p \in Plugins : \E x \in CurrentContexts(p)' : x.id = r /\ CallCurrent(x)'
  BY DEF Authorised
<1>1. PICK x \in CurrentContexts(p)' : x.id = r /\ CallCurrent(x)'
  BY <1>0
<1>2. /\ x = NetContext(p, queue'[p]) /\ x.plugin = p
      /\ Holds(p)' /\ queue'[p].running.current
      /\ Live(queue'[p].running.req, live') /\ queue'[p].gen = Ctx(queue'[p].running.req).gen
      /\ authority'[p] = [gen |-> x.gen, inc |-> x.inc] /\ ~closed'
      /\ x.id = queue'[p].running.req.id
  BY <1>1 DEF CurrentContexts, CallCurrent, Current, Holds, NetContext
<1>3. attempts' = attempts
  BY DEF OtherStep, QueueStep, QuietStep, calls
<1>4. CASE x \notin Known(registry')
  <2>1. authority'[p] = Identity(queue'[p])
    BY <1>2 DEF NetContext, Identity
  <2>2. Uncounted(p)'
    BY <1>2, <1>4, <2>1 DEF Uncounted, Holds
  <2>. QED BY <1>1, <1>2, <1>3, <2>2 DEF GateInvariant, AttemptsCounted, Holder
<1>5. CASE x \in Known(registry')
  <2>1. /\ x \in Known(registry) /\ queue'[p] = queue[p]
        /\ live' \subseteq live \cup {nextRequest} /\ (closed => closed')
    <3>1. CASE QuietStep
      BY <1>5, <3>1 DEF QuietStep, Without
    <3>2. ASSUME NEW q \in Plugins, NEW s, QueueStep(q, s)
          PROVE  /\ x \in Known(registry) /\ queue'[p] = queue[p]
                 /\ live' \subseteq live \cup {nextRequest} /\ (closed => closed')
      <4>1. x \in Known(registry) /\ p # q
        BY <1>2, <1>5, <3>2 DEF QueueStep, Forgets, Without, ContextsOf
      <4>. QED BY <3>2, <4>1 DEF QueueStep, GateInvariant, GateTypeOK
    <3>. QED BY <3>1, <3>2 DEF OtherStep
  <2>2. /\ Holds(p) /\ queue[p].running.current /\ x = NetContext(p, queue[p])
        /\ authority[p] = [gen |-> x.gen, inc |-> x.inc]
    BY <1>2, <2>1 DEF GateInvariant, ContextsOwned
  <2>3. Holder(p).id < nextRequest /\ nextRequest \in Nat /\ OwnLease(Holder(p), Holder(p).id)
        /\ Holder(p).id \in Nat
    <3>1. x \in NetContexts
      BY <2>1 DEF GateInvariant, RegistryOK
    <3>. QED BY <1>2, <2>1, <2>2, <3>1, GateAssumption
         DEF GateInvariant, GateTypeOK, NumbersUnique, NetContexts, Holder
  <2>4. Live(Holder(p), live)
    BY <1>2, <2>1, <2>3 DEF Live, OwnLease, Holder
  <2>5. Current(queue[p], Ctx(queue[p].running.req), live)
    BY <1>2, <2>1, <2>2, <2>4 DEF Current, Runs, Holds, Holder
  <2>6. x \in CurrentContexts(p)
    BY <2>2, <2>5 DEF CurrentContexts, Holds
  <2>7. CallCurrent(x)
    BY <1>2, <2>1, <2>2, <2>6 DEF CallCurrent
  <2>8. r \in Authorised
    BY <1>1, <2>6, <2>7 DEF Authorised
  <2>. QED BY <2>8
<1>. QED BY <1>4, <1>5

LEMMA OtherRefines ==
  ASSUME GateInvariant, GateInvariant', OtherStep
  PROVE  Policy!Revoke
<1>1. tasks' = tasks /\ registry'.calls \subseteq registry.calls
      /\ attempts' = attempts /\ delivered' = delivered
  BY DEF OtherStep, QueueStep, Forgets, QuietStep, Without, calls
<1>2. \A r \in Requests : Flight'[r] \subseteq Flight[r]
  BY <1>1 DEF Flight
<1>3. DOMAIN Flight' = Requests
  BY DEF Flight
<1>4. \A r \in Authorised' \ Authorised : attempts[r] = 0
  BY NewlyAuthorised
<1>. QED BY <1>1, <1>2, <1>3, <1>4 DEF Policy!Revoke

LEMMA RespondRefines ==
  ASSUME GateInvariant, NEW t \in tasks, Respond(t)
  PROVE  Policy!Revoke
<1> DEFINE u == [t EXCEPT !.stage = "answered"]
<1>1. tasks' = (tasks \ {t}) \cup {u} /\ registry' = registry
      /\ attempts' = attempts /\ delivered' = delivered
  BY DEF Respond
<1>2. t \in Tasks
  BY DEF GateInvariant, GateTypeOK
<1>3. u.call = t.call /\ u.id = t.id
  BY <1>2 DEF Tasks
<1> HIDE DEF u
<1>4. \A r \in Requests : Flight'[r] \subseteq Flight[r]
  BY <1>1, <1>3 DEF Flight
<1>5. Authorised' = Authorised
  BY SameAuthorised DEF Respond, scheduler
<1>6. DOMAIN Flight' = Requests
  BY DEF Flight
<1>. QED BY <1>1, <1>4, <1>5, <1>6 DEF Policy!Revoke

LEMMA EndRefines ==
  ASSUME GateInvariant, NEW t \in tasks, End(t)
  PROVE  Policy!Revoke
<1>1. tasks' = tasks \ {t} /\ registry'.calls = registry.calls \ {t.id}
      /\ attempts' = attempts /\ delivered' = delivered
  BY FinishOK DEF End, GateInvariant
<1>2. \A r \in Requests : Flight'[r] \subseteq Flight[r]
  BY <1>1 DEF Flight
<1>3. Authorised' = Authorised
  BY SameAuthorised DEF End, scheduler
<1>4. DOMAIN Flight' = Requests
  BY DEF Flight
<1>. QED BY <1>1, <1>2, <1>3, <1>4 DEF Policy!Revoke

LEMMA DeliverRefines ==
  ASSUME GateInvariant, NEW t \in tasks, Deliver(t)
  PROVE  \E r \in Requests : \E k \in Calls : Policy!Deliver(r, k)
<1> DEFINE x == t.id.ctx
           r == x.id
<1>1. tasks' = tasks \ {t} /\ registry'.calls = registry.calls \ {t.id}
      /\ attempts' = attempts /\ delivered' = delivered \cup {t.call}
  BY FinishOK DEF Deliver, GateInvariant
<1>2. t.call \in Calls /\ x \in NetContexts /\ r \in Requests /\ x.plugin \in Plugins
  BY DEF GateInvariant, GateTypeOK, Tasks, NetContexts
<1>3. t.id \in registry.calls /\ CallCurrent(x)
  BY DEF Deliver, Deliverable
<1>4. r \in Authorised
  <2>1. x \in CurrentContexts(x.plugin)
    BY <1>3 DEF CallCurrent
  <2>. QED BY <1>2, <1>3, <2>1 DEF Authorised
<1>5. t.call \in Flight[r]
  BY <1>2, <1>3 DEF Flight
<1>6. \A u \in tasks : u.call = t.call \/ u.id = t.id => u = t
  BY DEF GateInvariant, TasksUnique
<1>7. \A s \in Requests : Flight'[s] = IF s = r THEN Flight[s] \ {t.call} ELSE Flight[s]
  <2> SUFFICES ASSUME NEW s \in Requests
               PROVE  Flight'[s] = IF s = r THEN Flight[s] \ {t.call} ELSE Flight[s]
    OBVIOUS
  <2>1. Flight'[s] = {u.call : u \in {w \in tasks \ {t} :
                          w.id.ctx.id = s /\ w.id \in registry.calls \ {t.id}}}
    BY <1>1 DEF Flight
  <2>2. Flight[s] = {u.call : u \in {w \in tasks :
                          w.id.ctx.id = s /\ w.id \in registry.calls}}
    BY DEF Flight
  <2>3. Flight'[s] = Flight[s] \ {t.call}
    BY <1>6, <2>1, <2>2
  <2>4. s # r => t.call \notin Flight[s]
    BY <1>6, <2>2
  <2>. QED BY <2>3, <2>4
<1>8. Flight' = [Flight EXCEPT ![r] = @ \ {t.call}]
  <2>1. DOMAIN Flight' = Requests /\ DOMAIN Flight = Requests
        /\ Flight' = [s \in Requests |-> Flight'[s]]
    BY DEF Flight
  <2> HIDE DEF r
  <2>. QED BY <1>7, <2>1
<1>9. Authorised' = Authorised
  BY SameAuthorised DEF Deliver, scheduler
<1>10. Policy!Deliver(r, t.call)
  BY <1>1, <1>4, <1>5, <1>8, <1>9 DEF Policy!Deliver
<1>. QED BY <1>2, <1>10

\* CallPolicy counts with the same Cardinality.
LEMMA SameCount == \A S : Policy!Cardinality(S) = Cardinality(S)
  BY DEF Policy!Cardinality, Cardinality

LEMMA AdmitRefines ==
  ASSUME GateInvariant, GateInvariant', NEW p \in Plugins, Admit(p)
  PROVE  \E r \in Requests : Policy!Attempt(r)
<1>1. PICK x \in CurrentContexts(p) :
        /\ CallCurrent(x) /\ CanAttempt(registry, x)
        /\ attempts' = [attempts EXCEPT ![x.id] = @ + 1]
        /\ AdmitsCall(x, NextCall(registry, x)) \/ RefusesCall(x)
        /\ UNCHANGED <<scheduler, plugin, authority, closed, delivered>>
  BY DEF Admit, AdmitsCall, RefusesCall
<1> DEFINE c == NextCall(registry, x)
           g == Attempt(registry, x)
           new == [call |-> nextCall, id |-> c, stage |-> "sent"]
           r == x.id
<1>2. x \in NetContexts /\ x.plugin = p /\ r \in Requests
  BY CurrentFacts
<1>3. /\ UsageOf(registry, x).attempts = attempts[r]
      /\ x \notin Known(registry) => attempts[r] = 0
      /\ AdmitsCall(x, c) => registry'.calls = registry.calls \cup {c}
      /\ RefusesCall(x) => registry'.calls = registry.calls
      /\ Known(registry') = Known(registry) \cup {x}
  BY <1>1, AdmitFacts
<1>4. r \in Authorised
  BY <1>1 DEF Authorised
<1>5. Authorised' = Authorised
  BY <1>1, SameAuthorised DEF scheduler
<1>6. attempts[r] < MaxCalls
  BY <1>1, <1>3 DEF CanAttempt
<1>7. c.ctx = x
  BY DEF NextCall
<1> HIDE DEF c, r
<1>8. CASE RefusesCall(x)
  <2>1. Flight' = Flight
    BY <1>3, <1>8 DEF Flight, RefusesCall
  <2>2. Policy!Attempt(r)
    BY <1>1, <1>4, <1>5, <1>6, <2>1 DEF Policy!Attempt, r
  <2>. QED BY <1>2, <2>2
<1>9. CASE AdmitsCall(x, c)
  <2>1. CanRegister(g, c) /\ nextCall \in Calls /\ nextCall \in Nat
        /\ tasks' = tasks \cup {new} /\ registry'.calls = registry.calls \cup {c}
    BY <1>3, <1>9, GateAssumption DEF AdmitsCall
  <2>2. /\ RegistryOK(g) /\ g.calls = registry.calls
    BY <1>1, <1>2, AttemptOK DEF GateInvariant
  <2> HIDE DEF g
  <2>3. /\ Cardinality(CallsOf(registry, x)) < MaxConcurrent
        /\ Cardinality(registry.calls) < MaxHostWide
    <3>1. g.usage[x].active < MaxConcurrent /\ g.active < MaxHostWide /\ x \in Known(g)
      BY <1>7, <2>1 DEF CanRegister
    <3>2. g.active = Cardinality(g.calls) /\ g.usage[x].active = Cardinality(CallsOf(g, x))
      BY <2>2, <3>1 DEF RegistryOK, Exact
    <3>3. CallsOf(g, x) = CallsOf(registry, x)
      BY <2>2 DEF CallsOf
    <3>. QED BY <2>2, <3>1, <3>2, <3>3
  <2>4. ASSUME NEW u \in tasks, u.id \in registry.calls, u.id.ctx.id = r
        PROVE  u.id \in CallsOf(registry, x)
    <3>1. u.id.ctx \in Known(registry)
      BY <2>4 DEF GateInvariant, RegistryOK, Exact
    <3>2. u.id.ctx \in NetContexts /\ Holds(u.id.ctx.plugin)
          /\ u.id.ctx = NetContext(u.id.ctx.plugin, queue[u.id.ctx.plugin])
      BY <3>1 DEF GateInvariant, RegistryOK, ContextsOwned
    <3>3. u.id.ctx.plugin \in Plugins /\ u.id.ctx.id = Holder(u.id.ctx.plugin).id
      BY <3>2 DEF NetContexts, NetContext, Holder
    <3>4. r = Holder(p).id /\ Holds(p) /\ x = NetContext(p, queue[p])
      BY CurrentFacts DEF r
    <3>5. u.id.ctx.plugin = p
      BY <2>4, <3>2, <3>3, <3>4 DEF GateInvariant, NumbersUnique
    <3>. QED BY <2>4, <3>2, <3>4, <3>5 DEF CallsOf
  <2>5. Cardinality(Flight[r]) < MaxConcurrent
    <3> DEFINE S == CallsOf(registry, x)
               T == {u.call : u \in {w \in tasks : w.id \in S}}
    <3>1. S \in SUBSET registry.calls
      BY DEF CallsOf
    <3>2. IsFiniteSet(T) /\ Cardinality(T) \in Nat /\ Cardinality(S) \in Nat
          /\ Cardinality(T) <= Cardinality(S)
      BY <3>1, FewTasks
    <3>3. Flight[r] \in SUBSET T
      BY <1>2, <2>4 DEF Flight
    <3>4. IsFiniteSet(Flight[r]) /\ Cardinality(Flight[r]) <= Cardinality(T)
          /\ Cardinality(Flight[r]) \in Nat
      BY <3>2, <3>3, FS_Subset, FS_CardinalityType
    <3> HIDE DEF S, T
    <3>. QED BY <2>3, <3>2, <3>4, LimitsAssumption DEF S
  <2>6. Cardinality(Policy!InFlight) < MaxHostWide
    <3> DEFINE S == registry.calls
               T == {u.call : u \in {w \in tasks : w.id \in S}}
    <3>1. IsFiniteSet(T) /\ Cardinality(T) \in Nat /\ Cardinality(S) \in Nat
          /\ Cardinality(T) <= Cardinality(S)
      BY FewTasks
    <3>2. Policy!InFlight \in SUBSET T
      BY DEF Policy!InFlight, Flight
    <3>3. IsFiniteSet(Policy!InFlight) /\ Cardinality(Policy!InFlight) <= Cardinality(T)
          /\ Cardinality(Policy!InFlight) \in Nat
      BY <3>1, <3>2, FS_Subset, FS_CardinalityType
    <3> HIDE DEF S, T
    <3>. QED BY <2>3, <3>1, <3>3, LimitsAssumption DEF S
  <2>7. \A u \in tasks : u.call # nextCall /\ u.id # c
    <3>1. new.id = c /\ new.call = nextCall /\ new \in tasks'
      BY <2>1
    <3>2. \A u \in tasks : u.call \in Nat /\ u.call < nextCall /\ u \in tasks'
      BY <2>1, GateAssumption DEF GateInvariant, GateTypeOK, Tasks, TasksUnique
    <3>3. \A u, v \in tasks' : u.id = v.id => u = v
      BY DEF GateInvariant, TasksUnique
    <3> HIDE DEF new
    <3>. QED BY <2>1, <3>1, <3>2, <3>3
  <2>8. nextCall \in Calls \ (Policy!InFlight \cup delivered)
    <3>1. nextCall \notin Policy!InFlight
      BY <2>7 DEF Policy!InFlight, Flight
    <3>2. nextCall \notin delivered
      BY <2>1 DEF GateInvariant, TasksUnique
    <3>. QED BY <2>1, <3>1, <3>2
  <2>9. Flight' = [Flight EXCEPT ![r] = @ \cup {nextCall}]
    <3>1. new.id = c /\ new.call = nextCall /\ c.ctx.id = r
      BY <1>7 DEF r
    <3> HIDE DEF new
    <3>2. ASSUME NEW s \in Requests
          PROVE  Flight'[s] = IF s = r THEN Flight[s] \cup {nextCall} ELSE Flight[s]
      <4>1. Flight'[s] = {u.call : u \in {w \in tasks \cup {new} :
                            w.id.ctx.id = s /\ w.id \in registry.calls \cup {c}}}
        BY <2>1 DEF Flight
      <4>2. Flight[s] = {u.call : u \in {w \in tasks :
                            w.id.ctx.id = s /\ w.id \in registry.calls}}
        BY DEF Flight
      <4>3. {w \in tasks \cup {new} : w.id.ctx.id = s /\ w.id \in registry.calls \cup {c}}
             = {w \in tasks : w.id.ctx.id = s /\ w.id \in registry.calls}
               \cup (IF s = r THEN {new} ELSE {})
        BY <2>7, <3>1
      <4>4. CASE s = r
        BY <3>1, <4>1, <4>2, <4>3, <4>4
      <4>5. CASE s # r
        BY <4>1, <4>2, <4>3, <4>5
      <4>. QED BY <4>4, <4>5
    <3>3. DOMAIN Flight' = Requests /\ DOMAIN Flight = Requests
          /\ Flight' = [s \in Requests |-> Flight'[s]]
      BY DEF Flight
    <3>. QED BY <3>2, <3>3
  <2>10. Policy!Attempt(r)
    <3>1. attempts' = [attempts EXCEPT ![r] = @ + 1] /\ delivered' = delivered
      BY <1>1 DEF r
    <3>2. \E t \in Calls \ (Policy!InFlight \cup delivered) :
             /\ Cardinality(Flight[r]) < MaxConcurrent
             /\ Cardinality(Policy!InFlight) < MaxHostWide
             /\ Flight' = [Flight EXCEPT ![r] = @ \cup {t}]
      BY <2>5, <2>6, <2>8, <2>9
    <3>. QED BY <1>4, <1>5, <1>6, <3>1, <3>2, SameCount DEF Policy!Attempt
  <2>. QED BY <1>2, <2>10
<1>. QED BY <1>1, <1>8, <1>9 DEF c

LEMMA PolicyInit == Init => Policy!Init
<1> SUFFICES ASSUME Init PROVE Policy!Init
  OBVIOUS
<1>1. \A p \in Plugins : CurrentContexts(p) = {}
  BY DEF Init, CurrentContexts, NewQueue
<1>2. Authorised = {}
  BY <1>1 DEF Authorised
<1>3. Flight = [r \in Requests |-> {}]
  BY DEF Init, Flight
<1>. QED BY <1>2, <1>3 DEF Policy!Init, Init

LEMMA PolicyNext ==
  GateInvariant /\ GateInvariant' /\ [Next]_vars => [Policy!Next]_(Policy!vars)
<1> SUFFICES ASSUME GateInvariant, GateInvariant', [Next]_vars
             PROVE  Policy!Next \/ UNCHANGED Policy!vars
  OBVIOUS
<1>1. ASSUME NEW p \in Plugins, CallSteps(p)
      PROVE  Policy!Next
  <2>1. CASE Admit(p)
    BY <2>1, AdmitRefines DEF Policy!Next
  <2>2. ASSUME NEW t \in tasks, Respond(t)
        PROVE  Policy!Next
    BY <2>2, RespondRefines DEF Policy!Next
  <2>3. ASSUME NEW t \in tasks, End(t)
        PROVE  Policy!Next
    BY <2>3, EndRefines DEF Policy!Next
  <2>4. ASSUME NEW t \in tasks, Deliver(t)
        PROVE  Policy!Next
    BY <2>4, DeliverRefines DEF Policy!Next
  <2>. QED BY <1>1, <2>1, <2>2, <2>3, <2>4 DEF CallSteps
<1>2. CASE OtherStep
  BY <1>2, OtherRefines DEF Policy!Next
<1>3. CASE UNCHANGED vars
  <2>1. Authorised' = Authorised
    BY <1>3, SameAuthorised DEF vars
  <2>2. Flight' = Flight
    BY <1>3 DEF vars, Flight
  <2>. QED BY <1>3, <2>1, <2>2 DEF vars, Policy!vars
<1>. QED BY <1>1, <1>2, <1>3, OtherSteps DEF Next

\* The gate keeps the policy of CallPolicy: a request stays within its limits over its
\* whole life, and no answer of a cancelled call is delivered (authority_gate.rs,
\* broker.rs, registry.rs).
THEOREM GateKeepsPolicy == Spec => ImplementsCallPolicy
<1>1. Init => Policy!Init
  BY PolicyInit
<1>2. GateInvariant /\ GateInvariant' /\ [Next]_vars => [Policy!Next]_(Policy!vars)
  BY PolicyNext
<1>. QED BY <1>1, <1>2, GateCorrect, PTL DEF Spec, ImplementsCallPolicy, Policy!Spec
=============================================================================
