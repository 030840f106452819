----------------------------- MODULE NetworkGate -----------------------------
(***************************************************************************)
(* PluginNetworkAuthorityGate and PluginHttpsBroker (public_plugins/       *)
(* network/authority_gate.rs, broker.rs) with the parts of the manager     *)
(* (public_plugins/activation.rs) that run inside a gate transition.       *)
(*                                                                         *)
(* The gate is one mutex.  Admission reads the scheduler and registers the *)
(* call under it; every change of a request or of a plugin's identity is   *)
(* made under it together with the cancellation of the calls it concerns.  *)
(* A call runs without the gate, ends with the registry's own mutex, and   *)
(* is checked again under the gate before its answer is delivered.         *)
(*                                                                         *)
(* The durable writes of management operations are in RuntimeHost: here an *)
(* operation is its publication, and begin_uninstall is apart from its     *)
(* outcome because it takes the authority before the write.                *)
(***************************************************************************)
EXTENDS RequestQueue, CallRegistry

CONSTANTS
    Calls,           \* bound: numbers of admitted calls
    MaxGen, MaxInc   \* bounds on generations and activation ids

ASSUME GateAssumption ==
    /\ Requests \subseteq Nat /\ Requests \subseteq Tokens /\ 1 \in Tokens
    /\ None \notin [gen : Nat, inc : Nat]
    /\ Calls \subseteq Nat /\ MaxGen \in Nat /\ MaxInc \in Nat

VARIABLES
    queue,        \* SchedulerState.by_plugin
    live,         \* leases of result actions not yet revoked
    nextRequest,  \* SchedulerState.next_request
    bundle,       \* the plugin's published activation
    nextInc,      \* the next activation id and admission epoch
    authority,    \* AuthorityState.by_plugin
    closed,       \* AuthorityState.terminal
    registry,     \* PluginNetworkRequestRegistry
    tasks,        \* calls whose RegisteredPluginNetworkCall still exists
    nextCall,     \* number of the next call object (history)
    attempts,     \* attempts of each request (history)
    delivered     \* call objects whose answer was delivered (history)

scheduler == <<queue, live, nextRequest>>
plugin == <<bundle, nextInc>>
calls == <<tasks, nextCall, attempts, delivered>>
vars == <<queue, live, nextRequest, bundle, nextInc, authority, closed, registry,
          tasks, nextCall, attempts, delivered>>

Identities == [gen : Nat, inc : Nat]
Bundles == [gen : Nat, inc : Nat, network : BOOLEAN,
            state : {"active", "recovery", "uninstalling"}]
NetContexts == [plugin : Plugins, gen : Nat, inc : Nat, id : Requests]
Tasks == [call : Calls, id : [ctx : NetContexts, seq : Nat], stage : {"sent", "answered"}]

TypeOK ==
    /\ queue \in [Plugins -> Queues \cup {None}]
    /\ live \subseteq Requests
    /\ nextRequest \in Nat /\ nextInc \in Nat /\ nextCall \in Nat
    /\ bundle \in [Plugins -> Bundles \cup {None}]
    /\ authority \in [Plugins -> Identities \cup {None}]
    /\ closed \in BOOLEAN
    /\ Known(registry) \subseteq NetContexts
    /\ \A x \in Known(registry) : registry.usage[x] \in Usages
    /\ registry.calls \subseteq [ctx : NetContexts, seq : Nat]
    /\ registry.active \in Nat /\ registry.terminal \in BOOLEAN
    /\ tasks \subseteq Tasks
    /\ attempts \in [Requests -> Nat]
    /\ delivered \subseteq Calls

In(p, state) == bundle[p] # None /\ bundle[p].state = state

-----------------------------------------------------------------------------
(* Authority *)

Identity(q) == [gen |-> q.gen, inc |-> q.inc]

\* checked_network_authority_snapshot: only a plugin that was granted network
\* access has an authority.
Granted(b) ==
    IF b # None /\ b.network /\ b.state = "active" THEN Identity(b) ELSE None

NetContext(p, q) == [plugin |-> p, gen |-> q.gen, inc |-> q.inc, id |-> q.running.req.id]

\* current_context_identity: the context of the request executing in p.
CurrentContexts(p) ==
    IF queue[p] # None /\ queue[p].running # None
       /\ Current(queue[p], Ctx(queue[p].running.req), live)
    THEN {NetContext(p, queue[p])} ELSE {}

\* call_is_current_locked
CallCurrent(x) ==
    /\ ~closed
    /\ x \in CurrentContexts(x.plugin)
    /\ authority[x.plugin] = [gen |-> x.gen, inc |-> x.inc]

ContextsOf(p) == {x \in Known(registry) : x.plugin = p}
\* cancel_request_context, cancel_runtime and cancel_generation.
OfRequest(ctx) ==
    {x \in ContextsOf(ctx.plugin) : x.gen = ctx.gen /\ x.id = ctx.id}
OfRuntime(p, i) == {x \in ContextsOf(p) : x.gen = i.gen /\ x.inc = i.inc}
OfGeneration(p, gen) == {x \in ContextsOf(p) : x.gen = gen}

CancelCalls(S) == registry' = CancelContexts(registry, S)

\* set_plugin_authority(None), then set_plugin_authority(new), in one transition.
ExchangeAuthority(p, new) ==
    /\ authority' = [authority EXCEPT ![p] = new]
    /\ CancelCalls(ContextsOf(p))

\* set_plugin_authority(new) alone keeps the calls of the same identity.
ReplaceAuthority(p, new) ==
    /\ authority' = [authority EXCEPT ![p] = new]
    /\ CancelCalls(IF new = None THEN ContextsOf(p) ELSE ContextsOf(p) \ OfRuntime(p, new))

\* Transition::invalidate_runtime
InvalidateRuntime(p, i) ==
    /\ authority' = [authority EXCEPT ![p] = IF @ = i THEN None ELSE @]
    /\ CancelCalls(OfRuntime(p, i))

-----------------------------------------------------------------------------
(* Initial state: every plugin was loaded enabled with network access. *)

Init ==
    /\ queue = [p \in Plugins |-> NewQueue(1, 1, CHOOSE t \in Tokens : TRUE)]
    /\ live = {}
    /\ nextRequest = 1
    /\ bundle = [p \in Plugins |->
          [gen |-> 1, inc |-> 1, network |-> TRUE, state |-> "active"]]
    /\ nextInc = 2
    /\ authority = [p \in Plugins |-> [gen |-> 1, inc |-> 1]]
    /\ closed = FALSE
    /\ registry = EmptyRegistry
    /\ tasks = {}
    /\ nextCall = 1
    /\ attempts = [r \in Requests |-> 0]
    /\ delivered = {}

-----------------------------------------------------------------------------
(* Calls *)

\* admit_inner and admit_with_credentials for the executing request: the attempt
\* counts, then the target or the credential may be refused, or no slot is free.
Admit(p) ==
    \E x \in CurrentContexts(p) :
        LET g == Attempt(registry, x)
            c == NextCall(registry, x)
        IN  /\ CallCurrent(x) /\ CanAttempt(registry, x)
            /\ attempts' = [attempts EXCEPT ![x.id] = @ + 1]
            /\ \/ /\ CanRegister(g, c) /\ nextCall \in Calls
                  /\ registry' = Register(g, c)
                  /\ tasks' = tasks \cup {[call |-> nextCall, id |-> c, stage |-> "sent"]}
                  /\ nextCall' = nextCall + 1
               \/ registry' = g /\ UNCHANGED <<tasks, nextCall>>
            /\ UNCHANGED <<scheduler, plugin, authority, closed, delivered>>

\* execute_inner: the answer arrived, over redirects checked on the way.
Respond(t) ==
    /\ t.stage = "sent"
    /\ tasks' = (tasks \ {t}) \cup {[t EXCEPT !.stage = "answered"]}
    /\ UNCHANGED <<scheduler, plugin, authority, closed, registry, nextCall, attempts,
                   delivered>>

\* An error, a refused redirect, the cancelled token, or the future dropped:
\* finish(Failed), finish(Abandoned) by Drop.
End(t) ==
    /\ tasks' = tasks \ {t}
    /\ registry' = Finish(registry, t.id)
    /\ UNCHANGED <<scheduler, plugin, authority, closed, nextCall, attempts, delivered>>

\* deliver and deliver_local: checked under the gate, and the call must still be
\* registered; otherwise the call object is dropped.
Deliverable(t) ==
    t.stage = "answered" /\ CallCurrent(t.id.ctx) /\ t.id \in registry.calls
Deliver(t) ==
    /\ Deliverable(t)
    /\ tasks' = tasks \ {t}
    /\ registry' = Finish(registry, t.id)
    /\ delivered' = delivered \cup {t.call}
    /\ UNCHANGED <<scheduler, plugin, authority, closed, nextCall, attempts>>

-----------------------------------------------------------------------------
(* Requests *)

Candidate(p, kind, i) ==
    [id |-> nextRequest, plugin |-> p, gen |-> i.gen, inc |-> i.inc, kind |-> kind,
     pub |-> None, lease |-> IF kind = "result" THEN nextRequest ELSE None]
SetQueue(p, q) == queue' = [queue EXCEPT ![p] = q]
Keep(q) == q.pub

\* A command or action reaches the scheduler with the identity of the queue.  A
\* plugin whose Runtime is being recovered has none to send.  enqueue_reserved
\* cancels the calls of the request that lost its currency.
Submit(p, kind) ==
    LET q == IF queue[p] = None THEN NewQueue(bundle[p].gen, bundle[p].inc, 1) ELSE queue[p]
        c == Candidate(p, kind, Identity(q))
    IN  /\ ~closed /\ nextRequest \in Requests
        /\ queue[p] = None => bundle[p] # None
        /\ In(p, "recovery") => Identity(bundle[p]) # Identity(q)
        /\ nextRequest' = nextRequest + 1
        /\ IF kind = "result"
           THEN /\ AdmitsResult(q, c)
                /\ SetQueue(p, AdmitResult(q, c)) /\ live' = live \cup {c.lease}
                /\ UNCHANGED registry
           ELSE /\ Accepts(q, c)
                /\ SetQueue(p, Enqueue(q, c)) /\ UNCHANGED live
                /\ CancelCalls(IF q.running # None THEN OfRequest(Ctx(q.running.req)) ELSE {})
        /\ UNCHANGED <<plugin, authority, closed, calls>>

Holds(p) == queue[p] # None /\ queue[p].running # None
\* Fault: the calls of a completed request are left in flight.
CompleteOnly(p) ==
    /\ Holds(p) /\ ~closed
    /\ SetQueue(p, Complete(queue[p], live))
    /\ UNCHANGED <<live, nextRequest, plugin, authority, closed, registry, calls>>

\* PublicPluginManager::complete and cancel_scheduled_request.
CompleteRequest(p) ==
    /\ Holds(p) /\ ~closed
    /\ SetQueue(p, Complete(queue[p], live))
    /\ CancelCalls(OfRequest(Ctx(queue[p].running.req)))
    /\ UNCHANGED <<live, nextRequest, plugin, authority, closed, calls>>
CancelRequest(p) ==
    /\ Holds(p) /\ ~closed
    /\ SetQueue(p, Cancel(queue[p], Ctx(queue[p].running.req)))
    /\ CancelCalls(OfRequest(Ctx(queue[p].running.req)))
    /\ UNCHANGED <<live, nextRequest, plugin, authority, closed, calls>>

\* retire_panel_action, retire_image_contexts and the revocations of a service
\* credential: the slot stays, the calls go.
RetireRunningRequest(p) ==
    /\ Holds(p) /\ ~closed
    /\ SetQueue(p, RetireContext(queue[p], Ctx(queue[p].running.req)))
    /\ CancelCalls(OfRequest(Ctx(queue[p].running.req)))
    /\ UNCHANGED <<live, nextRequest, plugin, authority, closed, calls>>

\* The list a result action came from is dismissed: its lease dies outside the
\* gate, and its calls stay registered until they end.
DismissResult(r) ==
    /\ r \in live
    /\ live' = live \ {r}
    /\ UNCHANGED <<queue, nextRequest, plugin, authority, closed, registry, calls>>

\* expire_network_timeouts
Expire(p) ==
    /\ Holds(p) /\ ~closed /\ queue[p].gen < MaxGen
    /\ SetQueue(p, ExpireRunning(queue[p]))
    /\ InvalidateRuntime(p, Identity(queue[p]))
    /\ UNCHANGED <<live, nextRequest, plugin, closed, calls>>

-----------------------------------------------------------------------------
(* Plugins *)

\* The publication of replace_runtime_generation: the queue still rebuilds.
CommitReplace(p) ==
    /\ queue[p] # None /\ queue[p].rebuilding /\ bundle[p] # None /\ nextInc <= MaxInc
    /\ bundle[p].state = "active" /\ bundle[p].gen + 1 = queue[p].gen
    /\ bundle' = [bundle EXCEPT ![p].gen = queue[p].gen, ![p].inc = nextInc]
    /\ nextInc' = nextInc + 1
    /\ UNCHANGED <<scheduler, authority, closed, registry, calls>>

\* finish_runtime_replacement
FinishReplace(p) ==
    /\ queue[p] # None /\ bundle[p] # None /\ ~closed
    /\ bundle[p].state = "active" /\ CanReplace(queue[p], bundle[p].gen)
    /\ SetQueue(p, RuntimeReplaced(queue[p], bundle[p].inc, Keep(queue[p])))
    /\ ReplaceAuthority(p, Granted(bundle[p]))
    /\ UNCHANGED <<live, nextRequest, plugin, closed, calls>>

\* Fault: a settings change keeps the requests of the plugin.
RetireNone(q) == q
RetireAll(q) == IF q = None THEN None ELSE RetirePlugin(q, Keep(q))
InvalidateAll(q) == IF q = None THEN None ELSE Invalidate(q, Keep(q))

\* Rename, permission, network access, settings and secret changes.
CommitChange(p, network) ==
    /\ bundle[p] # None /\ ~In(p, "uninstalling") /\ ~closed
    /\ SetQueue(p, RetireAll(queue[p]))
    /\ bundle' = [bundle EXCEPT ![p].network = network]
    /\ ExchangeAuthority(p, Granted(bundle'[p]))
    /\ UNCHANGED <<live, nextRequest, nextInc, closed, calls>>

\* disable, and disable_plugin_for_fault_if_current, which does not retire first.
CommitDisable(p, fault) ==
    /\ bundle[p] # None /\ ~In(p, "uninstalling") /\ ~closed
    /\ SetQueue(p, InvalidateAll(IF fault THEN queue[p] ELSE RetireAll(queue[p])))
    /\ bundle' = [bundle EXCEPT ![p] = None]
    /\ ExchangeAuthority(p, None)
    /\ UNCHANGED <<live, nextRequest, nextInc, closed, calls>>

\* enable and install.
CommitActivation(p) ==
    LET gen == 1 + (IF bundle[p] # None THEN bundle[p].gen
                    ELSE IF queue[p] # None THEN queue[p].gen ELSE 0)
        new == [gen |-> gen, inc |-> nextInc, network |-> TRUE, state |-> "active"]
    IN  /\ ~In(p, "uninstalling")
        /\ ~closed /\ gen <= MaxGen /\ nextInc <= MaxInc
        /\ nextInc' = nextInc + 1
        /\ SetQueue(p, IF queue[p] = None THEN NewQueue(gen, nextInc, 1)
                       ELSE Activate(RetireAll(queue[p]), gen, nextInc, Keep(queue[p])))
        /\ bundle' = [bundle EXCEPT ![p] = new]
        /\ ExchangeAuthority(p, Granted(new))
        /\ UNCHANGED <<live, nextRequest, closed, calls>>

\* begin_uninstall; commit_uninstall; abort_uninstall_before_commit, which
\* activates the same generation again; finish_runtime_recovery.
BeginUninstall(p, purge) ==
    /\ bundle[p] # None /\ ~In(p, "uninstalling") /\ ~closed
    /\ SetQueue(p, IF purge THEN None ELSE InvalidateAll(RetireAll(queue[p])))
    /\ bundle' = [bundle EXCEPT ![p].state = "uninstalling"]
    /\ ExchangeAuthority(p, None)
    /\ UNCHANGED <<live, nextRequest, nextInc, closed, calls>>
CommitUninstall(p) ==
    /\ In(p, "uninstalling")
    /\ bundle' = [bundle EXCEPT ![p] = None]
    /\ UNCHANGED <<scheduler, nextInc, authority, closed, registry, calls>>
AbortUninstall(p) ==
    /\ In(p, "uninstalling") /\ ~closed /\ nextInc <= MaxInc
    /\ queue[p] # None => CanActivate(queue[p], bundle[p].gen, nextInc)
    /\ nextInc' = nextInc + 1
    /\ bundle' = [bundle EXCEPT ![p].inc = nextInc, ![p].state = "recovery"]
    /\ SetQueue(p, IF queue[p] = None THEN NewQueue(bundle[p].gen, nextInc, 1)
                   ELSE Activate(queue[p], bundle[p].gen, nextInc, Keep(queue[p])))
    /\ ExchangeAuthority(p, None)
    /\ UNCHANGED <<live, nextRequest, closed, calls>>
FinishRecovery(p) ==
    /\ In(p, "recovery") /\ ~closed
    /\ bundle' = [bundle EXCEPT ![p].state = "active"]
    /\ ReplaceAuthority(p, Granted(bundle'[p]))
    /\ UNCHANGED <<scheduler, nextInc, closed, calls>>

\* invalidate_runtime_generation: a Runtime window was lost or destroyed.  Its
\* label names the generation only, and the request it executed stays current.
LoseRuntime(p, gen) ==
    /\ ~closed /\ gen \in 1..MaxGen
    /\ authority' = [authority EXCEPT ![p] = IF @ # None /\ @.gen = gen THEN None ELSE @]
    /\ CancelCalls(OfGeneration(p, gen))
    /\ UNCHANGED <<scheduler, plugin, closed, calls>>

\* close_network_authority_with_effects after an unknown outcome.
FailClosed(p) ==
    /\ ~closed
    /\ SetQueue(p, RetireAll(queue[p]))
    /\ ExchangeAuthority(p, None)
    /\ UNCHANGED <<live, nextRequest, plugin, closed, calls>>

\* PluginNetworkAuthorityGate::shutdown
Shutdown ==
    /\ ~closed
    /\ closed' = TRUE
    /\ authority' = [p \in Plugins |-> None]
    /\ registry' = Close(registry)
    /\ UNCHANGED <<scheduler, plugin, calls>>

-----------------------------------------------------------------------------
(* Next *)

CallSteps(p) ==
    \/ Admit(p)
    \/ \E t \in {u \in tasks : u.id.ctx.plugin = p} : Respond(t) \/ End(t) \/ Deliver(t)
RequestSteps(p) ==
    \/ \E kind \in Kinds : Submit(p, kind)
    \/ CompleteRequest(p) \/ CancelRequest(p) \/ RetireRunningRequest(p) \/ Expire(p)
PluginSteps(p) ==
    \/ CommitReplace(p) \/ FinishReplace(p) \/ CommitActivation(p)
    \/ \E b \in BOOLEAN : CommitChange(p, b) \/ CommitDisable(p, b) \/ BeginUninstall(p, b)
    \/ CommitUninstall(p) \/ AbortUninstall(p) \/ FinishRecovery(p)
    \/ \E gen \in 1..MaxGen : LoseRuntime(p, gen)
    \/ FailClosed(p)

Next ==
    \/ \E p \in Plugins : CallSteps(p) \/ RequestSteps(p) \/ PluginSteps(p)
    \/ \E r \in live : DismissResult(r)
    \/ Shutdown

Spec == Init /\ [][Next]_vars

-----------------------------------------------------------------------------
(* Properties *)

\* INVARIANT.  The slots counted are exactly the calls registered, whichever of
\* the answer, the cancellation and the drop of a call comes first, so no count
\* is released twice or kept, and the registry closes only at shutdown
\* (release_slot, cancel_matching, finish in registry.rs).
SlotsExact ==
    /\ Exact(registry) /\ WithinLimits(registry)
    /\ registry.terminal => closed

\* INVARIANT.  The registry remembers a context only while its request executes,
\* owns its slot and has the authority of its plugin: every operation that takes
\* one of these away also cancels the calls, in the same transition.  Otherwise
\* calls would outlive their request, or a forgotten context would be counted
\* from zero again.
ContextsOwned ==
    \A x \in Known(registry) :
        /\ Holds(x.plugin) /\ queue[x.plugin].running.current
        /\ x = NetContext(x.plugin, queue[x.plugin])
        /\ authority[x.plugin] = [gen |-> x.gen, inc |-> x.inc]

\* The requests that may call now, and the call objects registered for each.
Authorised ==
    {x.id : x \in {y \in UNION {CurrentContexts(p) : p \in Plugins} : CallCurrent(y)}}
Flight ==
    [r \in Requests |->
        {t.call : t \in {u \in tasks : u.id.ctx.id = r /\ u.id \in registry.calls}}]

Policy == INSTANCE CallPolicy WITH
    CallLimit <- MaxCalls, ConcurrentLimit <- MaxConcurrent, HostLimit <- MaxHostWide,
    authorised <- Authorised, used <- attempts, flight <- Flight, delivered <- delivered

\* REFINEMENT.  Whatever is revoked, replaced, lost or shut down while calls are
\* admitted and answered, a request keeps to its limits over its whole life, and
\* an answer of a call that was cancelled is never delivered, not even to a later
\* call of the same number.
ImplementsCallPolicy == Policy!Spec
=============================================================================
