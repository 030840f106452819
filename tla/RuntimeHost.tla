----------------------------- MODULE RuntimeHost -----------------------------
(***************************************************************************)
(* The Rust host of the public plugins: PublicPluginManager                *)
(* (public_plugins/activation.rs) and PublicPluginService                  *)
(* (public_plugins.rs) driving the request scheduler.                      *)
(*                                                                         *)
(* An action is one critical section.  Scheduler operations run inside a   *)
(* network authority transition (one mutex), so several of them under the  *)
(* same transition are one step; management operations run under the       *)
(* mutation mutex but release it around the durable write, so each is a    *)
(* Begin step that takes the plugin's activation reservation and a Commit  *)
(* step that publishes.  Commands are prepared and submitted in two steps  *)
(* without the mutation mutex: everything may happen between them.         *)
(***************************************************************************)
EXTENDS RequestQueue, FiniteSets

CONSTANTS
    ResultPlugins,   \* plugins whose manifest sets runtime.result_actions
    Watchers,        \* concurrent runs of expire_runtime_timeouts
    Ops,             \* the optional operations an instance exercises
    MaxGen, MaxInc   \* bounds on generations and activation ids

ASSUME TokensAssumption ==
    \E t \in [Plugins -> Tokens] : \A p, q \in Plugins : t[p] = t[q] => p = q
ASSUME HostAssumption ==
    /\ ResultPlugins \subseteq Plugins
    /\ Requests \subseteq Nat
    /\ MaxGen \in Nat /\ MaxInc \in Nat
    /\ Ops \subseteq {"content", "results", "cancel", "retire", "service", "change",
                      "disable", "fault", "update", "uninstall", "purge", "timeout",
                      "not_committed", "unknown_outcome", "create_failure", "close"}

VARIABLES
    queue,        \* SchedulerState.by_plugin
    live,         \* leases and publications not yet revoked
    closed,       \* shutdown progress: result publications, then the gate
    config,       \* PluginStateStore: active generation and status
    bundle,       \* confirmed activation of each plugin
    op,           \* management operation holding the activation reservation
    aborted,      \* previous bundle of an uninstall that released its reservation
    terminal,     \* ActivationReservationBook.terminal
    nextInc,      \* the next activation id and admission epoch
    nextRequest,  \* SchedulerState.next_request
    prepared,     \* requests reserved and not yet admitted
    pending,      \* route saved by the pending submission of a command
    answers,      \* accepted result rows on their way to the registry
    finishing,    \* completed result actions on their way to the registry
    delivered,    \* requests whose answer reached its page or list (history)
    results,      \* the result action set of the main window
    pass,         \* progress of each run of expire_runtime_timeouts
    abandoned     \* plugins a failed run left, until they time out again (history)

scheduler == <<queue, live>>
manager == <<config, bundle, op, aborted, terminal, nextInc>>
service == <<answers, finishing, results, delivered>>
watchdog == <<pass, abandoned>>
vars == <<queue, live, closed, config, bundle, op, aborted, terminal, nextInc,
          nextRequest, prepared, pending, answers, finishing, results, delivered,
          pass, abandoned>>

-----------------------------------------------------------------------------
(* State spaces *)

Statuses == {"enabled", "disabled", "retained", "absent"}
Configs == [gen : Nat, status : Statuses]
Bundles == [gen : Nat, inc : Nat, recovery : BOOLEAN]
OpKinds == {"change", "disable", "enable", "update", "fault", "replace",
            "uninstall", "purge", "lost"}
Operations == [kind : OpKinds, gen : Nat, inc : Nat, by : Watchers \cup {None}]
Routes == [gen : Nat, inc : Nat, pub : Tokens \cup {None},
           recovery : BOOLEAN, bound : BOOLEAN]
Answers == [plugin : Plugins, id : Requests, gen : Nat, inc : Nat, pub : Tokens \cup {None}]
Finishing == [req : Candidates, accepted : BOOLEAN]
ResultSets == [plugin : Plugins, gen : Nat, inc : Nat, pub : Tokens \cup {None},
               lease : Tokens, claim : {"available", "inflight", "consumed"}]
Replacements == [plugin : Plugins, gen : Nat, inc : Nat, fault : BOOLEAN]
Stages == {"idle", "fault", "faulting", "replace", "replacing", "create", "finish",
           "mark", "marking"}
Passes == [todo : SUBSET Replacements, cur : Replacements \cup {None},
           stage : Stages, gen : Nat, inc : Nat]
IdlePass == [todo |-> {}, cur |-> None, stage |-> "idle", gen |-> 0, inc |-> 0]

\* Rust's Option::None is no value of the type it is optional for, and the number
\* of the first request is 1.
ASSUME OptionAssumption == None \notin Replacements /\ None \notin Requests
ASSUME NumbersAssumption == 0 \notin Requests

TypeOK ==
    /\ queue \in [Plugins -> Queues \cup {None}]
    /\ live \subseteq Tokens
    /\ closed \in {"open", "publications", "gate"}
    /\ config \in [Plugins -> Configs]
    /\ bundle \in [Plugins -> Bundles \cup {None}]
    /\ op \in [Plugins -> Operations \cup {None}]
    /\ aborted \in [Plugins -> Bundles \cup {None}]
    /\ terminal \in BOOLEAN
    /\ nextInc \in Nat
    /\ nextRequest \in Nat
    /\ prepared \subseteq Candidates
    /\ pending \in [Requests -> Routes \cup {None}]
    /\ answers \subseteq Answers
    /\ finishing \subseteq Finishing
    /\ results \in ResultSets \cup {None}
    /\ delivered \subseteq Requests
    /\ pass \in [Watchers -> Passes]
    /\ abandoned \subseteq Plugins

-----------------------------------------------------------------------------
(* Tokens *)

PubOf(q) == IF q = None THEN {} ELSE {q.pub}

\* A new Arc is distinct from every one still referenced.
CandidateTokens(c) == {c.pub, c.lease}
HeldRequests ==
    prepared \cup {f.req : f \in finishing}
    \cup {queue[p].running.req : p \in {x \in Plugins : queue[x] # None /\ queue[x].running # None}}
    \cup {queue[p].ticket.req : p \in {x \in Plugins : queue[x] # None /\ queue[x].ticket # None}}
Referenced ==
    (UNION {PubOf(queue[p]) : p \in Plugins})
    \cup (UNION {CandidateTokens(c) : c \in HeldRequests})
    \cup {pending[r].pub : r \in {x \in Requests : pending[x] # None}}
    \cup {a.pub : a \in answers}
    \cup (IF results = None THEN {} ELSE {results.pub, results.lease})
Fresh == CHOOSE t \in Tokens : t \notin Referenced

\* Bound: the pool has a token left.  (A new Arc can always be made.)
TokensLeft == \E t \in Tokens : t \notin Referenced

\* Fault: the old publication is not revoked.
SetQueueWithoutRevoke(p, new) ==
    /\ TokensLeft
    /\ queue' = [queue EXCEPT ![p] = new]
    /\ live' = live \cup PubOf(new)

\* A queue changes; a publication it no longer holds has been revoked.
SetQueue(p, new) ==
    /\ TokensLeft
    /\ queue' = [queue EXCEPT ![p] = new]
    /\ live' = IF PubOf(new) = PubOf(queue[p]) THEN live
               ELSE (live \ PubOf(queue[p])) \cup PubOf(new)

\* A pending submission ends with its request.
Located ==
    {c.id : c \in prepared}
    \cup {queue[p].running.req.id : p \in {x \in Plugins : queue[x] # None /\ queue[x].running # None}}
    \cup {queue[p].waiting.id : p \in {x \in Plugins : queue[x] # None /\ queue[x].waiting # None}}
KeepPending(new) == pending' = [r \in Requests |-> IF r \in Located' THEN new[r] ELSE None]

GateOpen == closed # "gate"

\* ActivationReservationBook::confirmed_bundle, and an owner equal to it.
Confirmed(p) == ~terminal /\ op[p] = None /\ bundle[p] # None
OwnsBundle(p, o) ==
    Confirmed(p) /\ bundle[p].gen = o.gen /\ bundle[p].inc = o.inc /\ ~bundle[p].recovery

\* result_publication_current
PublicationCurrent(p, pub) ==
    /\ closed = "open" /\ pub \in live
    /\ queue[p] # None /\ queue[p].pub = pub /\ ~queue[p].rebuilding

\* checked_result_owner
ResultOwner(p, o) ==
    OwnsBundle(p, o) /\ p \in ResultPlugins /\ PublicationCurrent(p, o.pub)

-----------------------------------------------------------------------------
(* Initial state: every plugin was loaded enabled at generation 1. *)

FirstPub == CHOOSE t \in [Plugins -> Tokens] : \A p, q \in Plugins : t[p] = t[q] => p = q

Init ==
    /\ queue = [p \in Plugins |-> NewQueue(1, 1, FirstPub[p])]
    /\ live = {FirstPub[p] : p \in Plugins}
    /\ closed = "open"
    /\ config = [p \in Plugins |-> [gen |-> 1, status |-> "enabled"]]
    /\ bundle = [p \in Plugins |-> [gen |-> 1, inc |-> 1, recovery |-> FALSE]]
    /\ op = [p \in Plugins |-> None]
    /\ aborted = [p \in Plugins |-> None]
    /\ terminal = FALSE
    /\ nextInc = 2
    /\ nextRequest = 1
    /\ prepared = {}
    /\ pending = [r \in Requests |-> None]
    /\ answers = {}
    /\ finishing = {}
    /\ results = None
    /\ delivered = {}
    /\ pass = [w \in Watchers |-> IdlePass]
    /\ abandoned = {}

-----------------------------------------------------------------------------
(* Commands: prepare_command, then admit_prepared_command *)

NewCandidate(p, kind, o, lease) ==
    [id |-> nextRequest, plugin |-> p, gen |-> o.gen, inc |-> o.inc, kind |-> kind,
     pub |-> IF kind = "result" THEN o.pub ELSE None, lease |-> lease]

\* The route is resolved against the confirmed bundle; a plugin with result
\* actions also captures the publication of its queue.
Prepare(p) ==
    LET b == bundle[p]
        pub == IF p \in ResultPlugins THEN queue[p].pub ELSE None
        c == NewCandidate(p, "command", b, None)
    IN  /\ nextRequest \in Requests
        /\ Confirmed(p)
        /\ p \in ResultPlugins =>
              /\ queue[p] # None /\ PublicationCurrent(p, queue[p].pub)
              /\ SameIdentity(queue[p], b)
        /\ nextRequest' = nextRequest + 1
        /\ prepared' = prepared \cup {c}
        /\ pending' = [pending EXCEPT ![c.id] =
              [gen |-> b.gen, inc |-> b.inc, pub |-> pub, recovery |-> b.recovery,
               bound |-> FALSE]]
        /\ UNCHANGED <<scheduler, closed, manager, service, watchdog>>

\* enqueue_reserved as the manager calls it: no mutation lock and no look at
\* the bundle.  A queue that does not exist is created for the candidate.  While
\* the queue is rebuilding the candidate is kept, but the call fails and its
\* submission is settled.
Submit(c) ==
    LET p == c.plugin
        q == IF queue[p] = None THEN NewQueue(c.gen, c.inc, Fresh) ELSE queue[p]
    IN  /\ c.kind = "command"
        /\ ~pending[c.id].recovery
        /\ prepared' = prepared \ {c}
        /\ IF GateOpen /\ Accepts(q, c)
           THEN SetQueue(p, Enqueue(q, c))
           ELSE UNCHANGED scheduler
        /\ UNCHANGED <<closed, manager, nextRequest, service, watchdog>>
        /\ KeepPending(IF q.rebuilding THEN [pending EXCEPT ![c.id] = None] ELSE pending)

\* bind_request in bind_unsent_dispatch: a dispatched command of a plugin with
\* result actions takes its publication from the running slot, before the
\* Runtime learns of the request.
CanBind(p, r) ==
    LET q == queue[p]
        saved == pending[r.req.id]
        fresh == [gen |-> q.gen, inc |-> q.inc, pub |-> q.pub]
    IN  /\ Confirmed(p) /\ ~bundle[p].recovery
        /\ bundle[p].gen = r.req.gen /\ bundle[p].inc = r.req.inc
        /\ saved # None /\ r.req.gen >= saved.gen
        /\ saved.gen = r.req.gen => ResultOwner(p, saved) /\ saved.pub = q.pub
        /\ r.current /\ q.gen = r.req.gen /\ PublicationCurrent(p, q.pub)

Unbound(p) ==
    /\ p \in ResultPlugins /\ queue[p] # None /\ queue[p].running # None
    /\ queue[p].running.req.kind = "command"
    /\ LET s == pending[queue[p].running.req.id] IN s = None \/ ~s.bound

BindRoute(p) ==
    /\ Unbound(p)
    /\ LET q == queue[p]
           id == q.running.req.id
       IN  /\ CanBind(p, q.running)
           /\ pending' = [pending EXCEPT ![id] =
                 [gen |-> q.gen, inc |-> q.inc, pub |-> q.pub, recovery |-> FALSE,
                  bound |-> TRUE]]
    /\ UNCHANGED <<scheduler, closed, manager, nextRequest, prepared, service, watchdog>>

\* abort_submission_request after a failed bind: cancel, which may dispatch the
\* next waiting request (to be bound in its turn).
AbortUnbound(p) ==
    /\ Unbound(p) /\ GateOpen
    /\ ~CanBind(p, queue[p].running)
    /\ SetQueue(p, Cancel(queue[p], Ctx(queue[p].running.req)))
    /\ UNCHANGED <<closed, manager, nextRequest, prepared, service, watchdog>>
    /\ KeepPending(pending)

\* complete_runtime_recovery_with: the Runtime of an aborted uninstall is
\* rebuilt; only the newest submission that asked for it goes on to be enqueued.
RecoverRuntime(c) ==
    LET p == c.plugin IN
    /\ c.kind = "command" /\ pending[c.id] # None /\ pending[c.id].recovery /\ GateOpen
    /\ UNCHANGED <<scheduler, closed, config, op, aborted, terminal, nextInc,
                   nextRequest, service, watchdog>>
    /\ IF Confirmed(p) /\ bundle[p].recovery /\ SameIdentity(bundle[p], c)
       THEN /\ bundle' = [bundle EXCEPT ![p].recovery = FALSE]
            /\ prepared' = {d \in prepared : \/ d = c \/ d.kind # "command" \/ d.plugin # p
                                           \/ ~pending[d.id].recovery}
            /\ KeepPending([pending EXCEPT ![c.id].recovery = FALSE])
       ELSE /\ prepared' = prepared \ {c}
            /\ KeepPending(pending)
            /\ UNCHANGED bundle

\* settle_submission of a prepared request whose admission was given up.
DropPrepared(c) ==
    /\ "cancel" \in Ops
    /\ prepared' = prepared \ {c}
    /\ UNCHANGED <<scheduler, closed, manager, nextRequest, service, watchdog>>
    /\ KeepPending(pending)

-----------------------------------------------------------------------------
(* Content and result actions *)

\* admit_panel_action and admit_window_action hold the mutation lock from the
\* bundle check to the enqueue.
ContentAction(p) ==
    LET c == NewCandidate(p, "content", bundle[p], None)
        q == IF queue[p] = None THEN NewQueue(c.gen, c.inc, Fresh) ELSE queue[p]
    IN  /\ "content" \in Ops
        /\ nextRequest \in Requests
        /\ GateOpen /\ Confirmed(p) /\ ~bundle[p].recovery
        /\ Accepts(q, c)
        /\ nextRequest' = nextRequest + 1
        /\ SetQueue(p, Enqueue(q, c))
        /\ UNCHANGED <<closed, manager, prepared, pending, service, watchdog>>

\* reserve_result_action on the displayed result set.
ReserveResult ==
    /\ results # None /\ nextRequest \in Requests
    /\ results.lease \in live /\ results.pub \in live
    /\ nextRequest' = nextRequest + 1
    /\ prepared' = prepared \cup
          {NewCandidate(results.plugin, "result", results, results.lease)}
    /\ UNCHANGED <<scheduler, closed, manager, pending, service, watchdog>>

\* Fault: a claimed set can be claimed again.
ClaimableAgain(c) == results # None /\ results.lease = c.lease

\* The check of ResultRegistry::claim_result_action.
Claimable(c) == results # None /\ results.lease = c.lease /\ results.claim = "available"

\* admit_result_action: mutation, owner, scheduler and registry claim together.
AdmitResultAction(c) ==
    LET p == c.plugin
        admitted == /\ GateOpen /\ ResultOwner(p, c) /\ Live(c, live)
                    /\ AdmitsResult(queue[p], c) /\ Claimable(c)
    IN  /\ c.kind = "result"
        /\ prepared' = prepared \ {c}
        /\ IF admitted
           THEN /\ SetQueue(p, AdmitResult(queue[p], c))
                /\ results' = [results EXCEPT !.claim = "inflight"]
           ELSE UNCHANGED <<scheduler, results>>
        /\ UNCHANGED <<closed, manager, nextRequest, answers, finishing, delivered, watchdog>>
        /\ KeepPending(pending)

-----------------------------------------------------------------------------
(* Completion: the Runtime answers, the service settles *)

\* PublicPluginManager::complete: the caller's label must be that of an enabled
\* bundle of the request's generation.
CompleteRequest(p) ==
    LET q == queue[p]
        r == q.running
        accepted == Accepted(q, live)
    IN  /\ q # None /\ r # None /\ ~Unbound(p)
        /\ GateOpen /\ ~terminal
        /\ bundle[p] # None /\ bundle[p].gen = r.req.gen
        /\ SetQueue(p, Complete(q, live))
        /\ answers' = IF r.req.kind = "command" /\ accepted /\ p \in ResultPlugins
                      THEN LET s == pending[r.req.id]
                           IN  answers \cup {[plugin |-> p, id |-> r.req.id, gen |-> s.gen,
                                              inc |-> s.inc, pub |-> s.pub]}
                      ELSE answers
        /\ finishing' = IF r.req.kind = "result"
                        THEN finishing \cup {[req |-> r.req, accepted |-> accepted]}
                        ELSE finishing
        /\ delivered' = IF r.req.kind = "command" /\ accepted /\ p \notin ResultPlugins
                        THEN delivered \cup {r.req.id} ELSE delivered
        /\ UNCHANGED <<closed, manager, nextRequest, prepared, results, watchdog>>
        /\ KeepPending(pending)

\* settle_content_action_with: the page gets the response only if the claim
\* succeeds under the mutation lock; the ticket is discarded either way.
SettleContent(p) ==
    LET q == queue[p] IN
    /\ q # None /\ q.ticket # None /\ q.ticket.req.kind = "content"
    /\ SetQueue(p, TakeTicket(q))
    /\ delivered' = IF GateOpen /\ OwnsBundle(p, q.ticket.req) /\ q.ticket.reason = "none"
                    THEN delivered \cup {q.ticket.req.id} ELSE delivered
    /\ UNCHANGED <<closed, manager, nextRequest, prepared, pending, answers, finishing,
                   results, watchdog>>

\* The registry shows a new result set under a new lease and retires the old one.
Show(p, o) ==
    /\ TokensLeft
    /\ results' = [plugin |-> p, gen |-> o.gen, inc |-> o.inc, pub |-> o.pub,
                   lease |-> Fresh, claim |-> "available"]
OldLease == IF results = None THEN {} ELSE {results.lease}

\* publish_result_actions for the answer of a command.
PublishAnswer(a) ==
    /\ answers' = answers \ {a}
    /\ IF ResultOwner(a.plugin, a)
       THEN /\ Show(a.plugin, a)
            /\ live' = (live \ OldLease) \cup {Fresh}
            /\ delivered' = delivered \cup {a.id}
       ELSE UNCHANGED <<live, results, delivered>>
    /\ UNCHANGED <<queue, closed, manager, nextRequest, prepared, pending, finishing, watchdog>>

\* Fault: the ticket is not looked at.
PublishableWithoutTicket(f) ==
    /\ f.accepted /\ f.req.lease \in live /\ GateOpen
    /\ ResultOwner(f.req.plugin, f.req)

\* What finish_result_action and replace_result_actions check.
TicketOwed(q, c) == q # None /\ Owes(q, Ctx(c)) /\ q.ticket.reason = "none"
Publishable(f) ==
    /\ f.accepted /\ f.req.lease \in live /\ GateOpen
    /\ ResultOwner(f.req.plugin, f.req)
    /\ TicketOwed(queue[f.req.plugin], f.req)
    /\ results # None /\ results.lease = f.req.lease /\ results.claim = "inflight"

\* finish_result_action and the clean-up in complete_result_action: the ticket
\* goes, and the claimed set is replaced or consumed.
FinishResultAction(f) ==
    LET p == f.req.plugin
        mine == results # None /\ results.lease = f.req.lease
    IN  /\ finishing' = finishing \ {f}
        /\ queue' = IF queue[p] # None /\ Owes(queue[p], Ctx(f.req))
                    THEN [queue EXCEPT ![p] = TakeTicket(@)] ELSE queue
        /\ \/ /\ Publishable(f)
              /\ Show(p, f.req)
              /\ live' = (live \ OldLease) \cup {Fresh}
              /\ delivered' = delivered \cup {f.req.id}
           \/ /\ results' = IF mine THEN [results EXCEPT !.claim = "consumed"] ELSE results
              /\ UNCHANGED <<live, delivered>>
        /\ UNCHANGED <<closed, manager, nextRequest, prepared, pending, answers, watchdog>>

\* A new query, hiding the window, or retire_current: the lease dies.
DismissResults ==
    /\ "results" \in Ops /\ results # None
    /\ live' = live \ {results.lease}
    /\ results' = None
    /\ UNCHANGED <<queue, closed, manager, nextRequest, prepared, pending, answers,
                   finishing, delivered, watchdog>>

\* admit_prepared_command_with, after its enqueue: the result action of the
\* same plugin and generation in flight loses its lease.
RevokeInFlight ==
    /\ results # None /\ results.claim = "inflight" /\ results.lease \in live
    /\ LET q == queue[results.plugin]
       IN  q # None /\ (q.waiting # None \/ (q.running # None /\ q.running.req.kind = "command"))
    /\ live' = live \ {results.lease}
    /\ UNCHANGED <<queue, closed, manager, nextRequest, prepared, pending, service, watchdog>>

-----------------------------------------------------------------------------
(* Retirement and cancellation of single requests *)

\* The contexts a queue knows.  These operations compare whole contexts, so one
\* with any other context, stale or rebound since, changes nothing.
HeldContexts(q) ==
    {Ctx(c) : c \in {q.waiting} \ {None}}
    \cup {Ctx(r.req) : r \in {q.running, q.ticket} \ {None}}
RunsKind(q, ctx, kinds) == Runs(q, ctx) => q.running.req.kind \in kinds

\* retire_panel_action: the page of a content action, or the result set of a
\* result action, went away.
RetireContent(p) ==
    /\ "retire" \in Ops /\ queue[p] # None
    /\ \E ctx \in HeldContexts(queue[p]) :
          /\ RunsKind(queue[p], ctx, {"content", "result"})
          /\ SetQueue(p, RetireContext(queue[p], ctx))
    /\ UNCHANGED <<closed, manager, nextRequest, prepared, pending, service, watchdog>>

\* cancel_scheduled_request for a command or result action.
CancelRequest(p) ==
    /\ "cancel" \in Ops /\ queue[p] # None /\ GateOpen
    /\ \E ctx \in HeldContexts(queue[p]) :
          /\ RunsKind(queue[p], ctx, {"command", "result"})
          /\ SetQueue(p, Cancel(queue[p], ctx))
    /\ UNCHANGED <<closed, manager, nextRequest, prepared, service, watchdog>>
    /\ KeepPending(pending)

\* A host credential or image went away: the request that used it is retired
\* with the publication of its queue.  OCR also revokes the publication it
\* captured; if its request has left the queue by then,
\* retire_service_request_context still gives the queue a new one.
RetireService(p) ==
    /\ "service" \in Ops /\ queue[p] # None /\ GateOpen
    /\ \/ \E ctx \in HeldContexts(queue[p]) :
             SetQueue(p, RetireRequest(queue[p], ctx, Fresh))
       \/ ~queue[p].rebuilding /\ SetQueue(p, [queue[p] EXCEPT !.pub = Fresh])
    /\ UNCHANGED <<closed, manager, nextRequest, prepared, pending, service, watchdog>>

-----------------------------------------------------------------------------
(* Management operations: reserve, durable write, publish *)

CanReserve(p) == ~terminal /\ op[p] = None
Reserved(kind, gen, inc, by) == [kind |-> kind, gen |-> gen, inc |-> inc, by |-> by]
RetireIfAny(q, fresh) == IF q = None THEN None ELSE RetirePlugin(q, fresh)
InvalidateIfAny(q, fresh) == IF q = None THEN None ELSE Invalidate(q, fresh)

\* Rename, permission, network access, settings and secret changes, and a
\* disable by the user: the current bundle is kept for the commit.
BeginChange(p, kind) ==
    /\ kind \in {"change", "disable"} \cap Ops
    /\ CanReserve(p) /\ bundle[p] # None
    /\ op' = [op EXCEPT ![p] = Reserved(kind, bundle[p].gen, bundle[p].inc, None)]
    /\ UNCHANGED <<scheduler, closed, config, bundle, aborted, terminal, nextInc,
                   nextRequest, prepared, pending, service, watchdog>>

\* Fault: generations restart whenever the package is gone.
NextGenRestarting(p) ==
    IF config[p].status \in {"absent", "retained"} THEN 1 ELSE config[p].gen + 1

\* enable, and the install of a package over any previous configuration: a new
\* generation (1 after a purge) under a fresh incarnation.
NextGen(p) == IF config[p].status = "absent" THEN 1 ELSE config[p].gen + 1
BeginActivation(p, kind) ==
    /\ \/ kind = "enable" /\ config[p].status = "disabled" /\ bundle[p] = None
       \/ kind = "update" /\ kind \in Ops
    /\ CanReserve(p) /\ NextGen(p) <= MaxGen /\ nextInc <= MaxInc
    /\ op' = [op EXCEPT ![p] = Reserved(kind, NextGen(p), nextInc, None)]
    /\ nextInc' = nextInc + 1
    /\ UNCHANGED <<scheduler, closed, config, bundle, aborted, terminal,
                   nextRequest, prepared, pending, service, watchdog>>

\* disable_plugin_for_fault_if_current: by a completion, a crashed Runtime, or
\* a timeout run.
CanFault(p, o) ==
    /\ CanReserve(p) /\ config[p].status = "enabled"
    /\ bundle[p] # None /\ bundle[p].gen = o.gen /\ bundle[p].inc = o.inc
BeginFault(p) ==
    /\ "fault" \in Ops
    /\ bundle[p] # None /\ CanFault(p, bundle[p])
    /\ op' = [op EXCEPT ![p] = Reserved("fault", bundle[p].gen, bundle[p].inc, None)]
    /\ UNCHANGED <<scheduler, closed, config, bundle, aborted, terminal, nextInc,
                   nextRequest, prepared, pending, service, watchdog>>

\* begin_uninstall: requests are retired and the queue invalidated (data
\* retained) or forgotten (purged) at once; the bundle stays until the commit.
BeginUninstall(p, kind) ==
    /\ kind \in {"uninstall", "purge"} \cap Ops
    /\ CanReserve(p) /\ config[p].status # "absent" /\ GateOpen
    /\ op' = [op EXCEPT ![p] = Reserved(kind, config[p].gen, 0, None)]
    /\ SetQueue(p, IF kind = "purge" THEN None
                   ELSE InvalidateIfAny(RetireIfAny(queue[p], Fresh), Fresh))
    /\ UNCHANGED <<closed, config, bundle, aborted, terminal, nextInc, nextRequest,
                   prepared, service, watchdog>>
    /\ KeepPending(pending)

\* make_state_durable succeeded: the second critical section of each operation.
CommitChange(p) ==
    /\ op[p] # None /\ op[p].kind = "change" /\ GateOpen
    /\ SetQueue(p, RetireIfAny(queue[p], Fresh))
    /\ op' = [op EXCEPT ![p] = None]
    /\ UNCHANGED <<closed, config, bundle, aborted, terminal, nextInc, nextRequest,
                   prepared, service, watchdog>>
    /\ KeepPending(pending)

CommitDisable(p) ==
    /\ op[p] # None /\ op[p].kind = "disable" /\ GateOpen
    /\ SetQueue(p, InvalidateIfAny(RetireIfAny(queue[p], Fresh), Fresh))
    /\ op' = [op EXCEPT ![p] = None]
    /\ bundle' = [bundle EXCEPT ![p] = None]
    /\ config' = [config EXCEPT ![p].status = "disabled"]
    /\ UNCHANGED <<closed, aborted, terminal, nextInc, nextRequest, prepared, service,
                   watchdog>>
    /\ KeepPending(pending)

\* A fault disable invalidates the queue without retiring it first.
PublishFault(p) ==
    /\ SetQueue(p, InvalidateIfAny(queue[p], Fresh))
    /\ op' = [op EXCEPT ![p] = None]
    /\ bundle' = [bundle EXCEPT ![p] = None]
    /\ config' = [config EXCEPT ![p].status = "disabled"]
    /\ UNCHANGED <<closed, aborted, terminal, nextInc, nextRequest, prepared, service>>
    /\ KeepPending(pending)
CommitFault(p) ==
    /\ op[p] # None /\ op[p].kind = "fault" /\ op[p].by = None /\ GateOpen
    /\ PublishFault(p)
    /\ UNCHANGED watchdog

\* Enable and install: if the scheduler refuses the new identity the durable
\* reservation is dropped unpublished and the whole book turns terminal.
ActivationAccepted(p, o) == queue[p] = None \/ CanActivate(queue[p], o.gen, o.inc)
CommitActivation(p) ==
    LET o == op[p]
        q == RetireIfAny(queue[p], Fresh)
        active == o.kind = "enable" \/ config[p].status # "disabled"
    IN  /\ o # None /\ o.kind \in {"enable", "update"} /\ GateOpen
        /\ IF ActivationAccepted(p, o)
           THEN /\ SetQueue(p, IF q = None THEN NewQueue(o.gen, o.inc, Fresh)
                               ELSE Activate(q, o.gen, o.inc, Fresh))
                /\ op' = [op EXCEPT ![p] = None]
                /\ bundle' = [bundle EXCEPT ![p] =
                      IF active THEN [gen |-> o.gen, inc |-> o.inc, recovery |-> FALSE]
                      ELSE None]
                /\ config' = [config EXCEPT ![p] =
                      [gen |-> o.gen, status |-> IF active THEN "enabled" ELSE "disabled"]]
                /\ UNCHANGED terminal
           ELSE /\ SetQueue(p, q)
                /\ terminal' = TRUE
                /\ op' = [op EXCEPT ![p].kind = "lost"]
                /\ UNCHANGED <<bundle, config>>
        /\ UNCHANGED <<closed, aborted, nextInc, nextRequest, prepared, service, watchdog>>
        /\ KeepPending(pending)

CommitUninstall(p) ==
    /\ op[p] # None /\ op[p].kind \in {"uninstall", "purge"}
    /\ op' = [op EXCEPT ![p] = None]
    /\ bundle' = [bundle EXCEPT ![p] = None]
    /\ config' = [config EXCEPT ![p].status =
          IF op[p].kind = "purge" THEN "absent" ELSE "retained"]
    /\ UNCHANGED <<scheduler, closed, aborted, terminal, nextInc, nextRequest, prepared,
                   pending, service, watchdog>>

\* The write was verified not to have happened: the reservation is released.
\* (An uninstall keeps its transaction and goes on to abort.)
NotCommitted(p) ==
    /\ "not_committed" \in Ops
    /\ op[p] # None /\ op[p].by = None
    /\ op[p].kind \notin {"uninstall", "purge", "lost"}
    /\ op' = [op EXCEPT ![p] = None]
    /\ UNCHANGED <<scheduler, closed, config, bundle, aborted, terminal, nextInc,
                   nextRequest, prepared, pending, service, watchdog>>

\* The outcome of the write is unknown: the book is terminal until restart, and
\* an operation of the user retires the requests of its plugin.
UnknownOutcome(p) ==
    /\ "unknown_outcome" \in Ops
    /\ op[p] # None /\ op[p].kind # "lost"
    /\ terminal' = TRUE
    /\ op' = [op EXCEPT ![p].kind = "lost"]
    /\ IF op[p].kind \in {"change", "disable", "enable", "update"}
       THEN SetQueue(p, RetireIfAny(queue[p], Fresh))
       ELSE UNCHANGED scheduler
    /\ UNCHANGED <<closed, config, bundle, aborted, nextInc, nextRequest, prepared,
                   service, watchdog>>
    /\ KeepPending(pending)

\* abort_uninstall_before_commit drops the reservation before it takes the
\* mutation lock, then re-activates the previous bundle under a fresh
\* incarnation at its old generation, or gives up.
ReleaseUninstall(p) ==
    /\ op[p] # None /\ op[p].kind \in {"uninstall", "purge"}
    /\ op' = [op EXCEPT ![p] = None]
    /\ aborted' = [aborted EXCEPT ![p] = bundle[p]]
    /\ UNCHANGED <<scheduler, closed, config, bundle, terminal, nextInc, nextRequest,
                   prepared, pending, service, watchdog>>

CanReactivate(p) == CanReserve(p) /\ config[p].status = "enabled" /\ GateOpen
ReactivateAborted(p) ==
    LET b == aborted[p]
        o == [gen |-> b.gen, inc |-> nextInc]
    IN  /\ b # None /\ nextInc <= MaxInc
        /\ aborted' = [aborted EXCEPT ![p] = None]
        /\ nextInc' = nextInc + 1
        /\ IF CanReactivate(p) /\ ActivationAccepted(p, o)
           THEN /\ SetQueue(p, IF queue[p] = None THEN NewQueue(o.gen, o.inc, Fresh)
                               ELSE Activate(queue[p], o.gen, o.inc, Fresh))
                /\ bundle' = [bundle EXCEPT ![p] =
                      [gen |-> b.gen, inc |-> o.inc, recovery |-> TRUE]]
           ELSE UNCHANGED <<scheduler, bundle>>
        /\ UNCHANGED <<closed, config, op, terminal, nextRequest, prepared, service, watchdog>>
        /\ KeepPending(pending)

\* shutdown_network: close_result_publications, then the authority gate.
ClosePublications ==
    /\ "close" \in Ops /\ closed = "open"
    /\ closed' = "publications"
    /\ live' = live \ ((UNION {PubOf(queue[p]) : p \in Plugins})
                       \cup {queue[p].running.req.lease :
                               p \in {x \in Plugins : queue[x] # None /\ queue[x].running # None}})
    /\ UNCHANGED <<queue, manager, nextRequest, prepared, pending, service, watchdog>>
CloseGate ==
    /\ closed = "publications"
    /\ closed' = "gate"
    /\ UNCHANGED <<scheduler, manager, nextRequest, prepared, pending, service, watchdog>>
-----------------------------------------------------------------------------
(* expire_runtime_timeouts: each dispatched request has a watchdog thread that *)
(* sleeps to its deadline and then runs this for every plugin, so several runs *)
(* may be in progress at once.                                                 *)

\* expire_network_timeouts takes the running request of every plugin past its
\* deadline; the queues stay rebuilding until this run replaces their Runtime.
Expire(w) ==
    /\ "timeout" \in Ops /\ GateOpen /\ pass[w] = IdlePass
    /\ \E due \in SUBSET {p \in Plugins : queue[p] # None /\ queue[p].running # None} :
          /\ due # {}
          /\ \A p \in due : queue[p].gen < MaxGen
          /\ queue' = [p \in Plugins |-> IF p \in due THEN ExpireRunning(queue[p]) ELSE queue[p]]
          /\ live' = live \ {queue[p].pub : p \in due}
          /\ pass' = [pass EXCEPT ![w].todo =
                {[plugin |-> p, gen |-> queue[p].gen, inc |-> queue[p].inc,
                  fault |-> Accepted(queue[p], live)] : p \in due}]
          /\ abandoned' = abandoned \ due
    /\ UNCHANGED <<closed, manager, nextRequest, prepared, service>>
    /\ KeepPending(pending)

Goto(w, stage) == pass' = [pass EXCEPT ![w].stage = stage] /\ UNCHANGED abandoned
\* Fault: the loop ends after its first plugin.
FinishedAll(w) == pass' = [pass EXCEPT ![w] = IdlePass] /\ UNCHANGED abandoned
\* Done with one plugin; the loop goes on with the others.
Finished(w) ==
    /\ pass' = [pass EXCEPT ![w] = [IdlePass EXCEPT !.todo = pass[w].todo]]
    /\ UNCHANGED abandoned
\* An early return: the plugins not handled yet are not handled by anyone.
Abandon(w) ==
    /\ pass' = [pass EXCEPT ![w] = IdlePass]
    /\ abandoned' = abandoned \cup {pass[w].cur.plugin} \cup {r.plugin : r \in pass[w].todo}

\* The loop head, with the fault it may count.
TakeReplacement(w) ==
    /\ pass[w].stage = "idle"
    /\ \E r \in pass[w].todo, third \in BOOLEAN :
          /\ third => r.fault /\ "fault" \in Ops
          /\ pass' = [pass EXCEPT ![w] =
                [todo |-> @.todo \ {r}, cur |-> r, gen |-> r.gen, inc |-> r.inc,
                 stage |-> IF third THEN "fault" ELSE "replace"]]
    /\ UNCHANGED <<scheduler, closed, manager, nextRequest, prepared, pending, service, abandoned>>

\* record_runtime_result at the third fault, and mark_runtime_unavailable: try to
\* disable the plugin if it still has the identity of the failed Runtime.
PassReserveFault(w) ==
    LET p == pass[w].cur.plugin
        o == [gen |-> pass[w].gen, inc |-> pass[w].inc]
        other == bundle[p] # None /\ (bundle[p].gen # o.gen \/ bundle[p].inc # o.inc)
    IN  /\ pass[w].stage \in {"fault", "mark"}
        /\ IF CanFault(p, o)
           THEN /\ op' = [op EXCEPT ![p] = Reserved("fault", o.gen, o.inc, w)]
                /\ Goto(w, IF pass[w].stage = "fault" THEN "faulting" ELSE "marking")
           ELSE /\ UNCHANGED op
                /\ IF pass[w].stage = "fault" /\ ~terminal /\ (bundle[p] = None \/ other)
                   THEN Goto(w, "replace")
                   ELSE Abandon(w)
        /\ UNCHANGED <<scheduler, closed, config, bundle, aborted, terminal, nextInc,
                       nextRequest, prepared, pending, service>>
PassCommitFault(w) ==
    LET p == pass[w].cur.plugin IN
    /\ pass[w].stage \in {"faulting", "marking"}
    /\ op[p] # None /\ op[p].kind = "fault" /\ GateOpen
    /\ PublishFault(p)
    /\ IF pass[w].stage = "faulting" THEN Finished(w) ELSE Abandon(w)

\* replace_runtime_generation, first critical section.
PassReserveReplace(w) ==
    LET r == pass[w].cur
        p == r.plugin
        can == /\ CanReserve(p) /\ config[p].status = "enabled" /\ bundle[p] # None
               /\ bundle[p].gen = r.gen /\ config[p].gen = r.gen
    IN  /\ pass[w].stage = "replace" /\ nextInc <= MaxInc
        /\ IF can
           THEN /\ op' = [op EXCEPT ![p] = Reserved("replace", r.gen + 1, nextInc, w)]
                /\ nextInc' = nextInc + 1
                /\ Goto(w, "replacing")
           ELSE UNCHANGED <<op, nextInc>> /\ Goto(w, "mark")
        /\ UNCHANGED <<scheduler, closed, config, bundle, aborted, terminal,
                       nextRequest, prepared, pending, service>>

\* ... and second: the new generation is published, the queue still rebuilds.
PassCommitReplace(w) ==
    LET p == pass[w].cur.plugin
        o == op[p]
    IN  /\ pass[w].stage = "replacing" /\ o # None /\ o.kind = "replace"
        /\ op' = [op EXCEPT ![p] = None]
        /\ bundle' = [bundle EXCEPT ![p] =
              [gen |-> o.gen, inc |-> o.inc, recovery |-> FALSE]]
        /\ config' = [config EXCEPT ![p].gen = o.gen]
        /\ pass' = [pass EXCEPT ![w] =
              [@ EXCEPT !.stage = "create", !.gen = o.gen, !.inc = o.inc]]
        /\ UNCHANGED <<scheduler, closed, aborted, terminal, nextInc, nextRequest,
                       prepared, pending, service, abandoned>>

\* The durable write of a run failed.
PassNotCommitted(w) ==
    LET p == pass[w].cur.plugin IN
    /\ pass[w].stage \in {"faulting", "marking", "replacing"}
    /\ \/ "not_committed" \in Ops /\ op[p].kind # "lost" /\ op' = [op EXCEPT ![p] = None]
       \/ op[p].kind = "lost" /\ UNCHANGED op
    /\ IF pass[w].stage = "replacing" THEN Goto(w, "mark") ELSE Abandon(w)
    /\ UNCHANGED <<scheduler, closed, config, bundle, aborted, terminal, nextInc,
                   nextRequest, prepared, pending, service>>

\* create_runtime: the hidden Runtime window of the new generation.
PassCreate(w) ==
    /\ pass[w].stage = "create"
    /\ \/ Goto(w, "finish")
       \/ "create_failure" \in Ops /\ Goto(w, "mark")
    /\ UNCHANGED <<scheduler, closed, manager, nextRequest, prepared, pending, service>>

\* finish_runtime_replacement: rebind the waiting request and dispatch it; a
\* failed dispatch marks the new Runtime unavailable.
PassFinish(w) ==
    LET p == pass[w].cur.plugin
        can == /\ GateOpen /\ Confirmed(p)
               /\ bundle[p].gen = pass[w].gen /\ bundle[p].inc = pass[w].inc
               /\ queue[p] # None /\ CanReplace(queue[p], pass[w].gen)
    IN  /\ pass[w].stage = "finish"
        /\ IF can
           THEN /\ SetQueue(p, RuntimeReplaced(queue[p], pass[w].inc, Fresh))
                /\ \/ Finished(w)
                   \/ "create_failure" \in Ops /\ queue[p].waiting # None /\ Goto(w, "mark")
           ELSE UNCHANGED scheduler /\ Abandon(w)
        /\ UNCHANGED <<closed, manager, nextRequest, prepared, service>>
        /\ KeepPending(pending)

-----------------------------------------------------------------------------
(* Next *)

Submissions ==
    \/ \E p \in Plugins : Prepare(p) \/ BindRoute(p) \/ AbortUnbound(p) \/ ContentAction(p)
    \/ \E c \in prepared : Submit(c) \/ RecoverRuntime(c) \/ DropPrepared(c)
                           \/ AdmitResultAction(c)
    \/ ReserveResult
Completions ==
    \/ \E p \in Plugins : CompleteRequest(p) \/ SettleContent(p)
    \/ \E a \in answers : PublishAnswer(a)
    \/ \E f \in finishing : FinishResultAction(f)
    \/ DismissResults \/ RevokeInFlight
Retirements == \E p \in Plugins : RetireContent(p) \/ CancelRequest(p) \/ RetireService(p)
Commits(p) == CommitChange(p) \/ CommitDisable(p) \/ CommitFault(p) \/ CommitActivation(p)
Management ==
    \/ \E p \in Plugins :
          \/ \E kind \in {"change", "disable"} : BeginChange(p, kind)
          \/ \E kind \in {"enable", "update"} : BeginActivation(p, kind)
          \/ \E kind \in {"uninstall", "purge"} : BeginUninstall(p, kind)
          \/ BeginFault(p) \/ Commits(p) \/ CommitUninstall(p) \/ NotCommitted(p)
          \/ UnknownOutcome(p) \/ ReleaseUninstall(p) \/ ReactivateAborted(p)
    \/ ClosePublications \/ CloseGate
PassStep(w) ==
    \/ TakeReplacement(w) \/ PassReserveFault(w) \/ PassCommitFault(w)
    \/ PassReserveReplace(w) \/ PassCommitReplace(w) \/ PassNotCommitted(w)
    \/ PassCreate(w) \/ PassFinish(w)
Timeouts == \E w \in Watchers : Expire(w) \/ PassStep(w)

Next == Submissions \/ Completions \/ Retirements \/ Management \/ Timeouts

Spec == Init /\ [][Next]_vars
=============================================================================
