--------------------------- MODULE HostProperties ---------------------------
(***************************************************************************)
(* What RuntimeHost is checked for: invariants of the queues, of the       *)
(* captured publications and of the plugin identities, the abstract        *)
(* lifecycle of a request, and what must eventually happen.                *)
(***************************************************************************)
EXTENDS RuntimeHost

Queued == {p \in Plugins : queue[p] # None}

-----------------------------------------------------------------------------
(* Queues *)

\* INVARIANT.  Every queue is one its operations can work with: dispatch()
\* (scheduler.rs) drops a candidate it refuses, so a waiting request whose slot,
\* generation or activation did not fit would be lost without an error.
QueueInv ==
    \A p \in Queued : QueueOK(p, queue[p])

\* INVARIANT.  The request that waits is the newest one the queue knows: no
\* timeout, rebinding or cancellation lets an older command come back over a
\* newer one (enqueue_reserved, rebind_waiting_generation).
NewestWaits == \A p \in Queued : NewestOK(queue[p])

-----------------------------------------------------------------------------
(* Publications and leases *)

ResultRequests ==
    {c \in HeldRequests : c.kind = "result"}
Captured ==
    {[plugin |-> c.plugin, gen |-> c.gen, inc |-> c.inc, pub |-> c.pub] : c \in ResultRequests}
    \cup {[plugin |-> a.plugin, gen |-> a.gen, inc |-> a.inc, pub |-> a.pub] : a \in answers}
    \cup (IF results = None THEN {}
          ELSE {[plugin |-> results.plugin, gen |-> results.gen, inc |-> results.inc,
                 pub |-> results.pub]})
    \cup {[plugin |-> c.plugin, gen |-> pending[c.id].gen, inc |-> pending[c.id].inc,
           pub |-> pending[c.id].pub] :
             c \in {d \in HeldRequests : d.kind = "command" /\ pending[d.id] # None}}

\* INVARIANT.  A captured publication that is still live is its queue's own, and
\* the queue still has the identity it was captured under: no path that changes
\* a plugin's generation or activation forgets to exchange the publication, and
\* none revives one (PluginQueue.result_publication in scheduler.rs).
RouteCurrent ==
    \A c \in Captured :
        c.pub # None /\ c.pub \in live =>
            /\ queue[c.plugin] # None
            /\ queue[c.plugin].pub = c.pub
            /\ SameIdentity(queue[c.plugin], c)

\* INVARIANT.  One displayed result action is executed once, although several
\* reservations of it may be admitted late and in any order
\* (claim_result_action, admit_result_action).
Executed(lease) ==
    {c \in {queue[p].running.req : p \in {x \in Queued : queue[x].running # None}}
           \cup {f.req : f \in finishing} : c.kind = "result" /\ c.lease = lease}
ClaimedOnce ==
    \A t \in Tokens :
        /\ Cardinality(Executed(t)) <= 1
        /\ results # None /\ results.lease = t /\ results.claim = "available"
              => Executed(t) = {}

\* INVARIANT.  A queue that admits requests has a live publication: otherwise
\* prepare_command and the service calls of the plugin would fail until restart
\* (capture_result_publication).
AdmittingQueuePublishes ==
    closed = "open" => \A p \in Queued : ~queue[p].rebuilding => queue[p].pub \in live

-----------------------------------------------------------------------------
(* Identities *)

\* INVARIANT.  Outside a management operation the scheduler and the confirmed
\* bundle agree on the identity of a plugin that is not rebuilding; if they did
\* not, every request of an enabled plugin would be refused.
IdentityAgrees ==
    \A p \in Queued :
        Confirmed(p) /\ aborted[p] = None /\ ~queue[p].rebuilding
            => SameIdentity(queue[p], bundle[p])

\* INVARIANT.  The scheduler takes the identity that an enable or install has
\* already written: a refusal leaves the state file ahead of the host and turns
\* the reservation book terminal for every plugin (invalidate_plugin).
ActivationNeverRefused ==
    \A p \in Plugins :
        op[p] # None /\ op[p].kind \in {"enable", "update"} => ActivationAccepted(p, op[p])

\* INVARIANT.  A rebuilding queue is in the hands of exactly one run of
\* expire_runtime_timeouts, unless that run gave up early: two runs never
\* replace the same Runtime, and none is forgotten by all of them.
Handling(p) ==
    {w \in Watchers :
        \E r \in pass[w].todo \cup ({pass[w].cur} \ {None}) :
            r.plugin = p /\ r.gen + 1 = queue[p].gen}
RebuildingHandled ==
    \A p \in Queued :
        queue[p].rebuilding /\ GateOpen /\ p \notin abandoned => Cardinality(Handling(p)) = 1

\* INVARIANT.  No request that was prepared has the identity of a rebuilding
\* queue.  enqueue_reserved stores such a request before it fails, in the place
\* of the one that waited: its caller ends the submission, and neither would ever
\* be answered.  Only the order in which a timeout, replace_runtime_generation
\* and runtime_replaced change generation and activation keeps that branch from
\* being taken.
RebuildingRefuses ==
    \A c \in prepared :
        LET q == queue[c.plugin] IN q # None /\ q.rebuilding => ~SameIdentity(q, c)

-----------------------------------------------------------------------------
(* The abstract lifecycle of a request *)

Located_(r) == {c \in prepared : c.id = r}
RunsId(r) == {p \in Queued : queue[p].running # None /\ queue[p].running.req.id = r}
WaitsId(r) == {p \in Queued : queue[p].waiting # None /\ queue[p].waiting.id = r}
OwesId(r) == {p \in Queued : queue[p].ticket # None /\ queue[p].ticket.req.id = r}
OwedContent(r) ==
    \E p \in OwesId(r) : queue[p].ticket.req.kind = "content" /\ queue[p].ticket.reason = "none"
OwedCommand(r) == \E a \in answers : a.id = r /\ a.pub \in live
OwedResult(r) ==
    \E f \in finishing :
        /\ f.req.id = r /\ f.accepted /\ f.req.lease \in live
        /\ \E p \in OwesId(r) : queue[p].ticket.reason = "none"
Unsettled(r) ==
    \/ \E p \in OwesId(r) : queue[p].ticket.req.kind = "content"
    \/ \E a \in answers : a.id = r
    \/ \E f \in finishing : f.req.id = r

StatusOf(r) ==
    IF r >= nextRequest THEN "unused"
    ELSE IF r \in delivered THEN "delivered"
    ELSE IF Located_(r) # {} THEN "reserved"
    ELSE IF WaitsId(r) # {} THEN "waiting"
    ELSE IF RunsId(r) # {}
         THEN LET q == queue[CHOOSE p \in RunsId(r) : TRUE]
              IN  IF Current(q, Ctx(q.running.req), live) THEN "current" ELSE "superseded"
    ELSE IF OwedContent(r) \/ OwedCommand(r) \/ OwedResult(r) THEN "owed"
    ELSE IF Unsettled(r) THEN "void"
    ELSE "done"

ExecutingOf(p) == IF queue[p] # None /\ queue[p].running # None THEN queue[p].running.req.id ELSE None
WaitingOf(p) == IF queue[p] # None /\ queue[p].waiting # None THEN queue[p].waiting.id ELSE None

Lifecycle == INSTANCE RequestLifecycle WITH
    status <- [r \in Requests |-> StatusOf(r)],
    executing <- [p \in Plugins |-> ExecutingOf(p)],
    waiting <- [p \in Plugins |-> WaitingOf(p)]

\* REFINEMENT.  The host implements the lifecycle: a request that was superseded,
\* retired or whose publication died is never current again and its answer is
\* never delivered, whatever completes, times out or is replaced around it.
ImplementsLifecycle == Lifecycle!Spec

-----------------------------------------------------------------------------
(* Liveness *)

\* Each dispatched request has a watchdog thread that runs expire_runtime_timeouts
\* at its deadline, a run goes on until it returns, a durable write ends, and the
\* service settles what a completion handed to it.  Nothing is assumed of users,
\* of the Runtimes (they need not answer) or of faults (they need not occur).
SettlementFairness ==
    /\ \A p \in Plugins :
          /\ WF_vars(Commits(p))
          /\ WF_vars(BindRoute(p))
          /\ WF_vars(AbortUnbound(p))
          /\ WF_vars(SettleContent(p))
    /\ WF_vars(\E a \in answers : PublishAnswer(a))
    /\ WF_vars(\E f \in finishing : FinishResultAction(f))
Fairness ==
    /\ \A w \in Watchers : WF_vars(Expire(w)) /\ WF_vars(PassStep(w))
    /\ SettlementFairness

FairSpec == Spec /\ Fairness

RebuildingP(p) == queue[p] # None /\ queue[p].rebuilding
Excused(p) == ~GateOpen \/ (p \in abandoned /\ RebuildingP(p))

\* LIVENESS.  A plugin whose request timed out is rebuilt, or disabled, unless
\* the run that should do so gave up (expire_runtime_timeouts).
RebuildingEndsUnlessAbandoned ==
    \A p \in Plugins : RebuildingP(p) ~> (~RebuildingP(p) \/ Excused(p))

\* LIVENESS.  Every admitted request is over one day: it does not wait or execute
\* for ever behind a Runtime that hangs, and an answer is not kept for ever.  Only
\* a plugin whose rebuild was given up, until it is rebuilt or enabled again, or a
\* closed host may leave one open.
Open(r) == StatusOf(r) \in {"waiting", "current", "superseded", "owed", "void"}
Holders(r) == RunsId(r) \cup WaitsId(r) \cup OwesId(r)
AdmittedRequestsEnd ==
    \A r \in Requests : Open(r) ~> (~Open(r) \/ \E p \in Holders(r) : Excused(p))

\* LIVENESS, as the design document has it: the Runtime of a plugin that timed
\* out is rebuilt, and other plugins cannot prevent it.
RebuildingEnds ==
    \A p \in Plugins : RebuildingP(p) ~> (~RebuildingP(p) \/ ~GateOpen)
=============================================================================
