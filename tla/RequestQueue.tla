---------------------------- MODULE RequestQueue ----------------------------
(***************************************************************************)
(* The per-plugin request queue of public_plugins/scheduler.rs as a value. *)
(* PluginRequestScheduler keeps one PluginQueue per plugin behind a mutex; *)
(* every public operation of it is, for one plugin, a function from a      *)
(* queue to a queue.  This module defines those functions and nothing      *)
(* else: RuntimeHost says who calls them, when, and under which locks.     *)
(*                                                                         *)
(* Abstractions.  activation_id and admission_epoch are always allocated   *)
(* together and compared together, so the pair is one incarnation number   *)
(* (inc).  Panel and window actions go through the same branches, so both  *)
(* are the kind "content".  Deadlines are left out: RuntimeHost lets any   *)
(* dispatched request reach its deadline.  A ResultActionLease (an Arc of  *)
(* an AtomicBool compared by pointer) is a token; the set of tokens not    *)
(* yet revoked is a variable of RuntimeHost and a parameter here.          *)
(***************************************************************************)
EXTENDS Integers, Sequences

CONSTANTS
    Plugins,      \* plugin ids
    Requests,     \* request numbers: the suffix of "public-request-..."
    Tokens,       \* identities of ResultActionLease values
    None,         \* Rust's Option::None
    MaxRetained   \* MAX_RETAINED_CONTEXTS

Kinds == {"command", "content", "result"}
Reasons == {"none", "cancelled", "expired"}

Candidates == [id : Requests, plugin : Plugins, gen : Nat, inc : Nat,
               kind : Kinds, pub : Tokens \cup {None}, lease : Tokens \cup {None}]
Contexts == [plugin : Plugins, gen : Nat, id : Requests]
RunningRequests == [req : Candidates, current : BOOLEAN, retirement : Reasons]
Tickets == [req : Candidates, reason : Reasons]
Queues == [gen : Nat, inc : Nat, pub : Tokens,
           running : RunningRequests \cup {None},
           waiting : Candidates \cup {None},
           rebuilding : BOOLEAN,
           ticket : Tickets \cup {None},
           issued : Seq(Contexts)]

ASSUME RetainedAssumption == MaxRetained \in Nat
ASSUME NoneAssumption ==
    /\ None \notin Candidates /\ None \notin RunningRequests
    /\ None \notin Tickets /\ None \notin Queues /\ None \notin Tokens

-----------------------------------------------------------------------------
(* Identities and liveness *)

Ctx(c) == [plugin |-> c.plugin, gen |-> c.gen, id |-> c.id]

\* Fault: the activation is not compared.
SameGeneration(q, c) == q.gen = c.gen

\* The (generation, activation, admission) comparison made before every admission.
SameIdentity(q, c) == q.gen = c.gen /\ q.inc = c.inc

\* PluginRequestOwner::live: only a result action can lose its owner.
Live(c, live) ==
    c.kind = "result" => c.lease \in live /\ (c.pub = None \/ c.pub \in live)

Runs(q, ctx) == q.running # None /\ Ctx(q.running.req) = ctx
Owes(q, ctx) == q.ticket # None /\ Ctx(q.ticket.req) = ctx
Waits(q, ctx) == q.waiting # None /\ Ctx(q.waiting) = ctx

\* context_status = Current, and the test with_current makes.
Current(q, ctx, live) ==
    Runs(q, ctx) /\ q.running.current /\ Live(q.running.req, live) /\ q.gen = ctx.gen

PendingTicket(q) == q.ticket # None /\ q.ticket.reason = "none"

\* Remember a context, forgetting the oldest ones beyond the retention cap.
Remember(issued, ctx) ==
    LET all == Append(issued, ctx)
    IN  IF Len(all) > MaxRetained
        THEN SubSeq(all, Len(all) - MaxRetained + 1, Len(all))
        ELSE all

\* Drop a context.  None is remembered twice: each reserved request has its own.
Forget(issued, ctx) ==
    IF \E i \in 1..Len(issued) : issued[i] = ctx
    THEN LET i == CHOOSE j \in 1..Len(issued) : issued[j] = ctx
         IN  SubSeq(issued, 1, i - 1) \o SubSeq(issued, i + 1, Len(issued))
    ELSE issued

NewQueue(gen, inc, pub) ==
    [gen |-> gen, inc |-> inc, pub |-> pub, running |-> None, waiting |-> None,
     rebuilding |-> FALSE, ticket |-> None, issued |-> << >>]

-----------------------------------------------------------------------------
(* Dispatch *)

CanDispatch(q, c) == q.running = None /\ ~q.rebuilding /\ SameIdentity(q, c)

\* Fault: the slot is filled without its retirement reason.
StartUnset(q, c) ==
    [q EXCEPT !.running = [req |-> c, current |-> TRUE, retirement |-> None]]
Start(q, c) ==
    [q EXCEPT !.running = [req |-> c, current |-> TRUE, retirement |-> "none"]]

\* dispatch() consumes its argument: a refused candidate is lost, not put back.
Dispatch(q, c) == IF CanDispatch(q, c) THEN Start(q, c) ELSE q

\* The tail of complete, cancel and runtime_replaced.
DispatchWaiting(q) ==
    IF q.rebuilding \/ q.waiting = None
    THEN q
    ELSE Dispatch([q EXCEPT !.waiting = None], q.waiting)

-----------------------------------------------------------------------------
(* Admission *)

SlotsFree(q) ==
    ~q.rebuilding /\ q.running = None /\ q.waiting = None /\ ~PendingTicket(q)

\* enqueue_reserved: what is checked before the queue is touched.
Accepts(q, c) ==
    /\ c.kind # "result"
    /\ SameIdentity(q, c)
    /\ c.kind = "content" => SlotsFree(q)

\* Fault: the running request keeps its currency.
SupersededLater(r) == r

\* A newer command takes the currency of the running request; a content or
\* result action is told that it was cancelled.
Superseded(r) ==
    [r EXCEPT !.current = FALSE,
              !.retirement = IF r.current /\ r.req.kind # "command"
                             THEN "cancelled" ELSE @]

\* enqueue_reserved after its checks: an unclaimed completion is cancelled by a
\* command and dropped by a content action, then the request runs or waits.
Enqueue(q, c) ==
    LET ticket == IF c.kind # "command" THEN None
                  ELSE IF PendingTicket(q) THEN [q.ticket EXCEPT !.reason = "cancelled"]
                  ELSE q.ticket
        known == [q EXCEPT !.ticket = ticket, !.issued = Remember(@, Ctx(c))]
    IN  CASE q.rebuilding -> [known EXCEPT !.waiting = c]
          [] ~q.rebuilding /\ q.running # None ->
                [known EXCEPT !.waiting = c, !.running = Superseded(@)]
          [] OTHER -> Dispatch(known, c)

AdmitsResult(q, c) == c.kind = "result" /\ SameIdentity(q, c) /\ SlotsFree(q)

\* admit_result_action once the registry claim succeeded.
AdmitResult(q, c) ==
    Start([q EXCEPT !.ticket = None, !.issued = Remember(@, Ctx(c))], c)

-----------------------------------------------------------------------------
(* Completion *)

Accepted(q, live) == q.running.current /\ Live(q.running.req, live)

\* Fault: the waiting request is not dispatched.
CompleteAlone(q, live) == [q EXCEPT !.running = None]

\* complete: free the slot, leave a ticket for a content or result action, and
\* dispatch the waiting request.
Complete(q, live) ==
    LET r == q.running
        ticket == IF r.req.kind = "command" THEN q.ticket
                  ELSE [req |-> r.req,
                        reason |-> IF Live(r.req, live) THEN r.retirement ELSE "expired"]
    IN  DispatchWaiting([q EXCEPT !.running = None, !.ticket = ticket])

\* claim_action_completion, discard_action_completion and the take in
\* finish_result_action all remove the ticket.
TakeTicket(q) == [q EXCEPT !.ticket = None]

-----------------------------------------------------------------------------
(* Retirement and cancellation of single requests *)

Retired(r, reason) == [r EXCEPT !.current = FALSE, !.retirement = reason]

RetireRunning(q, ctx) ==
    IF Runs(q, ctx) THEN [q EXCEPT !.running = Retired(@, "expired")] ELSE q
RetireTicket(q, ctx) ==
    IF Owes(q, ctx) THEN [q EXCEPT !.ticket.reason = "expired"] ELSE q

\* retire_context: the physical slot stays until completion.
RetireContext(q, ctx) == RetireTicket(RetireRunning(q, ctx), ctx)

\* retire_request_context: the same, and the publication is exchanged if the
\* request was found.
RetireRequest(q, ctx, fresh) ==
    IF Runs(q, ctx) \/ Owes(q, ctx)
    THEN [RetireContext(q, ctx) EXCEPT !.pub = fresh]
    ELSE q

\* cancel: a running result action keeps its slot, any other running request
\* gives it to the waiting one, a waiting request is dropped.
Cancel(q, ctx) ==
    CASE Runs(q, ctx) /\ q.running.req.kind = "result" ->
            [q EXCEPT !.running = Retired(@, "cancelled")]
      [] Runs(q, ctx) /\ q.running.req.kind # "result" ->
            DispatchWaiting([q EXCEPT !.running = None])
      [] ~Runs(q, ctx) /\ Waits(q, ctx) -> [q EXCEPT !.waiting = None]
      [] OTHER -> q

-----------------------------------------------------------------------------
(* Timeouts and Runtime replacement *)

\* Fault: the new context of the waiting request is not remembered.
RebindForgetting(q, gen) ==
    IF q.waiting = None THEN q
    ELSE [q EXCEPT !.waiting.gen = gen,
                   !.issued = Forget(@, Ctx(q.waiting))]

\* rebind_waiting_generation: the old context leaves the retained ones.
Rebind(q, gen) ==
    IF q.waiting = None THEN q
    ELSE LET new == [q.waiting EXCEPT !.gen = gen]
         IN  [q EXCEPT !.waiting = new,
                       !.issued = Remember(Forget(@, Ctx(q.waiting)), Ctx(new))]

\* Fault: the waiting request keeps its old generation.
ExpireWithoutRebind(q) ==
    [q EXCEPT !.running = None, !.gen = @ + 1, !.rebuilding = TRUE]

\* expire_timeouts for one queue whose running request reached its deadline.
\* The caller revokes the publication, which stays the queue's.
ExpireRunning(q) ==
    [Rebind([q EXCEPT !.running = None], q.gen + 1) EXCEPT
        !.gen = q.gen + 1, !.rebuilding = TRUE]

CanReplace(q, gen) == q.gen = gen /\ q.rebuilding /\ q.running = None

\* Fault: the queue keeps its old activation.
ReplacedKeepingActivation(q, inc, fresh) ==
    DispatchWaiting([q EXCEPT !.pub = fresh, !.rebuilding = FALSE])
\* Fault: the publication revoked by the timeout is not exchanged.
ReplacedKeepingPublication(q, inc, fresh) ==
    DispatchWaiting([q EXCEPT !.inc = inc, !.rebuilding = FALSE,
                              !.waiting = IF @ = None THEN None ELSE [@ EXCEPT !.inc = inc]])
\* Fault: the queue goes on rebuilding.
ReplacedStillRebuilding(q, inc, fresh) == [q EXCEPT !.inc = inc, !.pub = fresh]

\* runtime_replaced after its checks.
RuntimeReplaced(q, inc, fresh) ==
    DispatchWaiting([q EXCEPT !.inc = inc, !.pub = fresh, !.rebuilding = FALSE,
                              !.waiting = IF @ = None THEN None ELSE [@ EXCEPT !.inc = inc]])

-----------------------------------------------------------------------------
(* Whole-plugin operations *)

\* retire_plugin_requests: logical ownership goes, the running slot stays.
RetirePlugin(q, fresh) ==
    [q EXCEPT !.pub = fresh,
              !.ticket = IF @ = None THEN None ELSE [@ EXCEPT !.reason = "expired"],
              !.running = IF @ = None THEN None ELSE Retired(@, "expired"),
              !.waiting = None]

\* invalidate_plugin(None): generation, incarnation and ticket are kept.
Invalidate(q, fresh) ==
    [q EXCEPT !.pub = fresh, !.running = None, !.waiting = None, !.rebuilding = FALSE]

\* Faults: a generation must be new to the queue; the old activation stays.
CanActivateNewer(q, gen, inc) == gen > q.gen /\ inc # q.inc
ActivateGeneration(q, gen, inc, fresh) == [Invalidate(q, fresh) EXCEPT !.gen = gen]

\* invalidate_plugin(Some(next)).
CanActivate(q, gen, inc) == gen >= q.gen /\ inc # q.inc
Activate(q, gen, inc, fresh) ==
    [Invalidate(q, fresh) EXCEPT !.gen = gen, !.inc = inc]

-----------------------------------------------------------------------------
(* What the operations preserve in the queue of a plugin *)

\* The executing request belongs to the queue, and a content or result action
\* lost its currency exactly when it has a reason to report.
RunningOK(p, q) ==
    q.running # None =>
        /\ ~q.rebuilding
        /\ q.running.req.plugin = p
        /\ SameIdentity(q, q.running.req)
        /\ q.running.current => q.running.retirement = "none"
        /\ q.running.req.kind # "command" =>
              (q.running.current <=> q.running.retirement = "none")

\* Only a command waits, for the Runtime or behind another request, and it
\* already carries the identity under which it will be dispatched.
WaitingOK(p, q) ==
    q.waiting # None =>
        /\ q.running # None \/ q.rebuilding
        /\ q.waiting.kind = "command"
        /\ q.waiting.plugin = p
        /\ SameIdentity(q, q.waiting)

\* An unclaimed completion is that of a content or result action.
TicketOK(q) == q.ticket # None => q.ticket.req.kind # "command"

QueueOK(p, q) == RunningOK(p, q) /\ WaitingOK(p, q) /\ TicketOK(q)

\* The waiting request is the newest one remembered.
NewestOK(q) ==
    q.waiting # None /\ MaxRetained > 0 =>
        q.issued # << >> /\ q.issued[Len(q.issued)] = Ctx(q.waiting)
=============================================================================
