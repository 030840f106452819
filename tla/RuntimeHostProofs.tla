-------------------------- MODULE RuntimeHostProofs --------------------------
(***************************************************************************)
(* For every number of plugins, requests, tokens and timeout runs: the     *)
(* host's state is well typed, every queue stays one that dispatch() can   *)
(* serve, and the waiting request of a queue is the newest it knows; a     *)
(* captured publication that is live is its queue's own, a displayed       *)
(* result action is executed once, and a queue that admits publishes;      *)
(* identities agree, and each request lives the abstract lifecycle.        *)
(*                                                                         *)
(* HostInv, the first inductive invariant, is TypeOK with Sound for every  *)
(* queue (the lemmas of RequestQueueProofs keep it) and the plugin that a  *)
(* busy run of expire_runtime_timeouts works on.  It is split by the       *)
(* variables that actions change together, so that an action proves what   *)
(* it touches and Framed gives the rest.                                   *)
(*                                                                         *)
(* TokensInv, the second, says to whom publications, leases and request    *)
(* numbers belong.  It rests on three facts: a fresh token is one nothing  *)
(* refers to (FreshNew); a queue that keeps its publication keeps its      *)
(* identity, and holds nothing it did not hold (Moves); and a request      *)
(* number is given to one plugin (NumbersOK).                              *)
(*                                                                         *)
(* IdentityInv, the third, orders the identities of a plugin: those of its *)
(* bundle, of its prepared requests and of the result set it shows.  No    *)
(* activation id is ahead of the counter, an activation has one            *)
(* generation, and no identity is ahead of its queue.  GenerationsInv and  *)
(* PassesInv add, where nothing is purged, that generations never go back  *)
(* and that each rebuilding queue is left to one run of                    *)
(* expire_runtime_timeouts; AgreeInv, where no uninstall meets such a      *)
(* queue, that queue and bundle agree.  A step either publishes no         *)
(* identity (Aside, which keeps all four), or is one of eight actions.     *)
(*                                                                         *)
(* PlacesInv, the last, puts a request in one place of one plugin:         *)
(* reserved, waiting, executing, or answered and on its way.  Every step   *)
(* only lets requests age (Ages): they move on from place to place, and    *)
(* authority and the right to an answer are lost for good.  That keeps     *)
(* PlacesInv, and is a step of the abstract lifecycle, so the host         *)
(* implements it.                                                          *)
(***************************************************************************)
EXTENDS HostProperties, RequestQueueProofs, FiniteSetTheorems

QueuesOK ==
    /\ queue \in [Plugins -> Queues \cup {None}]
    /\ live \subseteq Tokens
    /\ \A p \in Plugins : queue[p] # None => Sound(p, queue[p])
ManagerOK ==
    /\ config \in [Plugins -> Configs]
    /\ bundle \in [Plugins -> Bundles \cup {None}]
    /\ op \in [Plugins -> Operations \cup {None}]
    /\ aborted \in [Plugins -> Bundles \cup {None}]
    /\ terminal \in BOOLEAN
    /\ nextInc \in Nat
RequestsOK ==
    /\ nextRequest \in Nat
    /\ prepared \subseteq Candidates
    /\ pending \in [Requests -> Routes \cup {None}]
ServiceOK ==
    /\ answers \subseteq Answers
    /\ finishing \subseteq Finishing
    /\ results \in ResultSets \cup {None}
    /\ delivered \subseteq Requests
WatchdogOK ==
    /\ pass \in [Watchers -> Passes]
    /\ \A w \in Watchers : pass[w].stage # "idle" => pass[w].cur \in Replacements
    /\ abandoned \subseteq Plugins
ClosedOK == closed \in {"open", "publications", "gate"}

HostInv == QueuesOK /\ ManagerOK /\ RequestsOK /\ ServiceOK /\ WatchdogOK /\ ClosedOK

\* The inductive invariant implies what the runs check.
LEMMA HostInvImplies == HostInv => TypeOK /\ QueueInv /\ NewestWaits
BY DEF HostInv, QueuesOK, ManagerOK, RequestsOK, ServiceOK, WatchdogOK, ClosedOK,
       TypeOK, QueueInv, NewestWaits, Queued, Sound

\* A step that leaves the variables of a part alone keeps the part.
LEMMA Framed ==
  ASSUME HostInv
  PROVE  /\ UNCHANGED scheduler => QueuesOK'
         /\ UNCHANGED manager => ManagerOK'
         /\ UNCHANGED <<nextRequest, prepared, pending>> => RequestsOK'
         /\ UNCHANGED service => ServiceOK'
         /\ UNCHANGED watchdog => WatchdogOK'
         /\ UNCHANGED closed => ClosedOK'
<1>1. UNCHANGED scheduler => QueuesOK'
  BY DEF HostInv, QueuesOK, scheduler
<1>2. UNCHANGED manager => ManagerOK'
  BY DEF HostInv, ManagerOK, manager
<1>3. UNCHANGED <<nextRequest, prepared, pending>> => RequestsOK'
  BY DEF HostInv, RequestsOK
<1>4. UNCHANGED service => ServiceOK'
  BY DEF HostInv, ServiceOK, service
<1>5. UNCHANGED watchdog => WatchdogOK'
  BY DEF HostInv, WatchdogOK, watchdog
<1>6. UNCHANGED closed => ClosedOK'
  BY DEF HostInv, ClosedOK
<1>. QED BY <1>1, <1>2, <1>3, <1>4, <1>5, <1>6

\* A new token is a token.
LEMMA FreshType == TokensLeft => Fresh \in Tokens
BY DEF TokensLeft, Fresh

\* Replacing the queue of one plugin by a sound one, or by none.
LEMMA SetQueueOK ==
  ASSUME QueuesOK, NEW p \in Plugins, NEW new, new # None => Sound(p, new),
         SetQueue(p, new)
  PROVE  QueuesOK'
<1>1. new \in Queues \cup {None}
  BY DEF Sound
<1>2. queue' \in [Plugins -> Queues \cup {None}]
  BY <1>1 DEF QueuesOK, SetQueue
<1>3. live' \subseteq Tokens
  <2>1. PubOf(new) \subseteq Tokens
    BY <1>1 DEF PubOf, Queues
  <2>. QED BY <2>1 DEF QueuesOK, SetQueue
<1>4. \A x \in Plugins : queue'[x] # None => Sound(x, queue'[x])
  BY DEF QueuesOK, SetQueue
<1>. QED BY <1>2, <1>3, <1>4 DEF QueuesOK

\* SetQueue happens only while a token is left.
LEMMA SetQueueFresh ==
  ASSUME NEW p, NEW new, SetQueue(p, new)
  PROVE  Fresh \in Tokens
BY FreshType DEF SetQueue

\* Pending submissions are dropped, never made up.
LEMMA KeepPendingType ==
  ASSUME NEW new \in [Requests -> Routes \cup {None}], KeepPending(new)
  PROVE  pending' \in [Requests -> Routes \cup {None}]
BY DEF KeepPending

\* KeepPending of what is pending.
LEMMA KeepPendingOK ==
  ASSUME RequestsOK, UNCHANGED nextRequest, prepared' \subseteq prepared, KeepPending(pending)
  PROVE  RequestsOK'
BY KeepPendingType DEF RequestsOK

\* A queue a request is submitted to, found or made, is sound.
LEMMA FoundSound ==
  ASSUME QueuesOK, NEW p \in Plugins, NEW gen \in Nat, NEW inc \in Nat, Fresh \in Tokens
  PROVE  Sound(p, IF queue[p] = None THEN NewQueue(gen, inc, Fresh) ELSE queue[p])
BY NewQueueSound DEF QueuesOK

\* Retiring or invalidating what may be there.
LEMMA RetireIfAnySound ==
  ASSUME NEW p, NEW q, q # None => Sound(p, q), NEW fresh \in Tokens
  PROVE  RetireIfAny(q, fresh) # None => Sound(p, RetireIfAny(q, fresh))
BY RetirePluginSound DEF RetireIfAny
LEMMA InvalidateIfAnySound ==
  ASSUME NEW p, NEW q, q # None => Sound(p, q), NEW fresh \in Tokens
  PROVE  InvalidateIfAny(q, fresh) # None => Sound(p, InvalidateIfAny(q, fresh))
BY InvalidateSound DEF InvalidateIfAny

-----------------------------------------------------------------------------
(* Initial state *)

LEMMA InitHostInv == Init => HostInv
<1> SUFFICES ASSUME Init PROVE HostInv
  OBVIOUS
<1>1. FirstPub \in [Plugins -> Tokens]
  BY TokensAssumption DEF FirstPub
<1>2. QueuesOK
  <2>1. \A p \in Plugins : queue[p] = NewQueue(1, 1, FirstPub[p]) /\ FirstPub[p] \in Tokens
    BY <1>1 DEF Init
  <2>2. \A p \in Plugins : Sound(p, queue[p])
    BY <2>1, NewQueueSound
  <2>3. queue \in [Plugins -> Queues \cup {None}]
    BY <2>2 DEF Init, Sound
  <2>4. live \subseteq Tokens
    BY <1>1 DEF Init
  <2>. QED BY <2>2, <2>3, <2>4 DEF QueuesOK
<1>3. ManagerOK
  BY DEF Init, ManagerOK, Configs, Statuses, Bundles
<1>4. RequestsOK
  BY DEF Init, RequestsOK
<1>5. ServiceOK
  BY DEF Init, ServiceOK
<1>6. WatchdogOK
  BY DEF Init, WatchdogOK, IdlePass, Passes, Stages
<1>7. ClosedOK
  BY DEF Init, ClosedOK
<1>. QED BY <1>2, <1>3, <1>4, <1>5, <1>6, <1>7 DEF HostInv

-----------------------------------------------------------------------------
(* Submissions *)

\* A reserved request is a candidate.
LEMMA NewCandidateType ==
  ASSUME nextRequest \in Requests, NEW p \in Plugins, NEW kind \in Kinds, NEW o,
         o.gen \in Nat, o.inc \in Nat, kind = "result" => o.pub \in Tokens \cup {None},
         NEW lease \in Tokens \cup {None}
  PROVE  /\ NewCandidate(p, kind, o, lease) \in Candidates
         /\ NewCandidate(p, kind, o, lease).id = nextRequest
         /\ NewCandidate(p, kind, o, lease).plugin = p
         /\ NewCandidate(p, kind, o, lease).gen = o.gen
         /\ NewCandidate(p, kind, o, lease).inc = o.inc
BY DEF NewCandidate, Candidates

LEMMA PrepareOK ==
  ASSUME HostInv, NEW p \in Plugins, Prepare(p)
  PROVE  HostInv'
<1> DEFINE b == bundle[p]
           pub == IF p \in ResultPlugins THEN queue[p].pub ELSE None
           c == NewCandidate(p, "command", b, None)
           route == [gen |-> b.gen, inc |-> b.inc, pub |-> pub, recovery |-> b.recovery,
                     bound |-> FALSE]
<1>1. b \in Bundles
  BY DEF HostInv, ManagerOK, Prepare, Confirmed
<1>2. c \in Candidates /\ c.id \in Requests
  BY <1>1, NewCandidateType DEF Prepare, Bundles, Kinds
<1>3. pub \in Tokens \cup {None}
  BY DEF HostInv, QueuesOK, Prepare, Queues
<1>4. route \in Routes
  BY <1>1, <1>3 DEF Bundles, Routes
<1>5. /\ nextRequest' = nextRequest + 1 /\ prepared' = prepared \cup {c}
      /\ pending' = [pending EXCEPT ![c.id] = route]
      /\ UNCHANGED <<scheduler, closed, manager, service, watchdog>>
  BY DEF Prepare
<1> HIDE DEF b, pub, c, route
<1>6. RequestsOK'
  BY <1>2, <1>4, <1>5 DEF HostInv, RequestsOK
<1>. QED BY <1>5, <1>6, Framed DEF HostInv

LEMMA SubmitOK ==
  ASSUME HostInv, NEW c \in prepared, Submit(c)
  PROVE  HostInv'
<1> DEFINE p == c.plugin
           q == IF queue[p] = None THEN NewQueue(c.gen, c.inc, Fresh) ELSE queue[p]
           left == IF q.rebuilding THEN [pending EXCEPT ![c.id] = None] ELSE pending
<1>1. c \in Candidates /\ p \in Plugins /\ c.gen \in Nat /\ c.inc \in Nat
  BY DEF HostInv, RequestsOK, Candidates
<1>2. /\ prepared' = prepared \ {c} /\ KeepPending(left)
      /\ \/ GateOpen /\ Accepts(q, c) /\ SetQueue(p, Enqueue(q, c))
         \/ UNCHANGED scheduler
      /\ UNCHANGED <<closed, manager, nextRequest, service, watchdog>>
  BY DEF Submit
<1>3. QueuesOK'
  <2>1. CASE UNCHANGED scheduler
    BY <2>1, Framed
  <2>2. CASE Accepts(q, c) /\ SetQueue(p, Enqueue(q, c))
    <3>1. Fresh \in Tokens
      BY <2>2, SetQueueFresh
    <3>2. Sound(p, q)
      BY <1>1, <3>1, FoundSound DEF HostInv
    <3>3. Sound(p, Enqueue(q, c))
      BY <1>1, <2>2, <3>2, EnqueueSound
    <3>. QED BY <1>1, <2>2, <3>3, SetQueueOK DEF HostInv
  <2>. QED BY <1>2, <2>1, <2>2
<1>4. left \in [Requests -> Routes \cup {None}]
  BY DEF HostInv, RequestsOK
<1>5. RequestsOK'
  BY <1>2, <1>4, KeepPendingType DEF HostInv, RequestsOK
<1>. QED BY <1>2, <1>3, <1>5, Framed DEF HostInv

LEMMA BindRouteOK ==
  ASSUME HostInv, NEW p \in Plugins, BindRoute(p)
  PROVE  HostInv'
<1> DEFINE q == queue[p]
           route == [gen |-> q.gen, inc |-> q.inc, pub |-> q.pub, recovery |-> FALSE,
                     bound |-> TRUE]
<1>1. q \in Queues /\ q.running \in RunningRequests
  BY DEF HostInv, QueuesOK, BindRoute, Unbound, Queues
<1>2. route \in Routes
  BY <1>1 DEF Queues, Routes
<1>3. /\ pending' = [pending EXCEPT ![q.running.req.id] = route]
      /\ UNCHANGED <<scheduler, closed, manager, nextRequest, prepared, service, watchdog>>
  BY DEF BindRoute
<1>4. RequestsOK'
  BY <1>2, <1>3 DEF HostInv, RequestsOK
<1>. QED BY <1>3, <1>4, Framed DEF HostInv

LEMMA AbortUnboundOK ==
  ASSUME HostInv, NEW p \in Plugins, AbortUnbound(p)
  PROVE  HostInv'
<1>1. Sound(p, queue[p])
  BY DEF HostInv, QueuesOK, AbortUnbound, Unbound
<1>2. Sound(p, Cancel(queue[p], Ctx(queue[p].running.req)))
  BY <1>1, CancelSound
<1>3. QueuesOK'
  BY <1>2, SetQueueOK DEF HostInv, AbortUnbound
<1>4. RequestsOK'
  BY KeepPendingOK DEF HostInv, AbortUnbound
<1>. QED BY <1>3, <1>4, Framed DEF HostInv, AbortUnbound

LEMMA RecoverRuntimeOK ==
  ASSUME HostInv, NEW c \in prepared, RecoverRuntime(c)
  PROVE  HostInv'
<1>1. c \in Candidates /\ c.plugin \in Plugins /\ c.id \in Requests
  BY DEF HostInv, RequestsOK, Candidates
<1>2. UNCHANGED <<scheduler, closed, config, op, aborted, terminal, nextInc,
                  nextRequest, service, watchdog>>
  BY DEF RecoverRuntime
<1>3. ManagerOK'
  BY <1>1, <1>2 DEF HostInv, ManagerOK, RecoverRuntime, Confirmed, Bundles
<1>4. prepared' \subseteq prepared
  BY DEF RecoverRuntime
<1>5. RequestsOK'
  <2>1. [pending EXCEPT ![c.id].recovery = FALSE] \in [Requests -> Routes \cup {None}]
    BY <1>1 DEF HostInv, RequestsOK, RecoverRuntime, Routes
  <2>2. pending' \in [Requests -> Routes \cup {None}]
    BY <2>1, KeepPendingType DEF HostInv, RequestsOK, RecoverRuntime
  <2>. QED BY <1>2, <1>4, <2>2 DEF HostInv, RequestsOK
<1>. QED BY <1>2, <1>3, <1>5, Framed DEF HostInv

LEMMA DropPreparedOK ==
  ASSUME HostInv, NEW c \in prepared, DropPrepared(c)
  PROVE  HostInv'
<1>1. RequestsOK'
  BY KeepPendingOK DEF HostInv, DropPrepared
<1>. QED BY <1>1, Framed DEF HostInv, DropPrepared

-----------------------------------------------------------------------------
(* Content and result actions *)

LEMMA ContentActionOK ==
  ASSUME HostInv, NEW p \in Plugins, ContentAction(p)
  PROVE  HostInv'
<1> DEFINE c == NewCandidate(p, "content", bundle[p], None)
           q == IF queue[p] = None THEN NewQueue(c.gen, c.inc, Fresh) ELSE queue[p]
<1>1. bundle[p] \in Bundles
  BY DEF HostInv, ManagerOK, ContentAction, Confirmed
<1>2. c \in Candidates /\ c.plugin = p /\ c.gen \in Nat /\ c.inc \in Nat
  BY <1>1, NewCandidateType DEF ContentAction, Bundles, Kinds
<1>3. Accepts(q, c) /\ SetQueue(p, Enqueue(q, c))
  BY DEF ContentAction
<1>4. nextRequest' = nextRequest + 1
      /\ UNCHANGED <<closed, manager, prepared, pending, service, watchdog>>
  BY DEF ContentAction
<1> HIDE DEF c
<1>5. Fresh \in Tokens
  BY <1>3, SetQueueFresh
<1>6. Sound(p, q)
  BY <1>2, <1>5, FoundSound DEF HostInv
<1>7. Sound(p, Enqueue(q, c))
  BY <1>2, <1>3, <1>6, EnqueueSound
<1>8. QueuesOK'
  BY <1>3, <1>7, SetQueueOK DEF HostInv
<1>9. RequestsOK'
  BY <1>4 DEF HostInv, RequestsOK
<1>. QED BY <1>4, <1>8, <1>9, Framed DEF HostInv

LEMMA ReserveResultOK ==
  ASSUME HostInv, ReserveResult
  PROVE  HostInv'
<1> DEFINE c == NewCandidate(results.plugin, "result", results, results.lease)
<1>1. results \in ResultSets
  BY DEF HostInv, ServiceOK, ReserveResult
<1>2. c \in Candidates
  BY <1>1, NewCandidateType DEF ReserveResult, ResultSets, Kinds
<1>3. /\ nextRequest' = nextRequest + 1 /\ prepared' = prepared \cup {c}
      /\ UNCHANGED <<scheduler, closed, manager, pending, service, watchdog>>
  BY DEF ReserveResult
<1>4. RequestsOK'
  BY <1>2, <1>3 DEF HostInv, RequestsOK
<1>. QED BY <1>3, <1>4, Framed DEF HostInv

LEMMA AdmitResultActionOK ==
  ASSUME HostInv, NEW c \in prepared, AdmitResultAction(c)
  PROVE  HostInv'
<1>1. c \in Candidates /\ c.plugin \in Plugins
  BY DEF HostInv, RequestsOK, Candidates
<1>2. /\ prepared' = prepared \ {c} /\ KeepPending(pending)
      /\ UNCHANGED <<closed, manager, nextRequest, answers, finishing, delivered, watchdog>>
  BY DEF AdmitResultAction
<1>3. CASE UNCHANGED <<scheduler, results>>
  <2>1. QueuesOK' /\ ServiceOK'
    BY <1>2, <1>3, Framed DEF service
  <2>2. RequestsOK'
    BY <1>2, KeepPendingOK DEF HostInv
  <2>. QED BY <1>2, <2>1, <2>2, Framed DEF HostInv
<1>4. CASE /\ ResultOwner(c.plugin, c) /\ AdmitsResult(queue[c.plugin], c) /\ Claimable(c)
           /\ SetQueue(c.plugin, AdmitResult(queue[c.plugin], c))
           /\ results' = [results EXCEPT !.claim = "inflight"]
  <2>1. Sound(c.plugin, queue[c.plugin])
    BY <1>1, <1>4 DEF HostInv, QueuesOK, ResultOwner, PublicationCurrent
  <2>2. Sound(c.plugin, AdmitResult(queue[c.plugin], c))
    BY <1>1, <1>4, <2>1, AdmitResultSound
  <2>3. QueuesOK'
    BY <1>1, <1>4, <2>2, SetQueueOK DEF HostInv
  <2>4. results' \in ResultSets
    BY <1>4 DEF HostInv, ServiceOK, Claimable, ResultSets
  <2>5. ServiceOK'
    BY <1>2, <2>4 DEF HostInv, ServiceOK
  <2>6. RequestsOK'
    BY <1>2, KeepPendingOK DEF HostInv
  <2>. QED BY <1>2, <2>3, <2>5, <2>6, Framed DEF HostInv
<1>. QED BY <1>3, <1>4 DEF AdmitResultAction

-----------------------------------------------------------------------------
(* Completion *)

LEMMA CompleteRequestOK ==
  ASSUME HostInv, NEW p \in Plugins, CompleteRequest(p)
  PROVE  HostInv'
<1> DEFINE r == queue[p].running
           s == pending[r.req.id]
           answer == [plugin |-> p, id |-> r.req.id, gen |-> s.gen, inc |-> s.inc,
                      pub |-> s.pub]
           finish == [req |-> r.req, accepted |-> Accepted(queue[p], live)]
<1>1. queue[p] # None /\ r # None /\ ~Unbound(p)
  BY DEF CompleteRequest
<1>2. Sound(p, queue[p]) /\ r \in RunningRequests
  BY <1>1 DEF HostInv, QueuesOK, Queues
<1>3. r.req \in Candidates /\ r.req.id \in Requests /\ r.current \in BOOLEAN
  BY <1>2 DEF RunningRequests, Candidates
<1>4. QueuesOK'
  BY <1>1, <1>2, CompleteSound, SetQueueOK DEF HostInv, CompleteRequest
<1>5. RequestsOK'
  BY KeepPendingOK DEF HostInv, CompleteRequest
<1>6. r.req.kind = "command" /\ p \in ResultPlugins => answer \in Answers
  <2>1. r.req.kind = "command" /\ p \in ResultPlugins => s \in Routes
    BY <1>1, <1>3 DEF Unbound, HostInv, RequestsOK
  <2>. QED BY <1>3, <2>1 DEF Answers, Routes
<1>7. finish \in Finishing
  BY <1>3 DEF Finishing, Accepted, Live
<1>8. ServiceOK'
  <2>1. answers' \subseteq Answers
    <3>1. \/ answers' = answers
          \/ r.req.kind = "command" /\ p \in ResultPlugins /\ answers' = answers \cup {answer}
      BY DEF CompleteRequest
    <3>. QED BY <1>6, <3>1 DEF HostInv, ServiceOK
  <2>2. finishing' \subseteq Finishing
    <3>1. finishing' = finishing \/ finishing' = finishing \cup {finish}
      BY DEF CompleteRequest
    <3>. QED BY <1>7, <3>1 DEF HostInv, ServiceOK
  <2>3. delivered' \subseteq Requests /\ results' = results
    BY <1>3 DEF CompleteRequest, HostInv, ServiceOK
  <2>. QED BY <2>1, <2>2, <2>3 DEF HostInv, ServiceOK
<1>. QED BY <1>4, <1>5, <1>8, Framed DEF HostInv, CompleteRequest

LEMMA SettleContentOK ==
  ASSUME HostInv, NEW p \in Plugins, SettleContent(p)
  PROVE  HostInv'
<1>1. Sound(p, queue[p])
  BY DEF HostInv, QueuesOK, SettleContent
<1>2. queue[p].ticket.req.id \in Requests
  BY <1>1 DEF Sound, Queues, Tickets, Candidates, SettleContent
<1>3. QueuesOK'
  BY <1>1, TakeTicketSound, SetQueueOK DEF HostInv, SettleContent
<1>4. ServiceOK'
  BY <1>2 DEF HostInv, ServiceOK, SettleContent
<1>. QED BY <1>3, <1>4, Framed DEF HostInv, SettleContent

\* A shown result set and its fresh lease are well typed.
LEMMA ShowOK ==
  ASSUME NEW p \in Plugins, NEW o, o.gen \in Nat, o.inc \in Nat,
         o.pub \in Tokens \cup {None}, Show(p, o)
  PROVE  results' \in ResultSets /\ Fresh \in Tokens
<1>1. Fresh \in Tokens
  BY FreshType DEF Show
<1>. QED BY <1>1 DEF Show, ResultSets

LEMMA PublishAnswerOK ==
  ASSUME HostInv, NEW a \in answers, PublishAnswer(a)
  PROVE  HostInv'
<1>1. /\ a \in Answers /\ a.plugin \in Plugins /\ a.gen \in Nat /\ a.inc \in Nat
      /\ a.pub \in Tokens \cup {None} /\ a.id \in Requests
  BY DEF HostInv, ServiceOK, Answers
<1>2. answers' = answers \ {a} /\ UNCHANGED <<queue, finishing>>
  BY DEF PublishAnswer
<1>3. CASE UNCHANGED <<live, results, delivered>>
  <2>1. QueuesOK' /\ ServiceOK'
    BY <1>2, <1>3 DEF HostInv, QueuesOK, ServiceOK
  <2>. QED BY <2>1, Framed DEF HostInv, PublishAnswer
<1>4. CASE /\ Show(a.plugin, a) /\ live' = (live \ OldLease) \cup {Fresh}
           /\ delivered' = delivered \cup {a.id}
  <2>1. results' \in ResultSets /\ Fresh \in Tokens
    BY <1>1, <1>4, ShowOK
  <2>2. QueuesOK' /\ ServiceOK'
    BY <1>1, <1>2, <1>4, <2>1 DEF HostInv, QueuesOK, ServiceOK
  <2>. QED BY <2>2, Framed DEF HostInv, PublishAnswer
<1>. QED BY <1>3, <1>4 DEF PublishAnswer

LEMMA FinishResultActionOK ==
  ASSUME HostInv, NEW f \in finishing, FinishResultAction(f)
  PROVE  HostInv'
<1> DEFINE p == f.req.plugin
<1>1. /\ f \in Finishing /\ p \in Plugins /\ f.req.gen \in Nat /\ f.req.inc \in Nat
      /\ f.req.pub \in Tokens \cup {None} /\ f.req.id \in Requests
  BY DEF HostInv, ServiceOK, Finishing, Candidates
<1>2. queue' \in [Plugins -> Queues \cup {None}]
      /\ \A x \in Plugins : queue'[x] # None => Sound(x, queue'[x])
  <2>1. queue[p] # None => Sound(p, TakeTicket(queue[p]))
    BY <1>1, TakeTicketSound DEF HostInv, QueuesOK
  <2>2. \/ queue' = queue
        \/ queue[p] # None /\ queue' = [queue EXCEPT ![p] = TakeTicket(queue[p])]
    BY DEF FinishResultAction
  <2>. QED BY <1>1, <2>1, <2>2 DEF HostInv, QueuesOK, Sound
<1>3. live' \subseteq Tokens /\ results' \in ResultSets \cup {None} /\ delivered' \subseteq Requests
  <2>1. CASE /\ Show(p, f.req) /\ live' = (live \ OldLease) \cup {Fresh}
             /\ delivered' = delivered \cup {f.req.id}
    <3>1. results' \in ResultSets /\ Fresh \in Tokens
      BY <1>1, <2>1, ShowOK
    <3>. QED BY <1>1, <2>1, <3>1 DEF HostInv, QueuesOK, ServiceOK
  <2>2. CASE /\ results' = IF results # None /\ results.lease = f.req.lease
                           THEN [results EXCEPT !.claim = "consumed"] ELSE results
             /\ UNCHANGED <<live, delivered>>
    BY <2>2 DEF HostInv, QueuesOK, ServiceOK, ResultSets
  <2>. QED BY <2>1, <2>2 DEF FinishResultAction
<1>4. finishing' = finishing \ {f}
      /\ UNCHANGED <<closed, manager, nextRequest, prepared, pending, answers, watchdog>>
  BY DEF FinishResultAction
<1>5. QueuesOK'
  BY <1>2, <1>3 DEF QueuesOK
<1>6. ServiceOK'
  BY <1>3, <1>4 DEF HostInv, ServiceOK
<1>. QED BY <1>4, <1>5, <1>6, Framed DEF HostInv

LEMMA DismissResultsOK ==
  ASSUME HostInv, DismissResults
  PROVE  HostInv'
<1>1. QueuesOK' /\ ServiceOK'
  BY DEF HostInv, QueuesOK, ServiceOK, DismissResults
<1>. QED BY <1>1, Framed DEF HostInv, DismissResults

LEMMA RevokeInFlightOK ==
  ASSUME HostInv, RevokeInFlight
  PROVE  HostInv'
<1>1. QueuesOK'
  BY DEF HostInv, QueuesOK, RevokeInFlight
<1>. QED BY <1>1, Framed DEF HostInv, RevokeInFlight

-----------------------------------------------------------------------------
(* Retirements *)

LEMMA RetireContentOK ==
  ASSUME HostInv, NEW p \in Plugins, RetireContent(p)
  PROVE  HostInv'
<1>1. Sound(p, queue[p])
  BY DEF HostInv, QueuesOK, RetireContent
<1>2. \E ctx : SetQueue(p, RetireContext(queue[p], ctx))
  BY DEF RetireContent
<1>3. QueuesOK'
  BY <1>1, <1>2, RetireContextSound, SetQueueOK DEF HostInv
<1>. QED BY <1>3, Framed DEF HostInv, RetireContent

LEMMA CancelRequestOK ==
  ASSUME HostInv, NEW p \in Plugins, CancelRequest(p)
  PROVE  HostInv'
<1>1. Sound(p, queue[p])
  BY DEF HostInv, QueuesOK, CancelRequest
<1>2. \E ctx : SetQueue(p, Cancel(queue[p], ctx))
  BY DEF CancelRequest
<1>3. QueuesOK'
  BY <1>1, <1>2, CancelSound, SetQueueOK DEF HostInv
<1>4. RequestsOK'
  BY KeepPendingOK DEF HostInv, CancelRequest
<1>. QED BY <1>3, <1>4, Framed DEF HostInv, CancelRequest

LEMMA RetireServiceOK ==
  ASSUME HostInv, NEW p \in Plugins, RetireService(p)
  PROVE  HostInv'
<1>1. Sound(p, queue[p])
  BY DEF HostInv, QueuesOK, RetireService
<1>2. \/ \E ctx : SetQueue(p, RetireRequest(queue[p], ctx, Fresh))
      \/ SetQueue(p, [queue[p] EXCEPT !.pub = Fresh])
  BY DEF RetireService
<1>3. QueuesOK'
  <2>1. Fresh \in Tokens
    BY <1>2, SetQueueFresh
  <2>2. Sound(p, [queue[p] EXCEPT !.pub = Fresh])
    BY <1>1, <2>1, PublicationSound
  <2>3. \A ctx : Sound(p, RetireRequest(queue[p], ctx, Fresh))
    BY <1>1, <2>1, RetireRequestSound
  <2>. QED BY <1>2, <2>2, <2>3, SetQueueOK DEF HostInv
<1>. QED BY <1>3, Framed DEF HostInv, RetireService

-----------------------------------------------------------------------------
(* Management operations *)

\* A reservation is an operation.
LEMMA ReservedType ==
  ASSUME NEW kind \in OpKinds, NEW gen \in Nat, NEW inc \in Nat, NEW by \in Watchers \cup {None}
  PROVE  Reserved(kind, gen, inc, by) \in Operations
BY DEF Reserved, Operations

LEMMA BeginChangeOK ==
  ASSUME HostInv, NEW p \in Plugins, NEW kind \in {"change", "disable"}, BeginChange(p, kind)
  PROVE  HostInv'
<1> DEFINE o == Reserved(kind, bundle[p].gen, bundle[p].inc, None)
<1>1. o \in Operations
  BY ReservedType DEF HostInv, ManagerOK, BeginChange, Bundles, OpKinds
<1>2. ManagerOK'
  BY <1>1 DEF HostInv, ManagerOK, BeginChange
<1>. QED BY <1>2, Framed DEF HostInv, BeginChange

\* The next generation is a number.
LEMMA NextGenType == ASSUME ManagerOK, NEW p \in Plugins PROVE NextGen(p) \in Nat
BY DEF ManagerOK, NextGen, Configs

LEMMA BeginActivationOK ==
  ASSUME HostInv, NEW p \in Plugins, NEW kind \in {"enable", "update"}, BeginActivation(p, kind)
  PROVE  HostInv'
<1> DEFINE o == Reserved(kind, NextGen(p), nextInc, None)
<1>1. o \in Operations
  BY ReservedType, NextGenType DEF HostInv, ManagerOK, OpKinds
<1>2. ManagerOK'
  BY <1>1 DEF HostInv, ManagerOK, BeginActivation
<1>. QED BY <1>2, Framed DEF HostInv, BeginActivation

LEMMA BeginFaultOK ==
  ASSUME HostInv, NEW p \in Plugins, BeginFault(p)
  PROVE  HostInv'
<1> DEFINE o == Reserved("fault", bundle[p].gen, bundle[p].inc, None)
<1>1. o \in Operations
  BY ReservedType DEF HostInv, ManagerOK, BeginFault, Bundles, OpKinds
<1>2. ManagerOK'
  BY <1>1 DEF HostInv, ManagerOK, BeginFault
<1>. QED BY <1>2, Framed DEF HostInv, BeginFault

LEMMA BeginUninstallOK ==
  ASSUME HostInv, NEW p \in Plugins, NEW kind \in {"uninstall", "purge"},
         BeginUninstall(p, kind)
  PROVE  HostInv'
<1> DEFINE o == Reserved(kind, config[p].gen, 0, None)
           new == IF kind = "purge" THEN None
                  ELSE InvalidateIfAny(RetireIfAny(queue[p], Fresh), Fresh)
<1>1. o \in Operations
  BY ReservedType DEF HostInv, ManagerOK, Configs, OpKinds
<1>2. ManagerOK'
  BY <1>1 DEF HostInv, ManagerOK, BeginUninstall
<1>3. SetQueue(p, new)
  BY DEF BeginUninstall
<1>4. new # None => Sound(p, new)
  <2>1. Fresh \in Tokens
    BY <1>3, SetQueueFresh
  <2>2. RetireIfAny(queue[p], Fresh) # None => Sound(p, RetireIfAny(queue[p], Fresh))
    BY <2>1, RetireIfAnySound DEF HostInv, QueuesOK
  <2>. QED BY <2>1, <2>2, InvalidateIfAnySound
<1> HIDE DEF new
<1>5. QueuesOK'
  BY <1>3, <1>4, SetQueueOK DEF HostInv
<1>6. RequestsOK'
  BY KeepPendingOK DEF HostInv, BeginUninstall
<1>. QED BY <1>2, <1>5, <1>6, Framed DEF HostInv, BeginUninstall

LEMMA CommitChangeOK ==
  ASSUME HostInv, NEW p \in Plugins, CommitChange(p)
  PROVE  HostInv'
<1>1. SetQueue(p, RetireIfAny(queue[p], Fresh))
  BY DEF CommitChange
<1>2. QueuesOK'
  BY <1>1, SetQueueFresh, RetireIfAnySound, SetQueueOK DEF HostInv, QueuesOK
<1>3. ManagerOK'
  BY DEF HostInv, ManagerOK, CommitChange
<1>4. RequestsOK'
  BY KeepPendingOK DEF HostInv, CommitChange
<1>. QED BY <1>2, <1>3, <1>4, Framed DEF HostInv, CommitChange

LEMMA CommitDisableOK ==
  ASSUME HostInv, NEW p \in Plugins, CommitDisable(p)
  PROVE  HostInv'
<1> DEFINE new == InvalidateIfAny(RetireIfAny(queue[p], Fresh), Fresh)
<1>1. SetQueue(p, new)
  BY DEF CommitDisable
<1>2. new # None => Sound(p, new)
  <2>1. Fresh \in Tokens
    BY <1>1, SetQueueFresh
  <2>2. RetireIfAny(queue[p], Fresh) # None => Sound(p, RetireIfAny(queue[p], Fresh))
    BY <2>1, RetireIfAnySound DEF HostInv, QueuesOK
  <2>. QED BY <2>1, <2>2, InvalidateIfAnySound
<1> HIDE DEF new
<1>3. QueuesOK'
  BY <1>1, <1>2, SetQueueOK DEF HostInv
<1>4. ManagerOK'
  BY DEF HostInv, ManagerOK, CommitDisable, Configs, Statuses
<1>5. RequestsOK'
  BY KeepPendingOK DEF HostInv, CommitDisable
<1>. QED BY <1>3, <1>4, <1>5, Framed DEF HostInv, CommitDisable

\* Publishing a fault disable keeps all but the timeout runs, which it leaves alone.
LEMMA PublishFaultOK ==
  ASSUME HostInv, NEW p \in Plugins, PublishFault(p)
  PROVE  QueuesOK' /\ ManagerOK' /\ RequestsOK' /\ ServiceOK' /\ ClosedOK'
<1>1. SetQueue(p, InvalidateIfAny(queue[p], Fresh))
  BY DEF PublishFault
<1>2. QueuesOK'
  BY <1>1, SetQueueFresh, InvalidateIfAnySound, SetQueueOK DEF HostInv, QueuesOK
<1>3. ManagerOK'
  BY DEF HostInv, ManagerOK, PublishFault, Configs, Statuses
<1>4. RequestsOK'
  BY KeepPendingOK DEF HostInv, PublishFault
<1>. QED BY <1>2, <1>3, <1>4, Framed DEF PublishFault

LEMMA CommitFaultOK ==
  ASSUME HostInv, NEW p \in Plugins, CommitFault(p)
  PROVE  HostInv'
BY PublishFaultOK, Framed DEF HostInv, CommitFault

LEMMA CommitActivationOK ==
  ASSUME HostInv, NEW p \in Plugins, CommitActivation(p)
  PROVE  HostInv'
<1> DEFINE o == op[p]
           q == RetireIfAny(queue[p], Fresh)
           new == IF q = None THEN NewQueue(o.gen, o.inc, Fresh)
                  ELSE Activate(q, o.gen, o.inc, Fresh)
<1>1. o \in Operations /\ o.gen \in Nat /\ o.inc \in Nat
  BY DEF HostInv, ManagerOK, CommitActivation, Operations
<1>2. SetQueue(p, new) \/ SetQueue(p, q)
  BY DEF CommitActivation
<1>3. Fresh \in Tokens
  BY <1>2, SetQueueFresh
<1>4. q # None => Sound(p, q)
  BY <1>3, RetireIfAnySound DEF HostInv, QueuesOK
<1>5. Sound(p, new)
  BY <1>1, <1>3, <1>4, NewQueueSound, ActivateSound
<1>6. QueuesOK'
  <2> HIDE DEF new, q
  <2>. QED BY <1>2, <1>4, <1>5, SetQueueOK DEF HostInv
<1>7. ManagerOK'
  <2>1. UNCHANGED <<aborted, nextInc>>
    BY DEF CommitActivation
  <2>2. terminal' \in BOOLEAN
    BY DEF HostInv, ManagerOK, CommitActivation
  <2>3. op' \in [Plugins -> Operations \cup {None}]
    <3>1. op' = [op EXCEPT ![p] = None] \/ op' = [op EXCEPT ![p].kind = "lost"]
      BY DEF CommitActivation
    <3>. QED BY <1>1, <3>1 DEF HostInv, ManagerOK, Operations, OpKinds
  <2>4. bundle' \in [Plugins -> Bundles \cup {None}]
    <3>1. [gen |-> o.gen, inc |-> o.inc, recovery |-> FALSE] \in Bundles
      BY <1>1 DEF Bundles
    <3>2. \/ bundle' = bundle \/ bundle' = [bundle EXCEPT ![p] = None]
          \/ bundle' = [bundle EXCEPT ![p] = [gen |-> o.gen, inc |-> o.inc, recovery |-> FALSE]]
      BY DEF CommitActivation
    <3>. QED BY <3>1, <3>2 DEF HostInv, ManagerOK
  <2>5. config' \in [Plugins -> Configs]
    BY <1>1 DEF HostInv, ManagerOK, CommitActivation, Configs, Statuses
  <2>. QED BY <2>1, <2>2, <2>3, <2>4, <2>5 DEF HostInv, ManagerOK
<1>8. RequestsOK'
  BY KeepPendingOK DEF HostInv, CommitActivation
<1>. QED BY <1>6, <1>7, <1>8, Framed DEF HostInv, CommitActivation

LEMMA CommitUninstallOK ==
  ASSUME HostInv, NEW p \in Plugins, CommitUninstall(p)
  PROVE  HostInv'
<1>1. ManagerOK'
  BY DEF HostInv, ManagerOK, CommitUninstall, Configs, Statuses
<1>. QED BY <1>1, Framed DEF HostInv, CommitUninstall

LEMMA NotCommittedOK ==
  ASSUME HostInv, NEW p \in Plugins, NotCommitted(p)
  PROVE  HostInv'
<1>1. ManagerOK'
  BY DEF HostInv, ManagerOK, NotCommitted
<1>. QED BY <1>1, Framed DEF HostInv, NotCommitted

LEMMA UnknownOutcomeOK ==
  ASSUME HostInv, NEW p \in Plugins, UnknownOutcome(p)
  PROVE  HostInv'
<1>1. ManagerOK'
  BY DEF HostInv, ManagerOK, UnknownOutcome, Operations, OpKinds
<1>2. QueuesOK'
  <2>1. CASE SetQueue(p, RetireIfAny(queue[p], Fresh))
    BY <2>1, SetQueueFresh, RetireIfAnySound, SetQueueOK DEF HostInv, QueuesOK
  <2>2. CASE UNCHANGED scheduler
    BY <2>2, Framed
  <2>. QED BY <2>1, <2>2 DEF UnknownOutcome
<1>3. RequestsOK'
  BY KeepPendingOK DEF HostInv, UnknownOutcome
<1>. QED BY <1>1, <1>2, <1>3, Framed DEF HostInv, UnknownOutcome

LEMMA ReleaseUninstallOK ==
  ASSUME HostInv, NEW p \in Plugins, ReleaseUninstall(p)
  PROVE  HostInv'
<1>1. ManagerOK'
  BY DEF HostInv, ManagerOK, ReleaseUninstall
<1>. QED BY <1>1, Framed DEF HostInv, ReleaseUninstall

LEMMA ReactivateAbortedOK ==
  ASSUME HostInv, NEW p \in Plugins, ReactivateAborted(p)
  PROVE  HostInv'
<1> DEFINE b == aborted[p]
           new == IF queue[p] = None THEN NewQueue(b.gen, nextInc, Fresh)
                  ELSE Activate(queue[p], b.gen, nextInc, Fresh)
           reactivated == [gen |-> b.gen, inc |-> nextInc, recovery |-> TRUE]
<1>1. b \in Bundles /\ b.gen \in Nat /\ nextInc \in Nat
  BY DEF HostInv, ManagerOK, ReactivateAborted, Bundles
<1>2. /\ aborted' = [aborted EXCEPT ![p] = None] /\ nextInc' = nextInc + 1
      /\ UNCHANGED <<closed, config, op, terminal, nextRequest, prepared, service, watchdog>>
      /\ \/ SetQueue(p, new) /\ bundle' = [bundle EXCEPT ![p] = reactivated]
         \/ UNCHANGED <<scheduler, bundle>>
  BY DEF ReactivateAborted
<1>3. reactivated \in Bundles
  BY <1>1 DEF Bundles
<1>4. ManagerOK'
  <2> HIDE DEF b, new, reactivated
  <2>1. bundle' = bundle \/ bundle' = [bundle EXCEPT ![p] = reactivated]
    BY <1>2
  <2>. QED BY <1>1, <1>2, <1>3, <2>1 DEF HostInv, ManagerOK
<1>5. QueuesOK'
  <2>1. CASE SetQueue(p, new)
    <3>1. Fresh \in Tokens
      BY <2>1, SetQueueFresh
    <3>2. Sound(p, new)
      BY <1>1, <3>1, NewQueueSound, ActivateSound DEF HostInv, QueuesOK
    <3> HIDE DEF new
    <3>. QED BY <2>1, <3>2, SetQueueOK DEF HostInv
  <2>2. CASE UNCHANGED scheduler
    BY <2>2, Framed
  <2>. QED BY <1>2, <2>1, <2>2
<1>6. RequestsOK'
  BY KeepPendingOK DEF HostInv, ReactivateAborted
<1>. QED BY <1>2, <1>4, <1>5, <1>6, Framed DEF HostInv

LEMMA ClosePublicationsOK ==
  ASSUME HostInv, ClosePublications
  PROVE  HostInv'
<1>1. QueuesOK'
  BY DEF HostInv, QueuesOK, ClosePublications
<1>2. ClosedOK'
  BY DEF ClosedOK, ClosePublications
<1>. QED BY <1>1, <1>2, Framed DEF HostInv, ClosePublications

LEMMA CloseGateOK ==
  ASSUME HostInv, CloseGate
  PROVE  HostInv'
<1>1. ClosedOK'
  BY DEF ClosedOK, CloseGate
<1>. QED BY <1>1, Framed DEF HostInv, CloseGate

-----------------------------------------------------------------------------
(* Runs of expire_runtime_timeouts *)

\* A busy run works on a plugin.
LEMMA BusyRun ==
  ASSUME WatchdogOK, NEW w \in Watchers, pass[w].stage # "idle"
  PROVE  /\ pass[w] \in Passes /\ pass[w].cur \in Replacements
         /\ pass[w].cur.plugin \in Plugins /\ pass[w].cur.gen \in Nat
         /\ pass[w].gen \in Nat /\ pass[w].inc \in Nat
BY DEF WatchdogOK, Passes, Replacements

\* The ways a run moves on.
LEMMA GotoOK ==
  ASSUME WatchdogOK, NEW w \in Watchers, pass[w].stage # "idle", NEW stage \in Stages,
         Goto(w, stage)
  PROVE  WatchdogOK'
BY DEF WatchdogOK, Goto, Passes

LEMMA IdlePassType ==
  ASSUME NEW todo \in SUBSET Replacements
  PROVE  [IdlePass EXCEPT !.todo = todo] \in Passes /\ IdlePass \in Passes
         /\ [IdlePass EXCEPT !.todo = todo].stage = "idle" /\ IdlePass.stage = "idle"
BY DEF IdlePass, Passes, Stages

LEMMA FinishedOK ==
  ASSUME WatchdogOK, NEW w \in Watchers, Finished(w)
  PROVE  WatchdogOK'
<1> DEFINE next == [IdlePass EXCEPT !.todo = pass[w].todo]
<1>1. next \in Passes /\ next.stage = "idle"
  BY IdlePassType DEF WatchdogOK, Passes
<1>2. pass' = [pass EXCEPT ![w] = next] /\ abandoned' = abandoned
  BY DEF Finished
<1> HIDE DEF next
<1>. QED BY <1>1, <1>2 DEF WatchdogOK

LEMMA AbandonOK ==
  ASSUME WatchdogOK, NEW w \in Watchers, pass[w].stage # "idle", Abandon(w)
  PROVE  WatchdogOK'
<1>1. IdlePass \in Passes /\ IdlePass.stage = "idle"
  BY DEF IdlePass, Passes, Stages
<1>2. abandoned' \subseteq Plugins
  BY BusyRun DEF WatchdogOK, Abandon, Passes, Replacements
<1>. QED BY <1>1, <1>2 DEF WatchdogOK, Abandon

LEMMA ExpireOK ==
  ASSUME HostInv, NEW w \in Watchers, Expire(w)
  PROVE  HostInv'
<1>1. PICK due \in SUBSET {p \in Plugins : queue[p] # None /\ queue[p].running # None} :
        /\ queue' = [p \in Plugins |-> IF p \in due THEN ExpireRunning(queue[p]) ELSE queue[p]]
        /\ live' = live \ {queue[p].pub : p \in due}
        /\ pass' = [pass EXCEPT ![w].todo =
              {[plugin |-> p, gen |-> queue[p].gen, inc |-> queue[p].inc,
                fault |-> Accepted(queue[p], live)] : p \in due}]
        /\ abandoned' = abandoned \ due
  BY DEF Expire
<1>2. \A p \in due : Sound(p, queue[p]) /\ Sound(p, ExpireRunning(queue[p]))
  BY ExpireSound DEF HostInv, QueuesOK
<1>3. \A p \in Plugins : queue'[p] # None => Sound(p, queue'[p])
  BY <1>1, <1>2 DEF HostInv, QueuesOK
<1>4. QueuesOK'
  BY <1>1, <1>2, <1>3 DEF HostInv, QueuesOK, Sound
<1>5. \A p \in due : /\ queue[p].gen \in Nat /\ queue[p].inc \in Nat
                     /\ Accepted(queue[p], live) \in BOOLEAN
  BY <1>1, <1>2 DEF Sound, Queues, Accepted, RunningRequests, Live
<1> DEFINE todo == {[plugin |-> p, gen |-> queue[p].gen, inc |-> queue[p].inc,
                     fault |-> Accepted(queue[p], live)] : p \in due}
<1>6. todo \in SUBSET Replacements
  BY <1>5 DEF Replacements
<1>7. WatchdogOK'
  <2>1. pass' = [pass EXCEPT ![w].todo = todo] /\ abandoned' \subseteq abandoned
    BY <1>1
  <2> HIDE DEF todo
  <2>. QED BY <1>6, <2>1 DEF HostInv, WatchdogOK, Passes
<1>8. RequestsOK'
  BY KeepPendingOK DEF HostInv, Expire
<1>. QED BY <1>4, <1>7, <1>8, Framed DEF HostInv, Expire

LEMMA TakeReplacementOK ==
  ASSUME HostInv, NEW w \in Watchers, TakeReplacement(w)
  PROVE  HostInv'
<1>1. PICK r \in pass[w].todo, third \in BOOLEAN :
        pass' = [pass EXCEPT ![w] =
            [todo |-> pass[w].todo \ {r}, cur |-> r, gen |-> r.gen, inc |-> r.inc,
             stage |-> IF third THEN "fault" ELSE "replace"]]
  BY DEF TakeReplacement
<1> DEFINE next == [todo |-> pass[w].todo \ {r}, cur |-> r, gen |-> r.gen, inc |-> r.inc,
                    stage |-> IF third THEN "fault" ELSE "replace"]
<1>2. r \in Replacements /\ pass[w].todo \in SUBSET Replacements
  BY DEF HostInv, WatchdogOK, Passes
<1>3. next \in Passes /\ next.cur = r
  BY <1>2 DEF Passes, Stages, Replacements
<1>4. pass' = [pass EXCEPT ![w] = next] /\ abandoned' = abandoned
  BY <1>1 DEF TakeReplacement
<1> HIDE DEF next
<1>5. WatchdogOK'
  BY <1>2, <1>3, <1>4 DEF HostInv, WatchdogOK
<1>. QED BY <1>5, Framed DEF HostInv, TakeReplacement

LEMMA PassReserveFaultOK ==
  ASSUME HostInv, NEW w \in Watchers, PassReserveFault(w)
  PROVE  HostInv'
<1> DEFINE p == pass[w].cur.plugin
           o == Reserved("fault", pass[w].gen, pass[w].inc, w)
<1>1. /\ pass[w].stage # "idle"
      /\ p \in Plugins /\ pass[w].gen \in Nat /\ pass[w].inc \in Nat
  BY BusyRun DEF HostInv, PassReserveFault
<1>2. o \in Operations
  BY <1>1, ReservedType DEF OpKinds
<1>3. /\ op' = op \/ op' = [op EXCEPT ![p] = o]
      /\ Abandon(w) \/ \E stage \in Stages : Goto(w, stage)
      /\ UNCHANGED <<scheduler, closed, config, bundle, aborted, terminal, nextInc,
                     nextRequest, prepared, pending, service>>
  BY DEF PassReserveFault, Stages
<1> HIDE DEF o
<1>4. ManagerOK'
  BY <1>1, <1>2, <1>3 DEF HostInv, ManagerOK
<1>5. WatchdogOK'
  BY <1>1, <1>3, AbandonOK, GotoOK DEF HostInv
<1>. QED BY <1>3, <1>4, <1>5, Framed DEF HostInv

LEMMA PassCommitFaultOK ==
  ASSUME HostInv, NEW w \in Watchers, PassCommitFault(w)
  PROVE  HostInv'
<1>1. pass[w].stage # "idle" /\ pass[w].cur.plugin \in Plugins
  BY BusyRun DEF HostInv, PassCommitFault
<1>2. PublishFault(pass[w].cur.plugin) /\ (Finished(w) \/ Abandon(w))
  BY DEF PassCommitFault
<1>3. WatchdogOK'
  BY <1>1, <1>2, FinishedOK, AbandonOK DEF HostInv
<1>. QED BY <1>1, <1>2, <1>3, PublishFaultOK DEF HostInv

LEMMA PassReserveReplaceOK ==
  ASSUME HostInv, NEW w \in Watchers, PassReserveReplace(w)
  PROVE  HostInv'
<1> DEFINE p == pass[w].cur.plugin
           o == Reserved("replace", pass[w].cur.gen + 1, nextInc, w)
<1>1. /\ pass[w].stage # "idle"
      /\ p \in Plugins /\ pass[w].cur.gen + 1 \in Nat /\ nextInc \in Nat
  BY BusyRun DEF HostInv, ManagerOK, PassReserveReplace
<1>2. o \in Operations
  BY <1>1, ReservedType DEF OpKinds
<1>3. /\ op' = op \/ op' = [op EXCEPT ![p] = o]
      /\ nextInc' = nextInc \/ nextInc' = nextInc + 1
      /\ \E stage \in Stages : Goto(w, stage)
      /\ UNCHANGED <<scheduler, closed, config, bundle, aborted, terminal,
                     nextRequest, prepared, pending, service>>
  BY DEF PassReserveReplace, Stages
<1> HIDE DEF o
<1>4. ManagerOK'
  BY <1>1, <1>2, <1>3 DEF HostInv, ManagerOK
<1>5. WatchdogOK'
  BY <1>1, <1>3, GotoOK DEF HostInv
<1>. QED BY <1>3, <1>4, <1>5, Framed DEF HostInv

LEMMA PassCommitReplaceOK ==
  ASSUME HostInv, NEW w \in Watchers, PassCommitReplace(w)
  PROVE  HostInv'
<1> DEFINE p == pass[w].cur.plugin
           o == op[p]
<1>1. pass[w].stage # "idle" /\ p \in Plugins /\ pass[w].cur \in Replacements
  BY BusyRun DEF HostInv, PassCommitReplace
<1>2. o \in Operations /\ o.gen \in Nat /\ o.inc \in Nat
  BY <1>1 DEF HostInv, ManagerOK, PassCommitReplace, Operations
<1>3. ManagerOK'
  BY <1>1, <1>2 DEF HostInv, ManagerOK, PassCommitReplace, Configs, Bundles
<1>4. WatchdogOK'
  <2> DEFINE next == [pass[w] EXCEPT !.stage = "create", !.gen = o.gen, !.inc = o.inc]
  <2>1. pass[w] \in Passes
    BY DEF HostInv, WatchdogOK
  <2>2. next \in Passes /\ next.cur = pass[w].cur
    BY <1>2, <2>1 DEF Passes, Stages
  <2>3. pass' = [pass EXCEPT ![w] = next] /\ abandoned' = abandoned
    BY DEF PassCommitReplace
  <2> HIDE DEF next
  <2>. QED BY <1>1, <2>2, <2>3 DEF HostInv, WatchdogOK
<1>. QED BY <1>3, <1>4, Framed DEF HostInv, PassCommitReplace

LEMMA PassNotCommittedOK ==
  ASSUME HostInv, NEW w \in Watchers, PassNotCommitted(w)
  PROVE  HostInv'
<1>1. pass[w].stage # "idle"
  BY DEF PassNotCommitted
<1>2. ManagerOK'
  BY DEF HostInv, ManagerOK, PassNotCommitted
<1>3. WatchdogOK'
  BY <1>1, GotoOK, AbandonOK DEF HostInv, PassNotCommitted, Stages
<1>. QED BY <1>2, <1>3, Framed DEF HostInv, PassNotCommitted

LEMMA PassCreateOK ==
  ASSUME HostInv, NEW w \in Watchers, PassCreate(w)
  PROVE  HostInv'
<1>1. WatchdogOK'
  BY GotoOK DEF HostInv, PassCreate, Stages
<1>. QED BY <1>1, Framed DEF HostInv, PassCreate

LEMMA PassFinishOK ==
  ASSUME HostInv, NEW w \in Watchers, PassFinish(w)
  PROVE  HostInv'
<1> DEFINE p == pass[w].cur.plugin
           new == RuntimeReplaced(queue[p], pass[w].inc, Fresh)
<1>1. pass[w].stage # "idle" /\ p \in Plugins /\ pass[w].inc \in Nat
  BY BusyRun DEF HostInv, PassFinish
<1>2. QueuesOK'
  <2>1. CASE UNCHANGED scheduler
    BY <2>1, Framed
  <2>2. CASE queue[p] # None /\ CanReplace(queue[p], pass[w].gen) /\ SetQueue(p, new)
    <3>1. Fresh \in Tokens
      BY <2>2, SetQueueFresh
    <3>2. Sound(p, queue[p])
      BY <1>1, <2>2 DEF HostInv, QueuesOK
    <3>3. Sound(p, new)
      BY <1>1, <2>2, <3>1, <3>2, ReplacedSound
    <3> HIDE DEF new
    <3>. QED BY <1>1, <2>2, <3>3, SetQueueOK DEF HostInv
  <2>. QED BY <2>1, <2>2 DEF PassFinish
<1>3. WatchdogOK'
  <2>1. Finished(w) \/ Goto(w, "mark") \/ Abandon(w)
    BY DEF PassFinish
  <2>. QED BY <1>1, <2>1, FinishedOK, GotoOK, AbandonOK DEF HostInv, Stages
<1>4. RequestsOK'
  BY KeepPendingOK DEF HostInv, PassFinish
<1>. QED BY <1>2, <1>3, <1>4, Framed DEF HostInv, PassFinish

-----------------------------------------------------------------------------
(* The invariant is inductive *)

LEMMA NextHostInv ==
  ASSUME HostInv, [Next]_vars
  PROVE  HostInv'
<1>1. CASE Submissions
  BY <1>1, PrepareOK, SubmitOK, BindRouteOK, AbortUnboundOK, RecoverRuntimeOK,
     DropPreparedOK, ContentActionOK, ReserveResultOK, AdmitResultActionOK
     DEF Submissions
<1>2. CASE Completions
  BY <1>2, CompleteRequestOK, SettleContentOK, PublishAnswerOK, FinishResultActionOK,
     DismissResultsOK, RevokeInFlightOK DEF Completions
<1>3. CASE Retirements
  BY <1>3, RetireContentOK, CancelRequestOK, RetireServiceOK DEF Retirements
<1>4. CASE Management
  BY <1>4, BeginChangeOK, BeginActivationOK, BeginUninstallOK, BeginFaultOK,
     CommitChangeOK, CommitDisableOK, CommitFaultOK, CommitActivationOK,
     CommitUninstallOK, NotCommittedOK, UnknownOutcomeOK, ReleaseUninstallOK,
     ReactivateAbortedOK, ClosePublicationsOK, CloseGateOK DEF Management, Commits
<1>5. CASE Timeouts
  BY <1>5, ExpireOK, TakeReplacementOK, PassReserveFaultOK, PassCommitFaultOK,
     PassReserveReplaceOK, PassCommitReplaceOK, PassNotCommittedOK, PassCreateOK,
     PassFinishOK DEF Timeouts, PassStep
<1>6. CASE UNCHANGED vars
  BY <1>6, Framed DEF HostInv, vars, scheduler, manager, service, watchdog
<1>. QED BY <1>1, <1>2, <1>3, <1>4, <1>5, <1>6 DEF Next

\* The inductive invariant holds in every reachable state of the host.
THEOREM HostInvariant == Spec => []HostInv
<1>1. Init => HostInv
  BY InitHostInv
<1>2. HostInv /\ [Next]_vars => HostInv'
  BY NextHostInv
<1>. QED BY <1>1, <1>2, PTL DEF Spec

\* The state of the scheduler, the manager, the service and the timeout runs
\* stays well typed: a None is never read as a queue, a bundle or an operation.
THEOREM TypeCorrect == Spec => []TypeOK
<1>1. HostInv => TypeOK
  BY HostInvImplies
<1>. QED BY <1>1, HostInvariant, PTL

\* Every queue stays one its operations can work with: the executing and the
\* waiting request belong to the plugin and carry its identity.
THEOREM QueuesInvariant == Spec => []QueueInv
<1>1. HostInv => QueueInv
  BY HostInvImplies
<1>. QED BY <1>1, HostInvariant, PTL

\* The request that waits is the newest the queue knows, whatever timeouts,
\* rebindings, cancellations and retirements did.
THEOREM NewestInvariant == Spec => []NewestWaits
<1>1. HostInv => NewestWaits
  BY HostInvImplies
<1>. QED BY <1>1, HostInvariant, PTL

-----------------------------------------------------------------------------
(* Publications, leases and routes *)

\* What a queue holds: the numbers of commands, and the result actions that run
\* or are owed an answer.
CommandsIn(q) ==
    {r \in Requests :
        /\ q # None
        /\ \/ q.running # None /\ q.running.req.kind = "command" /\ q.running.req.id = r
           \/ q.waiting # None /\ q.waiting.id = r}
RunsIn(q) ==
    IF q = None THEN {} ELSE {c \in {r.req : r \in {q.running} \ {None}} : c.kind = "result"}
OwedIn(q) ==
    IF q = None THEN {} ELSE {c \in {t.req : t \in {q.ticket} \ {None}} : c.kind = "result"}
ResultsIn(q) == RunsIn(q) \cup OwedIn(q)

CommandsOf(p) ==
    CommandsIn(queue[p]) \cup {c.id : c \in {d \in prepared : d.plugin = p /\ d.kind = "command"}}
ResultsHeld ==
    {c \in prepared \cup {f.req : f \in finishing} : c.kind = "result"}
    \cup (UNION {ResultsIn(queue[p]) : p \in Plugins})
Executing ==
    {f.req : f \in finishing} \cup (UNION {RunsIn(queue[p]) : p \in Plugins})

\* A publication that is captured and live is that of the queue.
Routed(q, tokens, o) ==
    o.pub # None /\ o.pub \in tokens => q # None /\ q.pub = o.pub /\ SameIdentity(q, o)

\* A request number is given to one request of one plugin.
NumbersOK ==
    /\ \A p \in Plugins : \A r \in CommandsOf(p) : r < nextRequest
    /\ \A p, x \in Plugins : p # x => CommandsOf(p) \cap CommandsOf(x) = {}
RoutesOK ==
    /\ \A p \in Plugins : \A r \in CommandsOf(p) :
          pending[r] # None => Routed(queue[p], live, pending[r])
    /\ \A c \in ResultsHeld : Routed(queue[c.plugin], live, c)
    /\ \A a \in answers : Routed(queue[a.plugin], live, a)
    /\ results # None => Routed(queue[results.plugin], live, results)
ClaimsOK ==
    /\ \A f \in finishing : f.req.kind = "result"
    /\ \A c, d \in Executing : c.lease = d.lease => c = d
    /\ results # None /\ results.claim = "available" => \A c \in Executing : c.lease # results.lease
PublishedOK ==
    /\ \A p, x \in Plugins :
          p # x /\ queue[p] # None /\ queue[x] # None => queue[p].pub # queue[x].pub
    /\ results # None => \A p \in Plugins : queue[p] # None => queue[p].pub # results.lease
    /\ closed = "open" =>
          \A p \in Plugins : queue[p] # None /\ ~queue[p].rebuilding => queue[p].pub \in live

TokensInv == NumbersOK /\ RoutesOK /\ ClaimsOK /\ PublishedOK

-----------------------------------------------------------------------------
(* Moves of one queue *)

\* A queue keeps its publication with its identity, or gets a fresh one.
Exchanged(q, new, fresh) ==
    \/ new = None
    \/ new # None /\ new.pub = fresh
    \/ /\ new # None /\ q # None /\ new.pub = q.pub
       /\ new.gen = q.gen /\ new.inc = q.inc /\ new.rebuilding = q.rebuilding

\* What new holds, q held.
Brings(q, new) ==
    /\ new.running # None =>
          \/ q.running # None /\ new.running.req = q.running.req
          \/ q.waiting # None /\ new.running.req.kind = "command"
                              /\ new.running.req.id = q.waiting.id
    /\ new.waiting # None => q.waiting # None /\ new.waiting.id = q.waiting.id
    /\ new.ticket # None =>
          \/ q.ticket # None /\ new.ticket.req = q.ticket.req
          \/ q.running # None /\ new.ticket.req = q.running.req

Holds(q, new) ==
    /\ CommandsIn(new) \subseteq CommandsIn(q)
    /\ RunsIn(new) \subseteq RunsIn(q)
    /\ ResultsIn(new) \subseteq ResultsIn(q)

Moves(q, new, fresh) == Exchanged(q, new, fresh) /\ Holds(q, new)

LEMMA BringsHolds ==
  ASSUME NEW q, q # None, NEW new, new # None, Brings(q, new)
  PROVE  Holds(q, new)
<1>1. CommandsIn(new) \subseteq CommandsIn(q)
  BY DEF CommandsIn, Brings
<1>2. RunsIn(new) \subseteq RunsIn(q)
  BY DEF RunsIn, Brings
<1>3. ResultsIn(new) \subseteq ResultsIn(q)
  BY DEF ResultsIn, RunsIn, OwedIn, Brings
<1>. QED BY <1>1, <1>2, <1>3 DEF Holds


\* No queue holds nothing.
LEMMA NoneHolds == \A q : Holds(q, None)
  BY DEF Holds, CommandsIn, RunsIn, OwedIn, ResultsIn

LEMMA NewHolds ==
  ASSUME NEW q, NEW gen, NEW inc, NEW pub
  PROVE  Holds(q, NewQueue(gen, inc, pub))
  BY DEF Holds, CommandsIn, RunsIn, OwedIn, ResultsIn, NewQueue

\* dispatch() moves the waiting request into the slot.
LEMMA DispatchWaitingMoves ==
  ASSUME NEW p, NEW q \in Queues, Fits(p, q), q.running = None
  PROVE  LET d == DispatchWaiting(q)
         IN  /\ Brings(q, d)
             /\ d.pub = q.pub /\ d.gen = q.gen /\ d.inc = q.inc /\ d.rebuilding = q.rebuilding
<1>1. CASE q.waiting = None \/ q.rebuilding
  BY <1>1 DEF DispatchWaiting, Brings
<1>2. CASE q.waiting # None /\ ~q.rebuilding
  <2> DEFINE r == [req |-> q.waiting, current |-> TRUE, retirement |-> "none"]
             free == [q EXCEPT !.waiting = None]
             e == [free EXCEPT !.running = r]
  <2>1. DispatchWaiting(q) = e
    BY <1>2, DispatchLosesNothing DEF Start
  <2>2. /\ e.running = r /\ e.waiting = None /\ e.ticket = q.ticket
        /\ e.pub = q.pub /\ e.gen = q.gen /\ e.inc = q.inc /\ e.rebuilding = q.rebuilding
    BY DEF Queues
  <2>3. r.req = q.waiting
    OBVIOUS
  <2>4. q.waiting.kind = "command"
    BY <1>2 DEF Fits
  <2> HIDE DEF e, r
  <2>5. Brings(q, e)
    BY <1>2, <2>2, <2>3, <2>4 DEF Brings
  <2>. QED BY <2>1, <2>2, <2>5
<1>. QED BY <1>1, <1>2


Same(q, new) ==
    new.pub = q.pub /\ new.gen = q.gen /\ new.inc = q.inc /\ new.rebuilding = q.rebuilding

\* A queue that keeps its publication and identity has moved only what it held.
LEMMA SameMoves ==
  ASSUME NEW p, NEW q, Sound(p, q), NEW new, Sound(p, new), Same(q, new), Holds(q, new),
         NEW fresh
  PROVE  Moves(q, new, fresh)
<1>1. q # None /\ new # None
  BY NoneAssumption DEF Sound
<1>. QED BY <1>1 DEF Moves, Exchanged, Same

LEMMA FreshMoves ==
  ASSUME NEW p, NEW q, NEW new, Sound(p, new), Holds(q, new), NEW fresh, new.pub = fresh
  PROVE  Moves(q, new, fresh)
<1>1. new # None
  BY NoneAssumption DEF Sound
<1>. QED BY <1>1 DEF Moves, Exchanged

LEMMA SoundThere == \A p, q : Sound(p, q) => q \in Queues /\ q # None
  BY NoneAssumption DEF Sound

LEMMA RetireSlotMoves ==
  ASSUME NEW p, NEW q, Sound(p, q), q.running # None, NEW reason \in Reasons \ {"none"}
  PROVE  LET e == [q EXCEPT !.running = Retired(q.running, reason)]
         IN  Holds(q, e) /\ Same(q, e)
<1> DEFINE r == Retired(q.running, reason)
           e == [q EXCEPT !.running = r]
<1>1. q \in Queues /\ q # None
  BY SoundThere
<1>2. r.req = q.running.req
  BY <1>1, RetiredFacts DEF Queues
<1>3. e # None
  BY RetireSlotSound, SoundThere
<1> HIDE DEF r
<1>4. /\ e.running = r /\ e.waiting = q.waiting /\ e.ticket = q.ticket /\ Same(q, e)
  BY <1>1 DEF Queues, Same
<1> HIDE DEF e
<1>5. Brings(q, e)
  BY <1>2, <1>4 DEF Brings
<1>. QED BY <1>1, <1>3, <1>4, <1>5, BringsHolds DEF e, r

LEMMA CompleteMoves ==
  ASSUME NEW p, NEW q, NEW tokens, Sound(p, q), q.running # None
  PROVE  Holds(q, Complete(q, tokens)) /\ Same(q, Complete(q, tokens))
<1> DEFINE r == q.running
           ticket == IF r.req.kind = "command" THEN q.ticket
                     ELSE [req |-> r.req,
                           reason |-> IF Live(r.req, tokens) THEN r.retirement ELSE "expired"]
           e == [q EXCEPT !.running = None, !.ticket = ticket]
           d == DispatchWaiting(e)
<1>1. q \in Queues /\ q # None /\ r \in RunningRequests
  BY SoundThere DEF Queues
<1>2. /\ ticket \in Tickets \cup {None}
      /\ ticket = q.ticket \/ ticket.req = r.req
  <2>1. CASE r.req.kind = "command"
    BY <1>1, <2>1 DEF Queues
  <2>2. CASE r.req.kind # "command"
    BY <1>1, <2>2 DEF RunningRequests, Tickets, Reasons
  <2>. QED BY <2>1, <2>2
<1>3. Complete(q, tokens) = d /\ d # None
  BY CompleteSound, SoundThere DEF Complete
<1> HIDE DEF ticket
<1>4. /\ e \in Queues /\ e.running = None /\ e.ticket = ticket /\ e.waiting = q.waiting
      /\ Same(q, e)
  BY <1>1, <1>2 DEF Queues, Same
<1> HIDE DEF e
<1>5. Fits(p, e)
  BY <1>4 DEF Sound, QueueOK, WaitingOK, Fits, SameIdentity, Same
<1>6. Brings(e, d) /\ Same(e, d)
  BY <1>4, <1>5, DispatchWaitingMoves DEF Same
<1> HIDE DEF d
<1>7. Brings(q, d)
  BY <1>1, <1>2, <1>4, <1>6 DEF Brings
<1>8. Same(q, d)
  BY <1>4, <1>6 DEF Same
<1>. QED BY <1>1, <1>3, <1>7, <1>8, BringsHolds

LEMMA TakeTicketMoves ==
  ASSUME NEW p, NEW q, Sound(p, q)
  PROVE  Holds(q, TakeTicket(q)) /\ Same(q, TakeTicket(q))
<1> DEFINE e == TakeTicket(q)
<1>1. q \in Queues /\ q # None /\ e # None
  BY TakeTicketSound, SoundThere
<1>2. /\ e.running = q.running /\ e.ticket = None /\ e.waiting = q.waiting /\ Same(q, e)
  BY <1>1 DEF Queues, TakeTicket, Same
<1> HIDE DEF e
<1>3. Brings(q, e)
  BY <1>2 DEF Brings
<1>. QED BY <1>1, <1>2, <1>3, BringsHolds DEF e

LEMMA RetireContextMoves ==
  ASSUME NEW p, NEW q, NEW ctx, Sound(p, q)
  PROVE  Holds(q, RetireContext(q, ctx)) /\ Same(q, RetireContext(q, ctx))
<1> DEFINE m == RetireRunning(q, ctx)
           e == RetireTicket(m, ctx)
<1>1. Sound(p, m) /\ Holds(q, m) /\ Same(q, m)
  <2>1. CASE Runs(q, ctx)
    BY <2>1, RetireSlotMoves, RetireSlotSound DEF RetireRunning, Runs, Reasons
  <2>2. CASE ~Runs(q, ctx)
    BY <2>2 DEF RetireRunning, Holds, Same
  <2>. QED BY <2>1, <2>2
<1> HIDE DEF m
<1>2. Holds(m, e) /\ Same(m, e)
  <2>1. CASE Owes(m, ctx)
    <3> DEFINE t == [m.ticket EXCEPT !.reason = "expired"]
               n == [m EXCEPT !.ticket = t]
    <3>1. m \in Queues /\ m # None /\ m.ticket \in Tickets
      BY <1>1, <2>1, SoundThere DEF Queues, Owes
    <3>2. t.req = m.ticket.req
      BY <3>1, TicketFacts DEF Reasons
    <3>3. e = n /\ e # None
      BY <1>1, <2>1, RetireTicketSound, SoundThere DEF RetireTicket
    <3> HIDE DEF t
    <3>4. /\ n.running = m.running /\ n.ticket = t /\ n.waiting = m.waiting /\ Same(m, n)
      BY <3>1 DEF Queues, Same
    <3> HIDE DEF n, e
    <3>5. Brings(m, n)
      BY <2>1, <3>2, <3>4 DEF Brings, Owes
    <3>. QED BY <3>1, <3>3, <3>4, <3>5, BringsHolds
  <2>2. CASE ~Owes(m, ctx)
    BY <2>2 DEF RetireTicket, Holds, Same
  <2>. QED BY <2>1, <2>2
<1>3. RetireContext(q, ctx) = e
  BY DEF RetireContext, m
<1> HIDE DEF e
<1>. QED BY <1>1, <1>2, <1>3 DEF Holds, Same

\* Of a queue that changes, only its publication.
LEMMA PublicationMoves ==
  ASSUME NEW p, NEW q, Sound(p, q), NEW fresh \in Tokens
  PROVE  Holds(q, [q EXCEPT !.pub = fresh]) /\ [q EXCEPT !.pub = fresh].pub = fresh
<1> DEFINE e == [q EXCEPT !.pub = fresh]
<1>1. q \in Queues /\ q # None /\ e # None
  BY PublicationSound, SoundThere
<1>2. e.running = q.running /\ e.ticket = q.ticket /\ e.waiting = q.waiting /\ e.pub = fresh
  BY <1>1 DEF Queues
<1> HIDE DEF e
<1>3. Brings(q, e)
  BY <1>2 DEF Brings
<1>. QED BY <1>1, <1>2, <1>3, BringsHolds DEF e

LEMMA RetireRequestMoves ==
  ASSUME NEW p, NEW q, NEW ctx, Sound(p, q), NEW fresh \in Tokens
  PROVE  Moves(q, RetireRequest(q, ctx, fresh), fresh)
<1> DEFINE m == RetireContext(q, ctx)
           e == [m EXCEPT !.pub = fresh]
<1>1. Sound(p, m) /\ Holds(q, m)
  BY RetireContextSound, RetireContextMoves
<1>2. Sound(p, RetireRequest(q, ctx, fresh))
  BY RetireRequestSound
<1>3. CASE Runs(q, ctx) \/ Owes(q, ctx)
  <2>1. Holds(m, e) /\ e.pub = fresh
    BY <1>1, PublicationMoves
  <2>2. RetireRequest(q, ctx, fresh) = e
    BY <1>3 DEF RetireRequest
  <2> HIDE DEF m, e
  <2>3. Holds(q, e)
    BY <1>1, <2>1 DEF Holds
  <2>. QED BY <1>2, <2>1, <2>2, <2>3, FreshMoves
<1>4. CASE ~(Runs(q, ctx) \/ Owes(q, ctx))
  <2>1. RetireRequest(q, ctx, fresh) = q
    BY <1>4 DEF RetireRequest
  <2>2. Same(q, q) /\ Holds(q, q)
    BY DEF Same, Holds
  <2>. QED BY <2>1, <2>2, SameMoves
<1>. QED BY <1>3, <1>4

LEMMA CancelMoves ==
  ASSUME NEW p, NEW q, NEW ctx, Sound(p, q)
  PROVE  Holds(q, Cancel(q, ctx)) /\ Same(q, Cancel(q, ctx))
<1>0. q \in Queues /\ q # None /\ Cancel(q, ctx) # None
  BY CancelSound, SoundThere
<1>1. CASE Runs(q, ctx) /\ q.running.req.kind = "result"
  <2>1. Cancel(q, ctx) = [q EXCEPT !.running = Retired(q.running, "cancelled")]
    BY <1>1 DEF Cancel
  <2>. QED BY <1>1, <2>1, RetireSlotMoves DEF Runs, Reasons
<1>2. CASE Runs(q, ctx) /\ q.running.req.kind # "result"
  <2> DEFINE e == [q EXCEPT !.running = None]
             d == DispatchWaiting(e)
  <2>1. /\ e \in Queues /\ e.running = None /\ e.ticket = q.ticket /\ e.waiting = q.waiting
        /\ Same(q, e)
    BY <1>0 DEF Queues, Same
  <2>2. Cancel(q, ctx) = d
    BY <1>2 DEF Cancel
  <2> HIDE DEF e
  <2>3. Fits(p, e)
    BY <1>2, <2>1 DEF Sound, QueueOK, WaitingOK, Fits, SameIdentity, Same
  <2>4. Brings(e, d) /\ Same(e, d)
    BY <2>1, <2>3, DispatchWaitingMoves DEF Same
  <2> HIDE DEF d
  <2>5. Brings(q, d) /\ Same(q, d)
    BY <2>1, <2>4 DEF Brings, Same
  <2>. QED BY <1>0, <2>2, <2>5, BringsHolds
<1>3. CASE ~Runs(q, ctx) /\ Waits(q, ctx)
  <2> DEFINE e == [q EXCEPT !.waiting = None]
  <2>1. e.running = q.running /\ e.ticket = q.ticket /\ e.waiting = None /\ Same(q, e)
    BY <1>0 DEF Queues, Same
  <2>2. Cancel(q, ctx) = e
    BY <1>3 DEF Cancel
  <2> HIDE DEF e
  <2>3. Brings(q, e)
    BY <2>1 DEF Brings
  <2>. QED BY <1>0, <2>1, <2>2, <2>3, BringsHolds
<1>4. CASE ~Runs(q, ctx) /\ ~Waits(q, ctx)
  BY <1>4 DEF Cancel, Same, Holds
<1>. QED BY <1>1, <1>2, <1>3, <1>4

LEMMA ExpireMoves ==
  ASSUME NEW p, NEW q, Sound(p, q), q.running # None
  PROVE  /\ Holds(q, ExpireRunning(q)) /\ ExpireRunning(q).pub = q.pub
         /\ ExpireRunning(q).rebuilding
<1> DEFINE free == [q EXCEPT !.running = None]
           e == ExpireRunning(q)
<1>1. q \in Queues /\ q # None /\ e # None
  BY ExpireSound, SoundThere
<1>2. CASE q.waiting = None
  <2>1. /\ e.running = None /\ e.waiting = None /\ e.ticket = q.ticket /\ e.pub = q.pub
        /\ e.rebuilding
    BY <1>1, <1>2 DEF Queues, ExpireRunning, Rebind
  <2> HIDE DEF e
  <2>2. Brings(q, e)
    BY <2>1 DEF Brings
  <2>. QED BY <1>1, <2>1, <2>2, BringsHolds DEF e
<1>3. CASE q.waiting # None
  <2> DEFINE new == [q.waiting EXCEPT !.gen = q.gen + 1]
             kept == Remember(Forget(q.issued, Ctx(q.waiting)), Ctx(new))
             m == [free EXCEPT !.waiting = new, !.issued = kept]
  <2>1. Rebind(free, q.gen + 1) = m
    <3>1. free.waiting = q.waiting /\ free.issued = q.issued
      BY <1>1 DEF Queues
    <3> HIDE DEF free
    <3>. QED BY <1>3, <3>1 DEF Rebind
  <2>2. new.id = q.waiting.id
    BY <1>1, <1>3 DEF Queues, Candidates
  <2> HIDE DEF new, kept
  <2>3. /\ e.running = None /\ e.waiting = new /\ e.ticket = q.ticket /\ e.pub = q.pub
        /\ e.rebuilding
    BY <1>1, <2>1 DEF Queues, ExpireRunning
  <2> HIDE DEF e
  <2>4. Brings(q, e)
    BY <1>3, <2>2, <2>3 DEF Brings
  <2>. QED BY <1>1, <2>3, <2>4, BringsHolds DEF e
<1>. QED BY <1>2, <1>3

LEMMA ReplacedMoves ==
  ASSUME NEW p, NEW q, NEW gen, Sound(p, q), CanReplace(q, gen),
         NEW inc \in Nat, NEW fresh \in Tokens
  PROVE  Moves(q, RuntimeReplaced(q, inc, fresh), fresh)
<1> DEFINE w == IF q.waiting = None THEN None ELSE [q.waiting EXCEPT !.inc = inc]
           e == [q EXCEPT !.inc = inc, !.pub = fresh, !.rebuilding = FALSE, !.waiting = w]
           d == DispatchWaiting(e)
<1>1. q \in Queues /\ q # None /\ Sound(p, RuntimeReplaced(q, inc, fresh))
  BY ReplacedSound, SoundThere
<1>2. /\ w \in Candidates \cup {None}
      /\ w # None => /\ w.gen = q.waiting.gen /\ w.inc = inc /\ w.id = q.waiting.id
                     /\ w.kind = q.waiting.kind /\ w.plugin = q.waiting.plugin
                     /\ q.waiting # None
  BY <1>1 DEF Queues, Candidates
<1>3. RuntimeReplaced(q, inc, fresh) = d /\ d # None
  BY <1>1, SoundThere DEF RuntimeReplaced
<1> HIDE DEF w
<1>4. /\ e \in Queues /\ e.running = None /\ e.waiting = w /\ e.ticket = q.ticket
      /\ e.gen = q.gen /\ e.inc = inc /\ e.pub = fresh
  BY <1>1, <1>2 DEF Queues, CanReplace
<1> HIDE DEF e
<1>5. Fits(p, e)
  BY <1>2, <1>4 DEF Sound, QueueOK, WaitingOK, Fits, SameIdentity
<1>6. Brings(e, d) /\ d.pub = fresh
  BY <1>4, <1>5, DispatchWaitingMoves
<1> HIDE DEF d
<1>7. Brings(q, d)
  BY <1>2, <1>4, <1>6 DEF Brings
<1>8. Holds(q, d)
  BY <1>1, <1>3, <1>7, BringsHolds
<1>. QED BY <1>1, <1>3, <1>6, <1>8, FreshMoves

LEMMA RetirePluginMoves ==
  ASSUME NEW p, NEW q, Sound(p, q), NEW fresh \in Tokens
  PROVE  Holds(q, RetirePlugin(q, fresh)) /\ RetirePlugin(q, fresh).pub = fresh
<1> DEFINE t == IF q.ticket = None THEN None ELSE [q.ticket EXCEPT !.reason = "expired"]
           r == IF q.running = None THEN None ELSE Retired(q.running, "expired")
           e == [q EXCEPT !.pub = fresh, !.ticket = t, !.running = r, !.waiting = None]
<1>1. q \in Queues /\ q # None /\ RetirePlugin(q, fresh) # None
  BY RetirePluginSound, SoundThere
<1>2. t # None => q.ticket # None /\ t.req = q.ticket.req
  BY <1>1, TicketFacts DEF Queues, Reasons
<1>3. r # None => q.running # None /\ r.req = q.running.req
  BY <1>1, RetiredFacts DEF Queues, Reasons
<1>4. RetirePlugin(q, fresh) = e
  BY DEF RetirePlugin
<1> HIDE DEF t, r
<1>5. e.running = r /\ e.ticket = t /\ e.waiting = None /\ e.pub = fresh
  BY <1>1 DEF Queues
<1> HIDE DEF e
<1>6. Brings(q, e)
  BY <1>2, <1>3, <1>5 DEF Brings
<1>. QED BY <1>1, <1>4, <1>5, <1>6, BringsHolds

LEMMA InvalidateMoves ==
  ASSUME NEW p, NEW q, Sound(p, q), NEW fresh \in Tokens
  PROVE  Holds(q, Invalidate(q, fresh)) /\ Invalidate(q, fresh).pub = fresh
<1> DEFINE e == Invalidate(q, fresh)
<1>1. q \in Queues /\ q # None /\ e # None
  BY InvalidateSound, SoundThere
<1>2. e.running = None /\ e.waiting = None /\ e.ticket = q.ticket /\ e.pub = fresh
  BY <1>1 DEF Queues, Invalidate
<1> HIDE DEF e
<1>3. Brings(q, e)
  BY <1>2 DEF Brings
<1>. QED BY <1>1, <1>2, <1>3, BringsHolds DEF e

LEMMA ActivateMoves ==
  ASSUME NEW p, NEW q, Sound(p, q), NEW gen \in Nat, NEW inc \in Nat, NEW fresh \in Tokens
  PROVE  Holds(q, Activate(q, gen, inc, fresh)) /\ Activate(q, gen, inc, fresh).pub = fresh
<1> DEFINE e == Activate(q, gen, inc, fresh)
<1>1. q \in Queues /\ q # None /\ e # None
  BY ActivateSound, SoundThere
<1>2. e.running = None /\ e.waiting = None /\ e.ticket = q.ticket /\ e.pub = fresh
  BY <1>1 DEF Queues, Activate, Invalidate
<1> HIDE DEF e
<1>3. Brings(q, e)
  BY <1>2 DEF Brings
<1>. QED BY <1>1, <1>2, <1>3, BringsHolds DEF e

\* What is there, retired or invalidated.
LEMMA RetireIfAnyMoves ==
  ASSUME NEW p, NEW q, q # None => Sound(p, q), NEW fresh \in Tokens
  PROVE  Moves(q, RetireIfAny(q, fresh), fresh)
<1>1. CASE q = None
  BY <1>1, NoneHolds DEF RetireIfAny, Moves, Exchanged
<1>2. CASE q # None
  BY <1>2, RetirePluginMoves, RetirePluginSound, FreshMoves DEF RetireIfAny
<1>. QED BY <1>1, <1>2

LEMMA InvalidateIfAnyMoves ==
  ASSUME NEW p, NEW q, q # None => Sound(p, q), NEW fresh \in Tokens
  PROVE  Moves(q, InvalidateIfAny(q, fresh), fresh)
<1>1. CASE q = None
  BY <1>1, NoneHolds DEF InvalidateIfAny, Moves, Exchanged
<1>2. CASE q # None
  BY <1>2, InvalidateMoves, InvalidateSound, FreshMoves DEF InvalidateIfAny
<1>. QED BY <1>1, <1>2

LEMMA RetireInvalidateMoves ==
  ASSUME NEW p, NEW q, q # None => Sound(p, q), NEW fresh \in Tokens
  PROVE  Moves(q, InvalidateIfAny(RetireIfAny(q, fresh), fresh), fresh)
<1> DEFINE m == RetireIfAny(q, fresh)
           e == InvalidateIfAny(m, fresh)
<1>1. (m # None => Sound(p, m)) /\ Moves(q, m, fresh)
  BY RetireIfAnySound, RetireIfAnyMoves
<1>2. q = None => m = None
  BY DEF RetireIfAny
<1> HIDE DEF m
<1>3. Moves(m, e, fresh)
  BY <1>1, InvalidateIfAnyMoves
<1>4. m # None => e.pub = fresh /\ e # None
  BY <1>1, InvalidateMoves, InvalidateSound, SoundThere DEF InvalidateIfAny
<1>5. m = None => e = None
  BY DEF InvalidateIfAny
<1> HIDE DEF e
<1>6. Holds(q, e)
  BY <1>1, <1>3 DEF Moves, Holds
<1>. QED BY <1>4, <1>5, <1>6 DEF Moves, Exchanged, m, e

\* An admitted request is all that is new.
LEMMA EnqueueMoves ==
  ASSUME NEW p, NEW q, Sound(p, q), NEW c \in Candidates, c.plugin = p, Accepts(q, c)
  PROVE  LET e == Enqueue(q, c)
         IN  /\ Same(q, e)
             /\ CommandsIn(e) \subseteq
                  CommandsIn(q) \cup (IF c.kind = "command" THEN {c.id} ELSE {})
             /\ RunsIn(e) \subseteq RunsIn(q) /\ ResultsIn(e) \subseteq ResultsIn(q)
<1> DEFINE ticket == IF c.kind # "command" THEN None
                     ELSE IF PendingTicket(q) THEN [q.ticket EXCEPT !.reason = "cancelled"]
                     ELSE q.ticket
           known == [q EXCEPT !.ticket = ticket, !.issued = Remember(@, Ctx(c))]
           e == Enqueue(q, c)
<1>1. q \in Queues /\ q # None /\ e # None
  BY EnqueueSound, SoundThere
<1>2. ticket # None => q.ticket # None /\ ticket.req = q.ticket.req
  BY <1>1, TicketFacts DEF PendingTicket, Queues, Reasons
<1> HIDE DEF ticket
<1>3. /\ known.running = q.running /\ known.waiting = q.waiting /\ known.ticket = ticket
      /\ Same(q, known)
  BY <1>1 DEF Queues, Same
<1> DEFINE kept == [known EXCEPT !.waiting = c]
           busy == [known EXCEPT !.waiting = c, !.running = Superseded(known.running)]
           started == Start(known, c)
<1>10. /\ kept.ticket = ticket /\ Same(q, kept) /\ kept.waiting = c /\ kept.running = q.running
       /\ busy.ticket = ticket /\ Same(q, busy) /\ busy.waiting = c
       /\ busy.running = Superseded(q.running)
  BY <1>1 DEF Queues, Same
<1>11. /\ started.ticket = ticket /\ Same(q, started) /\ started.waiting = q.waiting
       /\ started.running.req = c
  BY <1>1 DEF Queues, Same, Start
<1>4. c.kind # "result" /\ (c.kind # "command" => SlotsFree(q))
  BY DEF Accepts, Candidates, Kinds
<1>5. /\ q.rebuilding => e = kept
      /\ ~q.rebuilding /\ q.running # None => e = busy
      /\ ~q.rebuilding /\ q.running = None => e = Dispatch(known, c)
  BY <1>1 DEF Enqueue, Queues, ticket
<1> HIDE DEF known, e, kept, busy, started
<1>6. /\ e.ticket = ticket /\ Same(q, e)
      /\ e.waiting = q.waiting \/ (e.waiting = c /\ c.kind = "command")
      /\ \/ e.running = q.running
         \/ q.running # None /\ e.running.req = q.running.req
         \/ e.running.req = c
  <2>1. CASE q.rebuilding
    BY <1>4, <1>5, <1>10, <2>1 DEF SlotsFree
  <2>2. CASE ~q.rebuilding /\ q.running # None
    <3>1. Superseded(q.running).req = q.running.req
      BY <1>1, <2>2, SupersededFacts DEF Queues
    <3>. QED BY <1>4, <1>5, <1>10, <2>2, <3>1 DEF SlotsFree
  <2>3. CASE ~q.rebuilding /\ q.running = None
    <3>1. e = started \/ e = known
      BY <1>5, <2>3 DEF Dispatch, started
    <3>. QED BY <1>3, <1>11, <3>1
  <2>. QED BY <1>1, <2>1, <2>2, <2>3 DEF Queues
<1>7. CommandsIn(e) \subseteq CommandsIn(q) \cup (IF c.kind = "command" THEN {c.id} ELSE {})
  BY <1>1, <1>6 DEF CommandsIn
<1>8. RunsIn(e) \subseteq RunsIn(q)
  BY <1>1, <1>4, <1>6 DEF RunsIn
<1>9. ResultsIn(e) \subseteq ResultsIn(q)
  BY <1>1, <1>2, <1>6, <1>8 DEF ResultsIn, OwedIn
<1>. QED BY <1>6, <1>7, <1>8, <1>9 DEF e

LEMMA AdmitResultMoves ==
  ASSUME NEW p, NEW q, Sound(p, q), NEW c \in Candidates, c.plugin = p, AdmitsResult(q, c)
  PROVE  LET e == AdmitResult(q, c)
         IN  /\ Same(q, e) /\ CommandsIn(e) \subseteq CommandsIn(q)
             /\ RunsIn(e) \subseteq {c} /\ ResultsIn(e) \subseteq {c}
<1> DEFINE e == AdmitResult(q, c)
<1>1. q \in Queues /\ q # None
  BY SoundThere
<1>2. /\ e.running.req = c /\ e.waiting = q.waiting /\ e.ticket = None /\ Same(q, e)
  BY <1>1 DEF AdmitResult, Start, Queues, Same
<1>3. c.kind = "result"
  BY DEF AdmitsResult
<1> HIDE DEF e
<1>4. CommandsIn(e) \subseteq CommandsIn(q)
  BY <1>1, <1>2, <1>3 DEF CommandsIn
<1>5. RunsIn(e) \subseteq {c} /\ OwedIn(e) = {}
  BY <1>2 DEF RunsIn, OwedIn
<1>. QED BY <1>2, <1>4, <1>5 DEF ResultsIn, e

-----------------------------------------------------------------------------
(* Steps of the host *)

\* A fresh token is none that anything refers to.
LEMMA FreshNew == TokensLeft => Fresh \in Tokens /\ Fresh \notin Referenced
  BY DEF TokensLeft, Fresh

LEMMA ReferencedFacts ==
  /\ \A p \in Plugins : queue[p] # None => queue[p].pub \in Referenced
  /\ \A c \in ResultsHeld : c.pub \in Referenced /\ c.lease \in Referenced
  /\ \A r \in Requests : pending[r] # None => pending[r].pub \in Referenced
  /\ \A a \in answers : a.pub \in Referenced
  /\ results # None => results.pub \in Referenced /\ results.lease \in Referenced
<1> DEFINE pubs == UNION {PubOf(queue[p]) : p \in Plugins}
           held == UNION {CandidateTokens(c) : c \in HeldRequests}
           routes == {pending[r].pub : r \in {x \in Requests : pending[x] # None}}
           answered == {a.pub : a \in answers}
           shown == IF results = None THEN {} ELSE {results.pub, results.lease}
<1>1. /\ pubs \subseteq Referenced /\ held \subseteq Referenced /\ routes \subseteq Referenced
      /\ answered \subseteq Referenced /\ shown \subseteq Referenced
  <2>1. Referenced = pubs \cup held \cup routes \cup answered \cup shown
    BY ONLY DEF Referenced
  <2> HIDE DEF pubs, held, routes, answered, shown
  <2>. QED BY <2>1
<1>2. \A p \in Plugins : queue[p] # None => queue[p].pub \in pubs
  BY DEF PubOf
<1>3. \A c \in HeldRequests : c.pub \in held /\ c.lease \in held
  BY DEF CandidateTokens
<1>4. ResultsHeld \subseteq HeldRequests
  BY DEF ResultsHeld, HeldRequests, ResultsIn, RunsIn, OwedIn
<1>5. \A r \in Requests : pending[r] # None => pending[r].pub \in routes
  OBVIOUS
<1>6. \A a \in answers : a.pub \in answered
  OBVIOUS
<1>7. results # None => results.pub \in shown /\ results.lease \in shown
  OBVIOUS
<1> HIDE DEF pubs, held, routes, answered, shown
<1>. QED BY <1>1, <1>2, <1>3, <1>4, <1>5, <1>6, <1>7

\* Of the publications referred to, none comes back to life, and the queue of one that
\* lives on keeps it with its identity.
Kept ==
    \A t \in Referenced \cap live' :
        /\ t \in live
        /\ \A p \in Plugins : queue[p] # None /\ queue[p].pub = t =>
              /\ queue'[p] # None /\ queue'[p].pub = t
              /\ queue'[p].gen = queue[p].gen /\ queue'[p].inc = queue[p].inc

LEMMA KeptRouted ==
  ASSUME Kept, NEW p \in Plugins, NEW o, o.pub \in Referenced, Routed(queue[p], live, o)
  PROVE  Routed(queue'[p], live', o)
  BY DEF Kept, Routed, SameIdentity

\* Nothing is held, captured or shown that was not.
PendingKept ==
    \A r \in Requests : pending'[r] # None =>
        /\ pending[r] # None
        /\ pending'[r].pub = pending[r].pub
        /\ pending'[r].gen = pending[r].gen /\ pending'[r].inc = pending[r].inc
SetKept ==
    results' # None =>
        /\ results # None /\ results'.plugin = results.plugin /\ results'.pub = results.pub
        /\ results'.gen = results.gen /\ results'.inc = results.inc
        /\ results'.lease = results.lease
        /\ results'.claim = "available" => results.claim = "available"
HeldKept ==
    /\ nextRequest' \in Nat /\ nextRequest' >= nextRequest
    /\ \A p \in Plugins : CommandsOf(p)' \subseteq CommandsOf(p)
    /\ ResultsHeld' \subseteq ResultsHeld /\ answers' \subseteq answers
    /\ PendingKept /\ SetKept

LEMMA HeldTypes ==
  ASSUME HostInv
  PROVE  /\ \A p \in Plugins : CommandsOf(p) \subseteq Requests
         /\ \A c \in ResultsHeld : c \in Candidates /\ c.plugin \in Plugins
         /\ \A a \in answers : a.plugin \in Plugins
         /\ results # None => results.plugin \in Plugins
<1>1. \A p \in Plugins : CommandsOf(p) \subseteq Requests
  BY DEF HostInv, RequestsOK, CommandsOf, CommandsIn, Candidates
<1>2. \A p \in Plugins : ResultsIn(queue[p]) \subseteq Candidates
  <2> SUFFICES ASSUME NEW p \in Plugins, queue[p] # None
               PROVE  ResultsIn(queue[p]) \subseteq Candidates
    BY DEF ResultsIn, RunsIn, OwedIn
  <2>1. queue[p] \in Queues
    BY DEF HostInv, QueuesOK
  <2>. QED BY <2>1 DEF ResultsIn, RunsIn, OwedIn, Queues, RunningRequests, Tickets
<1>3. \A c \in ResultsHeld : c \in Candidates
  BY <1>2 DEF HostInv, RequestsOK, ServiceOK, Finishing, ResultsHeld
<1>4. \A c \in Candidates : c.plugin \in Plugins
  BY DEF Candidates
<1>. QED BY <1>1, <1>3, <1>4 DEF HostInv, ServiceOK, Answers, ResultSets

\* What is captured, shown or held was, or is routed.
PendingRouted ==
    \A p \in Plugins : \A r \in CommandsOf(p)' : pending'[r] # None =>
        \/ /\ r \in CommandsOf(p) /\ pending[r] # None
           /\ pending'[r].pub = pending[r].pub
           /\ pending'[r].gen = pending[r].gen /\ pending'[r].inc = pending[r].inc
        \/ Routed(queue'[p], live', pending'[r])
HeldRouted ==
    /\ \A c \in ResultsHeld' : c \in ResultsHeld \/ Routed(queue'[c.plugin], live', c)
    /\ \A a \in answers' : a \in answers \/ Routed(queue'[a.plugin], live', a)
SetRouted ==
    results' # None =>
        \/ /\ results # None /\ results'.plugin = results.plugin /\ results'.pub = results.pub
           /\ results'.gen = results.gen /\ results'.inc = results.inc
        \/ Routed(queue'[results'.plugin], live', results')

LEMMA RoutesStep ==
  ASSUME HostInv, RoutesOK, Kept, PendingRouted, HeldRouted, SetRouted
  PROVE  RoutesOK'
<1>1. /\ \A p \in Plugins : CommandsOf(p) \subseteq Requests
      /\ \A c \in ResultsHeld : c \in Candidates /\ c.plugin \in Plugins
      /\ \A a \in answers : a.plugin \in Plugins
      /\ results # None => results.plugin \in Plugins
  BY HeldTypes
<1>3. ASSUME NEW p \in Plugins, NEW r \in CommandsOf(p)', pending'[r] # None
      PROVE  Routed(queue'[p], live', pending'[r])
  <2> SUFFICES ASSUME r \in CommandsOf(p), pending[r] # None, pending'[r].pub = pending[r].pub,
                      pending'[r].gen = pending[r].gen, pending'[r].inc = pending[r].inc
               PROVE  Routed(queue'[p], live', pending'[r])
    BY <1>3 DEF PendingRouted
  <2>1. Routed(queue[p], live, pending[r]) /\ pending[r].pub \in Referenced
    BY <1>1, ReferencedFacts DEF RoutesOK
  <2>2. Routed(queue'[p], live', pending[r])
    BY <2>1, KeptRouted
  <2>. QED BY <2>2 DEF Routed, SameIdentity
<1>4. ASSUME NEW c \in ResultsHeld' PROVE Routed(queue'[c.plugin], live', c)
  BY <1>1, <1>4, ReferencedFacts, KeptRouted DEF HeldRouted, RoutesOK
<1>5. ASSUME NEW a \in answers' PROVE Routed(queue'[a.plugin], live', a)
  BY <1>1, <1>5, ReferencedFacts, KeptRouted DEF HeldRouted, RoutesOK
<1>6. ASSUME results' # None PROVE Routed(queue'[results'.plugin], live', results')
  <2> SUFFICES ASSUME results # None, results'.plugin = results.plugin,
                      results'.pub = results.pub, results'.gen = results.gen,
                      results'.inc = results.inc
               PROVE  Routed(queue'[results'.plugin], live', results')
    BY <1>6 DEF SetRouted
  <2>2. Routed(queue'[results.plugin], live', results)
    BY <1>1, ReferencedFacts, KeptRouted DEF RoutesOK
  <2>. QED BY <2>2 DEF Routed, SameIdentity
<1>. QED BY <1>3, <1>4, <1>5, <1>6 DEF RoutesOK

\* Requests leave a queue, or a new number is given out.
NumbersKept ==
    /\ \A p \in Plugins : CommandsOf(p)' \subseteq CommandsOf(p)
    /\ nextRequest' \in Nat /\ nextRequest' >= nextRequest
LEMMA NumbersFrame ==
  ASSUME HostInv, NumbersOK, NumbersKept
  PROVE  NumbersOK'
<1>1. \A p \in Plugins : CommandsOf(p) \subseteq Requests
  BY HeldTypes
<1>2. nextRequest \in Nat /\ Requests \subseteq Nat
  BY HostAssumption DEF HostInv, RequestsOK
<1>3. ASSUME NEW p \in Plugins, NEW r \in CommandsOf(p)' PROVE r < nextRequest'
  <2>1. r \in CommandsOf(p) /\ r \in Requests /\ r < nextRequest
    BY <1>1 DEF NumbersOK, NumbersKept
  <2>. QED BY <1>2, <2>1 DEF NumbersKept
<1>4. ASSUME NEW p \in Plugins, NEW x \in Plugins, p # x
      PROVE  CommandsOf(p)' \cap CommandsOf(x)' = {}
  <2>1. CommandsOf(p) \cap CommandsOf(x) = {}
    BY <1>4 DEF NumbersOK
  <2>2. CommandsOf(p)' \subseteq CommandsOf(p) /\ CommandsOf(x)' \subseteq CommandsOf(x)
    BY DEF NumbersKept
  <2>. QED BY <2>1, <2>2
<1>. QED BY <1>3, <1>4 DEF NumbersOK

LEMMA NumberTaken ==
  ASSUME HostInv, NumbersOK, NEW p \in Plugins, nextRequest' = nextRequest + 1,
         CommandsOf(p)' \subseteq CommandsOf(p) \cup {nextRequest},
         \A x \in Plugins : x # p => CommandsOf(x)' \subseteq CommandsOf(x)
  PROVE  NumbersOK'
<1>1. \A x \in Plugins : CommandsOf(x) \subseteq Requests
  BY HeldTypes
<1>2. nextRequest \in Nat /\ Requests \subseteq Nat
  BY HostAssumption DEF HostInv, RequestsOK
<1>3. \A x \in Plugins : \A r \in CommandsOf(x) : r < nextRequest /\ r < nextRequest'
  <2> TAKE x \in Plugins
  <2> TAKE r \in CommandsOf(x)
  <2>1. r \in Nat /\ r < nextRequest
    BY <1>1, <1>2 DEF NumbersOK
  <2>. QED BY <1>2, <2>1
<1>4. nextRequest < nextRequest' /\ ~(nextRequest < nextRequest)
  BY <1>2
<1>5. ASSUME NEW x \in Plugins, NEW r \in CommandsOf(x)' PROVE r < nextRequest'
  BY <1>3, <1>4, <1>5
<1>6. \A x, y \in Plugins : x # y => CommandsOf(x) \cap CommandsOf(y) = {}
  BY DEF NumbersOK
<1>7. \A x \in Plugins : nextRequest \notin CommandsOf(x)
  BY <1>3, <1>4
<1>8. ASSUME NEW x \in Plugins, NEW y \in Plugins, x # y
      PROVE  CommandsOf(x)' \cap CommandsOf(y)' = {}
  <2>1. CASE x = p
    BY <1>6, <1>7, <1>8, <2>1
  <2>2. CASE y = p
    BY <1>6, <1>7, <1>8, <2>2
  <2>3. CASE x # p /\ y # p
    BY <1>6, <1>8, <2>3
  <2>. QED BY <2>1, <2>2, <2>3
<1>. QED BY <1>5, <1>8 DEF NumbersOK

LEMMA RoutesFrame ==
  ASSUME HostInv, NumbersOK, RoutesOK, Kept, HeldKept
  PROVE  NumbersOK' /\ RoutesOK'
<1>1. NumbersOK'
  BY NumbersFrame DEF HeldKept, NumbersKept
<1>2. PendingRouted
  <2>1. \A p \in Plugins : CommandsOf(p) \subseteq Requests
    BY HeldTypes
  <2>. QED BY <2>1 DEF HeldKept, PendingKept, PendingRouted
<1>3. HeldRouted /\ SetRouted
  BY DEF HeldKept, SetKept, HeldRouted, SetRouted
<1>. QED BY <1>1, <1>2, <1>3, RoutesStep

\* Who executes, did; and a claimed set is not offered again.
ExecutingKept ==
    /\ \A f \in finishing' : f.req.kind = "result"
    /\ Executing' \subseteq Executing
    /\ SetKept
LEMMA ClaimsFrame == ASSUME ClaimsOK, ExecutingKept PROVE ClaimsOK'
  BY DEF ClaimsOK, ExecutingKept, SetKept

\* One queue changes.
LEMMA SetQueueKept ==
  ASSUME HostInv, NEW p \in Plugins, NEW new, SetQueue(p, new), Exchanged(queue[p], new, Fresh)
  PROVE  Kept
<1>1. /\ Fresh \notin Referenced /\ queue \in [Plugins -> Queues \cup {None}]
  BY FreshNew DEF SetQueue, HostInv, QueuesOK
<1>2. queue' = [queue EXCEPT ![p] = new]
      /\ live' = IF PubOf(new) = PubOf(queue[p]) THEN live
                 ELSE (live \ PubOf(queue[p])) \cup PubOf(new)
  BY DEF SetQueue
<1>3. \A x \in Plugins : queue'[x] = IF x = p THEN new ELSE queue[x]
  BY <1>1, <1>2
<1>4. queue[p] # None => queue[p].pub \in Referenced
  BY ReferencedFacts
<1> SUFFICES ASSUME NEW t \in Referenced, t \in live'
             PROVE  /\ t \in live
                    /\ queue[p] # None /\ queue[p].pub = t =>
                          /\ new # None /\ new.pub = t
                          /\ new.gen = queue[p].gen /\ new.inc = queue[p].inc
  BY <1>3 DEF Kept
<1>5. CASE new = None
  BY <1>2, <1>5 DEF PubOf
<1>6. CASE new # None /\ new.pub = Fresh
  BY <1>1, <1>2, <1>4, <1>6 DEF PubOf
<1>7. CASE /\ new # None /\ queue[p] # None /\ new.pub = queue[p].pub
           /\ new.gen = queue[p].gen /\ new.inc = queue[p].inc
  BY <1>2, <1>7 DEF PubOf
<1>. QED BY <1>5, <1>6, <1>7 DEF Exchanged

LEMMA SetQueuePublished ==
  ASSUME HostInv, PublishedOK, NEW p \in Plugins, NEW new, SetQueue(p, new),
         Exchanged(queue[p], new, Fresh), SetKept, UNCHANGED closed
  PROVE  PublishedOK'
<1>1. /\ Fresh \notin Referenced /\ queue \in [Plugins -> Queues \cup {None}]
  BY FreshNew DEF SetQueue, HostInv, QueuesOK
<1>2. live' = IF PubOf(new) = PubOf(queue[p]) THEN live
              ELSE (live \ PubOf(queue[p])) \cup PubOf(new)
  BY DEF SetQueue
<1>3. \A x \in Plugins : queue'[x] = IF x = p THEN new ELSE queue[x]
  BY <1>1 DEF SetQueue
<1>4. /\ \A x \in Plugins : queue[x] # None => queue[x].pub \in Referenced
      /\ results # None => results.lease \in Referenced
  BY ReferencedFacts
<1>5. new # None => new.pub = Fresh \/ (queue[p] # None /\ new.pub = queue[p].pub
                                        /\ new.rebuilding = queue[p].rebuilding)
  BY DEF Exchanged
<1>6. \A x, y \in Plugins :
          x # y /\ queue'[x] # None /\ queue'[y] # None => queue'[x].pub # queue'[y].pub
  BY <1>1, <1>3, <1>4, <1>5 DEF PublishedOK
<1>7. results' # None => \A x \in Plugins : queue'[x] # None => queue'[x].pub # results'.lease
  BY <1>1, <1>3, <1>4, <1>5 DEF PublishedOK, SetKept
<1>8. ASSUME closed = "open", NEW x \in Plugins, queue'[x] # None, ~queue'[x].rebuilding
      PROVE  queue'[x].pub \in live'
  <2>1. CASE x # p
    <3>1. queue[x] # None /\ queue[x].pub \in live /\ queue'[x] = queue[x]
      BY <1>3, <1>8, <2>1 DEF PublishedOK
    <3>2. queue[p] # None => queue[p].pub # queue[x].pub
      BY <2>1, <3>1 DEF PublishedOK
    <3>. QED BY <1>2, <3>1, <3>2 DEF PubOf
  <2>2. CASE x = p /\ new.pub = Fresh
    BY <1>2, <1>3, <1>8, <2>2, <1>1, <1>4 DEF PubOf
  <2>3. CASE x = p /\ queue[p] # None /\ new.pub = queue[p].pub
             /\ new.rebuilding = queue[p].rebuilding
    BY <1>2, <1>3, <1>8, <2>3 DEF PubOf, PublishedOK
  <2>. QED BY <1>3, <1>5, <1>8, <2>1, <2>2, <2>3
<1>. QED BY <1>6, <1>7, <1>8 DEF PublishedOK

-----------------------------------------------------------------------------
(* Steps that bring nothing in *)

QueuesHold == \A x \in Plugins : Holds(queue[x], queue'[x])
Leaves ==
    /\ prepared' \subseteq prepared /\ finishing' \subseteq finishing /\ answers' \subseteq answers
    /\ PendingKept /\ SetKept /\ UNCHANGED nextRequest

\* What the queues and the service no longer hold is all that changed.
LEMMA LeavesKeep ==
  ASSUME HostInv, ClaimsOK, QueuesHold, Leaves
  PROVE  HeldKept /\ ExecutingKept
<1>1. nextRequest' \in Nat /\ nextRequest' >= nextRequest
  BY DEF HostInv, RequestsOK, Leaves
<1>2. \A p \in Plugins : CommandsOf(p)' \subseteq CommandsOf(p)
  BY DEF QueuesHold, Holds, Leaves, CommandsOf
<1>3. ResultsHeld' \subseteq ResultsHeld
  BY DEF QueuesHold, Holds, Leaves, ResultsHeld
<1>4. Executing' \subseteq Executing
  BY DEF QueuesHold, Holds, Leaves, Executing
<1>. QED BY <1>1, <1>2, <1>3, <1>4 DEF HeldKept, ExecutingKept, Leaves, ClaimsOK

LEMMA SelfHolds == \A q : Holds(q, q)
  BY DEF Holds

LEMMA SetQueueHolds ==
  ASSUME HostInv, NEW p \in Plugins, NEW new, SetQueue(p, new), Holds(queue[p], new)
  PROVE  QueuesHold
<1>1. queue \in [Plugins -> Queues \cup {None}]
  BY DEF HostInv, QueuesOK
<1>2. \A x \in Plugins : queue'[x] = IF x = p THEN new ELSE queue[x]
  BY <1>1 DEF SetQueue
<1>. QED BY <1>2, SelfHolds DEF QueuesHold

\* One queue moves.
LEMMA MovesTokens ==
  ASSUME HostInv, TokensInv, NEW p \in Plugins, NEW new, SetQueue(p, new),
         Moves(queue[p], new, Fresh), Leaves, UNCHANGED closed
  PROVE  TokensInv'
<1>1. QueuesHold /\ Kept
  BY SetQueueHolds, SetQueueKept DEF Moves
<1>2. HeldKept /\ ExecutingKept
  BY <1>1, LeavesKeep DEF TokensInv
<1>3. NumbersOK' /\ RoutesOK'
  BY <1>1, <1>2, RoutesFrame DEF TokensInv
<1>4. ClaimsOK'
  BY <1>2, ClaimsFrame DEF TokensInv
<1>5. PublishedOK'
  BY SetQueuePublished DEF TokensInv, Moves, Leaves
<1>. QED BY <1>3, <1>4, <1>5 DEF TokensInv

\* No queue changes; what dies is not the publication of a queue that admits.
LEMMA StillTokens ==
  ASSUME HostInv, TokensInv, UNCHANGED queue, live' \subseteq live, Leaves,
         closed' = "open" =>
            /\ closed = "open"
            /\ \A p \in Plugins : queue[p] # None /\ queue[p].pub \in live => queue[p].pub \in live'
  PROVE  TokensInv'
<1>1. QueuesHold /\ Kept
  BY SelfHolds DEF QueuesHold, Kept
<1>2. HeldKept /\ ExecutingKept
  BY <1>1, LeavesKeep DEF TokensInv
<1>3. NumbersOK' /\ RoutesOK'
  BY <1>1, <1>2, RoutesFrame DEF TokensInv
<1>4. ClaimsOK'
  BY <1>2, ClaimsFrame DEF TokensInv
<1>5. PublishedOK'
  BY DEF TokensInv, PublishedOK, Leaves, SetKept
<1>. QED BY <1>3, <1>4, <1>5 DEF TokensInv

\* Nothing leaves when nothing happens.
LEMMA PendingStays == UNCHANGED pending => PendingKept
  BY DEF PendingKept
LEMMA PendingDrops == KeepPending(pending) => PendingKept
  BY DEF KeepPending, PendingKept
LEMMA SetStays == UNCHANGED results => SetKept
  BY DEF SetKept

\* A step that touches neither the scheduler nor the requests.
LEMMA AsideTokens ==
  ASSUME HostInv, TokensInv,
         UNCHANGED <<scheduler, closed, nextRequest, prepared, pending, service>>
  PROVE  TokensInv'
  BY StillTokens, PendingStays, SetStays DEF Leaves, scheduler, service

\* One that moves a queue, and drops the submissions it ends.
LEMMA CalmTokens ==
  ASSUME HostInv, TokensInv, NEW p \in Plugins, NEW new, SetQueue(p, new),
         Moves(queue[p], new, Fresh), UNCHANGED <<closed, nextRequest, prepared, service>>,
         KeepPending(pending) \/ UNCHANGED pending
  PROVE  TokensInv'
<1>1. Leaves
  BY PendingStays, PendingDrops, SetStays DEF Leaves, service
<1>. QED BY <1>1, MovesTokens

\* What is there is sound.
LEMMA ThereSound == HostInv => \A p \in Plugins : queue[p] # None => Sound(p, queue[p])
  BY DEF HostInv, QueuesOK

\* Same queue, moved in place.
LEMMA SameSoundMoves ==
  ASSUME HostInv, NEW p \in Plugins, queue[p] # None, NEW new, Sound(p, new),
         Holds(queue[p], new), Same(queue[p], new)
  PROVE  Moves(queue[p], new, Fresh)
  BY ThereSound, SameMoves

-----------------------------------------------------------------------------
(* Requests that end *)

LEMMA AbortUnboundTokens ==
  ASSUME HostInv, TokensInv, NEW p \in Plugins, AbortUnbound(p)
  PROVE  TokensInv'
<1> DEFINE new == Cancel(queue[p], Ctx(queue[p].running.req))
<1>1. queue[p] # None
  BY DEF AbortUnbound, Unbound
<1>2. Moves(queue[p], new, Fresh)
  BY <1>1, ThereSound, CancelSound, CancelMoves, SameSoundMoves
<1>3. /\ SetQueue(p, new) /\ KeepPending(pending)
      /\ UNCHANGED <<closed, nextRequest, prepared, service>>
  BY DEF AbortUnbound
<1>. QED BY <1>2, <1>3, CalmTokens

LEMMA SettleContentTokens ==
  ASSUME HostInv, TokensInv, NEW p \in Plugins, SettleContent(p)
  PROVE  TokensInv'
<1> DEFINE new == TakeTicket(queue[p])
<1>1. queue[p] # None
  BY DEF SettleContent
<1>2. Moves(queue[p], new, Fresh)
  BY <1>1, ThereSound, TakeTicketSound, TakeTicketMoves, SameSoundMoves
<1>3. /\ SetQueue(p, new)
      /\ UNCHANGED <<closed, nextRequest, prepared, pending, answers, finishing, results>>
  BY DEF SettleContent
<1>4. Leaves
  BY <1>3, PendingStays, SetStays DEF Leaves
<1>. QED BY <1>2, <1>3, <1>4, MovesTokens

LEMMA RetireContentTokens ==
  ASSUME HostInv, TokensInv, NEW p \in Plugins, RetireContent(p)
  PROVE  TokensInv'
<1>1. PICK ctx : SetQueue(p, RetireContext(queue[p], ctx))
  BY DEF RetireContent
<1>2. Moves(queue[p], RetireContext(queue[p], ctx), Fresh)
  BY ThereSound, RetireContextSound, RetireContextMoves, SameSoundMoves DEF RetireContent
<1>. QED BY <1>1, <1>2, CalmTokens DEF RetireContent

LEMMA CancelRequestTokens ==
  ASSUME HostInv, TokensInv, NEW p \in Plugins, CancelRequest(p)
  PROVE  TokensInv'
<1>1. PICK ctx : SetQueue(p, Cancel(queue[p], ctx))
  BY DEF CancelRequest
<1>2. Moves(queue[p], Cancel(queue[p], ctx), Fresh)
  BY ThereSound, CancelSound, CancelMoves, SameSoundMoves DEF CancelRequest
<1>. QED BY <1>1, <1>2, CalmTokens DEF CancelRequest

LEMMA RetireServiceTokens ==
  ASSUME HostInv, TokensInv, NEW p \in Plugins, RetireService(p)
  PROVE  TokensInv'
<1>1. Sound(p, queue[p])
  BY ThereSound DEF RetireService
<1>2. CASE \E ctx \in HeldContexts(queue[p]) : SetQueue(p, RetireRequest(queue[p], ctx, Fresh))
  <2>1. PICK ctx : SetQueue(p, RetireRequest(queue[p], ctx, Fresh))
    BY <1>2
  <2>2. Moves(queue[p], RetireRequest(queue[p], ctx, Fresh), Fresh)
    BY <1>1, <2>1, SetQueueFresh, RetireRequestMoves
  <2>. QED BY <2>1, <2>2, CalmTokens DEF RetireService
<1>3. CASE SetQueue(p, [queue[p] EXCEPT !.pub = Fresh])
  <2>1. Moves(queue[p], [queue[p] EXCEPT !.pub = Fresh], Fresh)
    BY <1>1, <1>3, SetQueueFresh, PublicationMoves, PublicationSound, FreshMoves
  <2>. QED BY <1>3, <2>1, CalmTokens DEF RetireService
<1>. QED BY <1>2, <1>3 DEF RetireService

LEMMA DropPreparedTokens ==
  ASSUME HostInv, TokensInv, NEW c \in prepared, DropPrepared(c)
  PROVE  TokensInv'
<1>1. Leaves
  BY PendingDrops, SetStays DEF DropPrepared, Leaves, service
<1>. QED BY <1>1, StillTokens DEF DropPrepared, scheduler

LEMMA RecoverRuntimeTokens ==
  ASSUME HostInv, TokensInv, NEW c \in prepared, RecoverRuntime(c)
  PROVE  TokensInv'
<1>1. PendingKept
  <2>1. pending \in [Requests -> Routes \cup {None}]
    BY DEF HostInv, RequestsOK
  <2> DEFINE route == [pending[c.id] EXCEPT !.recovery = FALSE]
             saved == [pending EXCEPT ![c.id] = route]
  <2>2. pending[c.id] # None /\ c.id \in Requests
    BY DEF RecoverRuntime, HostInv, RequestsOK, Candidates
  <2>3. /\ route.pub = pending[c.id].pub /\ route.gen = pending[c.id].gen
        /\ route.inc = pending[c.id].inc
    BY <2>1, <2>2 DEF Routes
  <2>4. KeepPending(saved) \/ KeepPending(pending)
    BY DEF RecoverRuntime
  <2> HIDE DEF route
  <2>5. \A r \in Requests : saved[r] = IF r = c.id THEN route ELSE pending[r]
    BY <2>1
  <2> HIDE DEF saved
  <2>. QED BY <2>2, <2>3, <2>4, <2>5, PendingDrops DEF KeepPending, PendingKept
<1>2. prepared' \subseteq prepared
  BY DEF RecoverRuntime
<1>3. UNCHANGED <<scheduler, closed, nextRequest, service>>
  BY DEF RecoverRuntime
<1>4. Leaves
  BY <1>1, <1>2, <1>3, SetStays DEF Leaves, service
<1>. QED BY <1>3, <1>4, StillTokens DEF scheduler

LEMMA DismissResultsTokens ==
  ASSUME HostInv, TokensInv, DismissResults
  PROVE  TokensInv'
<1>1. Leaves
  BY PendingStays DEF DismissResults, Leaves, SetKept
<1>2. \A p \in Plugins : queue[p] # None => queue[p].pub # results.lease
  BY DEF TokensInv, PublishedOK, DismissResults
<1>. QED BY <1>1, <1>2, StillTokens DEF DismissResults

LEMMA RevokeInFlightTokens ==
  ASSUME HostInv, TokensInv, RevokeInFlight
  PROVE  TokensInv'
<1>1. Leaves
  BY PendingStays, SetStays DEF RevokeInFlight, Leaves, service
<1>2. \A p \in Plugins : queue[p] # None => queue[p].pub # results.lease
  BY DEF TokensInv, PublishedOK, RevokeInFlight
<1>. QED BY <1>1, <1>2, StillTokens DEF RevokeInFlight

LEMMA ClosePublicationsTokens ==
  ASSUME HostInv, TokensInv, ClosePublications
  PROVE  TokensInv'
<1>1. Leaves
  BY PendingStays, SetStays DEF ClosePublications, Leaves, service
<1>. QED BY <1>1, StillTokens DEF ClosePublications

LEMMA CloseGateTokens ==
  ASSUME HostInv, TokensInv, CloseGate
  PROVE  TokensInv'
<1>1. Leaves
  BY PendingStays, SetStays DEF CloseGate, Leaves, service
<1>. QED BY <1>1, StillTokens DEF CloseGate, scheduler

-----------------------------------------------------------------------------
(* Management *)

LEMMA BeginUninstallTokens ==
  ASSUME HostInv, TokensInv, NEW p \in Plugins, NEW kind, BeginUninstall(p, kind)
  PROVE  TokensInv'
<1> DEFINE new == IF kind = "purge" THEN None
                  ELSE InvalidateIfAny(RetireIfAny(queue[p], Fresh), Fresh)
<1>1. /\ SetQueue(p, new) /\ KeepPending(pending)
      /\ UNCHANGED <<closed, nextRequest, prepared, service>>
  BY DEF BeginUninstall
<1>2. Moves(queue[p], new, Fresh)
  <2>1. CASE kind = "purge"
    BY <2>1, NoneHolds DEF Moves, Exchanged
  <2>2. CASE kind # "purge"
    BY <1>1, <2>2, ThereSound, SetQueueFresh, RetireInvalidateMoves
  <2>. QED BY <2>1, <2>2
<1> HIDE DEF new
<1>. QED BY <1>1, <1>2, CalmTokens

LEMMA CommitChangeTokens ==
  ASSUME HostInv, TokensInv, NEW p \in Plugins, CommitChange(p)
  PROVE  TokensInv'
<1>1. Moves(queue[p], RetireIfAny(queue[p], Fresh), Fresh)
  BY ThereSound, SetQueueFresh, RetireIfAnyMoves DEF CommitChange
<1>. QED BY <1>1, CalmTokens DEF CommitChange

LEMMA CommitDisableTokens ==
  ASSUME HostInv, TokensInv, NEW p \in Plugins, CommitDisable(p)
  PROVE  TokensInv'
<1> DEFINE new == InvalidateIfAny(RetireIfAny(queue[p], Fresh), Fresh)
<1>1. /\ SetQueue(p, new) /\ KeepPending(pending)
      /\ UNCHANGED <<closed, nextRequest, prepared, service>>
  BY DEF CommitDisable
<1>2. Moves(queue[p], new, Fresh)
  BY <1>1, ThereSound, SetQueueFresh, RetireInvalidateMoves
<1> HIDE DEF new
<1>. QED BY <1>1, <1>2, CalmTokens

LEMMA PublishFaultTokens ==
  ASSUME HostInv, TokensInv, NEW p \in Plugins, PublishFault(p)
  PROVE  TokensInv'
<1>1. Moves(queue[p], InvalidateIfAny(queue[p], Fresh), Fresh)
  BY ThereSound, SetQueueFresh, InvalidateIfAnyMoves DEF PublishFault
<1>. QED BY <1>1, CalmTokens DEF PublishFault

LEMMA CommitActivationTokens ==
  ASSUME HostInv, TokensInv, NEW p \in Plugins, CommitActivation(p)
  PROVE  TokensInv'
<1> DEFINE o == op[p]
           q == RetireIfAny(queue[p], Fresh)
           new == IF q = None THEN NewQueue(o.gen, o.inc, Fresh)
                  ELSE Activate(q, o.gen, o.inc, Fresh)
<1>1. /\ SetQueue(p, new) \/ SetQueue(p, q)
      /\ KeepPending(pending) /\ UNCHANGED <<closed, nextRequest, prepared, service>>
  BY DEF CommitActivation
<1>2. Fresh \in Tokens
  BY <1>1, SetQueueFresh
<1>3. Moves(queue[p], q, Fresh) /\ (q # None => Sound(p, q))
  BY <1>2, ThereSound, RetireIfAnyMoves, RetireIfAnySound
<1>4. o.gen \in Nat /\ o.inc \in Nat
  BY DEF CommitActivation, HostInv, ManagerOK, Operations
<1> HIDE DEF q
<1>5. Moves(queue[p], new, Fresh)
  <2>1. CASE q = None
    <3>1. Sound(p, new) /\ new.pub = Fresh
      BY <1>2, <1>4, <2>1, NewQueueSound DEF NewQueue
    <3>2. Holds(queue[p], new)
      BY <2>1, NewHolds
    <3>. QED BY <3>1, <3>2, FreshMoves
  <2>2. CASE q # None
    <3>1. Sound(p, new) /\ new.pub = Fresh /\ Holds(q, new)
      BY <1>2, <1>3, <1>4, <2>2, ActivateMoves, ActivateSound
    <3>2. Holds(queue[p], new)
      BY <1>3, <3>1 DEF Moves, Holds
    <3>. QED BY <3>1, <3>2, FreshMoves
  <2>. QED BY <2>1, <2>2
<1> HIDE DEF new, o
<1>. QED BY <1>1, <1>3, <1>5, CalmTokens

LEMMA UnknownOutcomeTokens ==
  ASSUME HostInv, TokensInv, NEW p \in Plugins, UnknownOutcome(p)
  PROVE  TokensInv'
<1> DEFINE new == RetireIfAny(queue[p], Fresh)
<1>1. /\ SetQueue(p, new) \/ UNCHANGED scheduler
      /\ KeepPending(pending) /\ UNCHANGED <<closed, nextRequest, prepared, service>>
  BY DEF UnknownOutcome
<1>2. CASE SetQueue(p, new)
  <2>1. Moves(queue[p], new, Fresh)
    BY <1>2, ThereSound, SetQueueFresh, RetireIfAnyMoves
  <2>. QED BY <1>1, <1>2, <2>1, CalmTokens
<1>3. CASE UNCHANGED scheduler
  <2>1. Leaves
    BY <1>1, PendingDrops, SetStays DEF Leaves, service
  <2>. QED BY <1>1, <1>3, <2>1, StillTokens DEF scheduler
<1>. QED BY <1>1, <1>2, <1>3

LEMMA ReactivateAbortedTokens ==
  ASSUME HostInv, TokensInv, NEW p \in Plugins, ReactivateAborted(p)
  PROVE  TokensInv'
<1> DEFINE gen == aborted[p].gen
           new == IF queue[p] = None THEN NewQueue(gen, nextInc, Fresh)
                  ELSE Activate(queue[p], gen, nextInc, Fresh)
<1>1. /\ SetQueue(p, new) \/ UNCHANGED scheduler
      /\ KeepPending(pending) /\ UNCHANGED <<closed, nextRequest, prepared, service>>
  BY DEF ReactivateAborted
<1>2. gen \in Nat /\ nextInc \in Nat
  BY DEF ReactivateAborted, HostInv, ManagerOK, Bundles
<1> HIDE DEF gen
<1>3. CASE SetQueue(p, new)
  <2>1. Fresh \in Tokens
    BY <1>3, SetQueueFresh
  <2>2. Sound(p, new) /\ new.pub = Fresh /\ Holds(queue[p], new)
    <3>1. CASE queue[p] = None
      BY <1>2, <2>1, <3>1, NewQueueSound, NewHolds DEF NewQueue
    <3>2. CASE queue[p] # None
      BY <1>2, <2>1, <3>2, ThereSound, ActivateMoves, ActivateSound
    <3>. QED BY <3>1, <3>2
  <2>3. Moves(queue[p], new, Fresh)
    BY <2>2, FreshMoves
  <2> HIDE DEF new
  <2>. QED BY <1>1, <1>3, <2>3, CalmTokens
<1>4. CASE UNCHANGED scheduler
  <2>1. Leaves
    BY <1>1, PendingDrops, SetStays DEF Leaves, service
  <2>. QED BY <1>1, <1>4, <2>1, StillTokens DEF scheduler
<1>. QED BY <1>1, <1>3, <1>4

-----------------------------------------------------------------------------
(* Timeouts *)

LEMMA PassFinishTokens ==
  ASSUME HostInv, TokensInv, NEW w \in Watchers, PassFinish(w)
  PROVE  TokensInv'
<1> DEFINE p == pass[w].cur.plugin
           new == RuntimeReplaced(queue[p], pass[w].inc, Fresh)
<1>1. /\ \/ queue[p] # None /\ CanReplace(queue[p], pass[w].gen) /\ SetQueue(p, new)
         \/ UNCHANGED scheduler
      /\ KeepPending(pending) /\ UNCHANGED <<closed, nextRequest, prepared, service>>
  BY DEF PassFinish
<1>2. p \in Plugins /\ pass[w].inc \in Nat
  BY BusyRun DEF PassFinish, HostInv
<1>3. CASE queue[p] # None /\ CanReplace(queue[p], pass[w].gen) /\ SetQueue(p, new)
  <2>1. Moves(queue[p], new, Fresh)
    BY <1>2, <1>3, ThereSound, SetQueueFresh, ReplacedMoves
  <2> HIDE DEF p, new
  <2>. QED BY <1>1, <1>2, <1>3, <2>1, CalmTokens
<1>4. CASE UNCHANGED scheduler
  <2>1. Leaves
    BY <1>1, PendingDrops, SetStays DEF Leaves, service
  <2>. QED BY <1>1, <1>4, <2>1, StillTokens DEF scheduler
<1>. QED BY <1>1, <1>3, <1>4

LEMMA PassCommitFaultTokens ==
  ASSUME HostInv, TokensInv, NEW w \in Watchers, PassCommitFault(w)
  PROVE  TokensInv'
<1>1. pass[w].cur.plugin \in Plugins
  BY BusyRun DEF PassCommitFault, HostInv
<1>. QED BY <1>1, PublishFaultTokens DEF PassCommitFault

LEMMA ExpireTokens ==
  ASSUME HostInv, TokensInv, NEW w \in Watchers, Expire(w)
  PROVE  TokensInv'
<1>1. PICK due \in SUBSET {p \in Plugins : queue[p] # None /\ queue[p].running # None} :
        /\ queue' = [p \in Plugins |-> IF p \in due THEN ExpireRunning(queue[p]) ELSE queue[p]]
        /\ live' = live \ {queue[p].pub : p \in due}
  BY DEF Expire
<1>2. Leaves
  BY PendingDrops, SetStays DEF Leaves, service, Expire
<1>3. \A p \in due :
        /\ p \in Plugins /\ queue[p] # None
        /\ Sound(p, ExpireRunning(queue[p])) /\ Holds(queue[p], ExpireRunning(queue[p]))
        /\ ExpireRunning(queue[p]).pub = queue[p].pub /\ ExpireRunning(queue[p]).rebuilding
  BY ThereSound, ExpireMoves, ExpireSound
<1>4. QueuesHold
  BY <1>1, <1>3, SelfHolds DEF QueuesHold
<1>5. Kept
  BY <1>1 DEF Kept
<1>6. HeldKept /\ ExecutingKept
  BY <1>2, <1>4, LeavesKeep DEF TokensInv
<1>7. NumbersOK' /\ RoutesOK'
  BY <1>5, <1>6, RoutesFrame DEF TokensInv
<1>8. ClaimsOK'
  BY <1>6, ClaimsFrame DEF TokensInv
<1>9. PublishedOK'
  <2>1. \A p \in Plugins : queue'[p] # None =>
           /\ queue[p] # None /\ queue'[p].pub = queue[p].pub
           /\ ~queue'[p].rebuilding => p \notin due /\ queue'[p] = queue[p]
    BY <1>1, <1>3
  <2>2. \A p, x \in Plugins :
          p # x /\ queue'[p] # None /\ queue'[x] # None => queue'[p].pub # queue'[x].pub
    BY <2>1 DEF TokensInv, PublishedOK
  <2>3. results' # None => \A p \in Plugins : queue'[p] # None => queue'[p].pub # results'.lease
    BY <1>2, <2>1 DEF TokensInv, PublishedOK, Leaves, SetKept
  <2>4. ASSUME closed' = "open", NEW p \in Plugins, queue'[p] # None, ~queue'[p].rebuilding
        PROVE  queue'[p].pub \in live'
    <3>1. queue[p] # None /\ queue'[p] = queue[p] /\ p \notin due /\ queue[p].pub \in live
      BY <2>1, <2>4 DEF TokensInv, PublishedOK, Expire
    <3>2. \A x \in due : queue[x].pub # queue[p].pub
      BY <1>3, <3>1 DEF TokensInv, PublishedOK
    <3>. QED BY <1>1, <3>1, <3>2
  <2>. QED BY <2>2, <2>3, <2>4 DEF PublishedOK
<1>. QED BY <1>7, <1>8, <1>9 DEF TokensInv

\* Queues that change keep publication and identity.
InPlace ==
    \A x \in Plugins :
        \/ queue'[x] = queue[x]
        \/ /\ queue[x] # None /\ queue'[x] # None
           /\ Same(queue[x], queue'[x]) /\ Holds(queue[x], queue'[x])

LEMMA InPlaceHolds == InPlace => QueuesHold
  BY SelfHolds DEF InPlace, QueuesHold

LEMMA InPlaceKept ==
  ASSUME InPlace, \A t \in Referenced : t \in live' => t \in live
  PROVE  Kept
  BY DEF InPlace, Kept, Same

LEMMA SetQueueInPlace ==
  ASSUME HostInv, NEW p \in Plugins, queue[p] # None, NEW new, new # None,
         queue' = [queue EXCEPT ![p] = new], Same(queue[p], new), Holds(queue[p], new)
  PROVE  InPlace
<1>1. queue \in [Plugins -> Queues \cup {None}]
  BY DEF HostInv, QueuesOK
<1>2. \A x \in Plugins : queue'[x] = IF x = p THEN new ELSE queue[x]
  BY <1>1
<1>. QED BY <1>2 DEF InPlace

\* Who executes a result action holds a lease that is referred to.
LEMMA ExecutingHeld ==
  ASSUME ClaimsOK
  PROVE  /\ Executing \subseteq ResultsHeld
         /\ \A c \in Executing : c.lease \in Referenced
<1>1. \A f \in finishing : f.req \in ResultsHeld
  BY DEF ClaimsOK, ResultsHeld
<1>2. \A p \in Plugins : RunsIn(queue[p]) \subseteq ResultsHeld
  BY DEF ResultsHeld, ResultsIn
<1>3. Executing \subseteq ResultsHeld
  BY <1>1, <1>2 DEF Executing
<1>. QED BY <1>3, ReferencedFacts

\* No lease dies or appears.
LEMMA InPlaceTokens ==
  ASSUME HostInv, TokensInv, InPlace, UNCHANGED <<live, closed>>, Leaves
  PROVE  TokensInv'
<1>1. QueuesHold /\ Kept
  BY InPlaceHolds, InPlaceKept
<1>2. HeldKept /\ ExecutingKept
  BY <1>1, LeavesKeep DEF TokensInv
<1>3. NumbersOK' /\ RoutesOK'
  BY <1>1, <1>2, RoutesFrame DEF TokensInv
<1>4. ClaimsOK'
  BY <1>2, ClaimsFrame DEF TokensInv
<1>5. PublishedOK'
  BY DEF TokensInv, PublishedOK, Leaves, SetKept, InPlace, Same
<1>. QED BY <1>3, <1>4, <1>5 DEF TokensInv

\* A new result set under a new lease.
LEMMA ShowTokens ==
  ASSUME HostInv, TokensInv, InPlace, NEW p \in Plugins, NEW o, Show(p, o),
         live' = (live \ OldLease) \cup {Fresh},
         o.pub \in Referenced, Routed(queue[p], live, o),
         prepared' \subseteq prepared, finishing' \subseteq finishing,
         answers' \subseteq answers, UNCHANGED <<pending, nextRequest, closed>>
  PROVE  TokensInv'
<1>1. Fresh \notin Referenced
  BY FreshNew DEF Show
<1>2. QueuesHold /\ Kept
  BY <1>1, InPlaceHolds, InPlaceKept
<1>3. /\ results'.plugin = p /\ results'.gen = o.gen /\ results'.inc = o.inc
      /\ results'.pub = o.pub /\ results'.lease = Fresh
  BY DEF Show
<1>4. NumbersOK'
  <2>1. NumbersKept
    BY <1>2 DEF NumbersKept, QueuesHold, Holds, CommandsOf, HostInv, RequestsOK
  <2>. QED BY <2>1, NumbersFrame DEF TokensInv
<1>5. RoutesOK'
  <2>1. ResultsHeld' \subseteq ResultsHeld
    BY <1>2 DEF QueuesHold, Holds, ResultsHeld
  <2>2. PendingRouted
    <3>1. \A x \in Plugins : CommandsOf(x)' \subseteq CommandsOf(x)
      BY <1>2 DEF QueuesHold, Holds, CommandsOf
    <3>. QED BY <3>1 DEF PendingRouted
  <2>3. HeldRouted
    BY <2>1 DEF HeldRouted
  <2>4. SetRouted
    <3>1. Routed(queue'[p], live', o)
      BY <1>2, KeptRouted
    <3>. QED BY <1>3, <3>1 DEF SetRouted, Routed, SameIdentity
  <2>. QED BY <1>2, <2>2, <2>3, <2>4, RoutesStep DEF TokensInv
<1>6. ClaimsOK'
  <2>1. Executing' \subseteq Executing
    BY <1>2 DEF QueuesHold, Holds, Executing
  <2>2. \A c \in Executing : c.lease # Fresh
    BY <1>1, ExecutingHeld DEF TokensInv
  <2>. QED BY <1>3, <2>1, <2>2 DEF TokensInv, ClaimsOK
<1>7. PublishedOK'
  <2>1. \A x \in Plugins : queue'[x] # None =>
          /\ queue[x] # None /\ queue'[x].pub = queue[x].pub /\ queue[x].pub # Fresh
          /\ queue'[x].rebuilding = queue[x].rebuilding
          /\ queue[x].pub \notin OldLease
    BY <1>1, ReferencedFacts DEF InPlace, Same, OldLease, TokensInv, PublishedOK
  <2>. QED BY <1>3, <2>1 DEF TokensInv, PublishedOK
<1>. QED BY <1>4, <1>5, <1>6, <1>7 DEF TokensInv

-----------------------------------------------------------------------------
(* Answers *)

LEMMA PublishAnswerTokens ==
  ASSUME HostInv, TokensInv, NEW a \in answers, PublishAnswer(a)
  PROVE  TokensInv'
<1>1. InPlace /\ UNCHANGED <<closed, nextRequest, prepared, pending, finishing>>
      /\ answers' \subseteq answers
  BY DEF PublishAnswer, InPlace
<1>2. CASE ResultOwner(a.plugin, a)
  <2>1. a.plugin \in Plugins /\ a.pub \in Referenced
    BY HeldTypes, ReferencedFacts
  <2>2. Routed(queue[a.plugin], live, a)
    BY DEF TokensInv, RoutesOK
  <2>3. Show(a.plugin, a) /\ live' = (live \ OldLease) \cup {Fresh}
    BY <1>2 DEF PublishAnswer
  <2>. QED BY <1>1, <2>1, <2>2, <2>3, ShowTokens
<1>3. CASE ~ResultOwner(a.plugin, a)
  <2>1. UNCHANGED <<live, results>>
    BY <1>3 DEF PublishAnswer
  <2>2. Leaves
    BY <1>1, <2>1, PendingStays, SetStays DEF Leaves
  <2>. QED BY <1>1, <2>1, <2>2, InPlaceTokens
<1>. QED BY <1>2, <1>3

LEMMA FinishResultActionTokens ==
  ASSUME HostInv, TokensInv, NEW f \in finishing, FinishResultAction(f)
  PROVE  TokensInv'
<1> DEFINE p == f.req.plugin
<1>1. p \in Plugins /\ f.req \in ResultsHeld
  BY HeldTypes DEF TokensInv, ClaimsOK, ResultsHeld
<1>2. InPlace
  <2>1. CASE queue' = queue
    BY <2>1 DEF InPlace
  <2>2. CASE queue[p] # None /\ queue' = [queue EXCEPT ![p] = TakeTicket(queue[p])]
    <3>1. Sound(p, queue[p]) /\ Sound(p, TakeTicket(queue[p]))
      BY <1>1, <2>2, ThereSound, TakeTicketSound
    <3>2. TakeTicket(queue[p]) # None /\ Same(queue[p], TakeTicket(queue[p]))
          /\ Holds(queue[p], TakeTicket(queue[p]))
      BY <3>1, SoundThere, TakeTicketMoves
    <3> HIDE DEF p
    <3>. QED BY <1>1, <2>2, <3>2, SetQueueInPlace
  <2>3. queue \in [Plugins -> Queues \cup {None}]
    BY DEF HostInv, QueuesOK
  <2>. QED BY <1>1, <2>1, <2>2, <2>3 DEF FinishResultAction
<1>3. /\ finishing' \subseteq finishing
      /\ UNCHANGED <<closed, nextRequest, prepared, pending, answers>>
  BY DEF FinishResultAction
<1>4. CASE Show(p, f.req) /\ live' = (live \ OldLease) \cup {Fresh}
  <2>1. f.req.pub \in Referenced /\ Routed(queue[p], live, f.req)
    BY <1>1, ReferencedFacts DEF TokensInv, RoutesOK
  <2>. QED BY <1>1, <1>2, <1>3, <1>4, <2>1, ShowTokens
<1>5. CASE /\ UNCHANGED live
           /\ \/ results # None /\ results' = [results EXCEPT !.claim = "consumed"]
              \/ UNCHANGED results
  <2>1. SetKept
    <3>1. CASE UNCHANGED results
      BY <3>1, SetStays
    <3>2. CASE results # None /\ results' = [results EXCEPT !.claim = "consumed"]
      <4>1. results \in ResultSets
        BY <3>2 DEF HostInv, ServiceOK
      <4>. QED BY <3>2, <4>1 DEF SetKept, ResultSets
    <3>. QED BY <1>5, <3>1, <3>2
  <2>2. Leaves
    BY <1>3, <2>1, PendingStays DEF Leaves
  <2>. QED BY <1>2, <1>3, <1>5, <2>2, InPlaceTokens
<1>. QED BY <1>4, <1>5 DEF FinishResultAction

LEMMA CompleteRequestTokens ==
  ASSUME HostInv, TokensInv, NEW p \in Plugins, CompleteRequest(p)
  PROVE  TokensInv'
<1> DEFINE q == queue[p]
           r == q.running
           s == pending[r.req.id]
           answer == [plugin |-> p, id |-> r.req.id, gen |-> s.gen, inc |-> s.inc,
                      pub |-> s.pub]
           finish == [req |-> r.req, accepted |-> Accepted(q, live)]
           new == Complete(q, live)
<1>1. /\ q # None /\ r # None /\ ~Unbound(p) /\ SetQueue(p, new) /\ KeepPending(pending)
      /\ answers' = answers \/ (/\ r.req.kind = "command" /\ p \in ResultPlugins
                                /\ answers' = answers \cup {answer})
      /\ finishing' = finishing \/ (/\ r.req.kind = "result"
                                    /\ finishing' = finishing \cup {finish})
      /\ UNCHANGED <<closed, nextRequest, prepared, results>>
  BY DEF CompleteRequest
<1>2. Sound(p, q) /\ q \in Queues
  BY <1>1, ThereSound, SoundThere
<1>3. Moves(q, new, Fresh)
  BY <1>1, <1>2, CompleteSound, CompleteMoves, SameSoundMoves
<1>4. QueuesHold /\ Kept
  BY <1>1, <1>3, SetQueueHolds, SetQueueKept DEF Moves
<1>5. finish.req = r.req /\ answer.plugin = p /\ answer.pub = s.pub
      /\ answer.gen = s.gen /\ answer.inc = s.inc
  OBVIOUS
<1>6. r.req.kind = "result" => r.req \in RunsIn(q) /\ r.req \in ResultsHeld /\ r.req \in Executing
  BY <1>1 DEF RunsIn, ResultsHeld, ResultsIn, Executing
<1>7. NumbersOK'
  <2>1. \A x \in Plugins : CommandsOf(x)' \subseteq CommandsOf(x)
    BY <1>1, <1>4 DEF QueuesHold, Holds, CommandsOf
  <2>2. nextRequest' \in Nat /\ nextRequest' >= nextRequest
    BY <1>1 DEF HostInv, RequestsOK
  <2>. QED BY <2>1, <2>2, NumbersFrame DEF TokensInv, NumbersKept
<1>8. r.req.kind = "command" /\ p \in ResultPlugins =>
         s # None /\ s.pub \in Referenced /\ Routed(queue'[p], live', s)
  <2> SUFFICES ASSUME r.req.kind = "command", p \in ResultPlugins
               PROVE  s # None /\ s.pub \in Referenced /\ Routed(queue'[p], live', s)
    OBVIOUS
  <2>1. s # None
    BY <1>1 DEF Unbound
  <2>2. r.req.id \in Requests
    BY <1>1, <1>2 DEF Queues, RunningRequests, Candidates
  <2>3. r.req.id \in CommandsOf(p)
    BY <1>1, <2>2 DEF CommandsOf, CommandsIn
  <2>4. Routed(q, live, s) /\ s.pub \in Referenced
    BY <2>1, <2>2, <2>3, ReferencedFacts DEF TokensInv, RoutesOK
  <2>. QED BY <1>4, <2>1, <2>4, KeptRouted
<1> HIDE DEF q, r, s, answer, finish, new
<1>9. PendingRouted
  <2>1. \A x \in Plugins : /\ CommandsOf(x)' \subseteq CommandsOf(x)
                           /\ CommandsOf(x) \subseteq Requests
    BY <1>1, <1>4, HeldTypes DEF QueuesHold, Holds, CommandsOf
  <2>. QED BY <1>1, <2>1, PendingDrops DEF PendingRouted, PendingKept
<1>10. HeldRouted
  <2>1. ResultsHeld' \subseteq ResultsHeld
    <3>1. \A f \in finishing' : f \in finishing \/ (f.req = r.req /\ r.req.kind = "result")
      BY <1>1, <1>5
    <3>2. \A f \in finishing' : f.req.kind = "result" => f.req \in ResultsHeld
      BY <1>6, <3>1 DEF ResultsHeld
    <3>3. \A x \in Plugins : ResultsIn(queue'[x]) \subseteq ResultsHeld
      BY <1>4 DEF QueuesHold, Holds, ResultsHeld
    <3>4. \A c \in prepared' : c.kind = "result" => c \in ResultsHeld
      BY <1>1 DEF ResultsHeld
    <3>. QED BY <3>2, <3>3, <3>4 DEF ResultsHeld
  <2>2. \A a \in answers' : a \in answers \/ Routed(queue'[a.plugin], live', a)
    BY <1>1, <1>5, <1>8 DEF Routed, SameIdentity
  <2>. QED BY <2>1, <2>2 DEF HeldRouted
<1>11. SetRouted /\ SetKept
  BY <1>1, SetStays DEF SetRouted
<1>12. RoutesOK'
  BY <1>4, <1>9, <1>10, <1>11, RoutesStep DEF TokensInv
<1>13. ClaimsOK'
  <2>1. \A f \in finishing' : f \in finishing \/ (f.req = r.req /\ r.req.kind = "result")
    BY <1>1, <1>5
  <2>2. \A f \in finishing' : f.req.kind = "result" /\ f.req \in Executing
    BY <1>6, <2>1 DEF Executing, TokensInv, ClaimsOK
  <2>3. \A x \in Plugins : RunsIn(queue'[x]) \subseteq Executing
    BY <1>4 DEF QueuesHold, Holds, Executing
  <2>4. Executing' \subseteq Executing
    BY <2>2, <2>3 DEF Executing
  <2>. QED BY <1>11, <2>2, <2>4, ClaimsFrame DEF TokensInv, ExecutingKept
<1>14. PublishedOK'
  BY <1>1, <1>3, <1>11, SetQueuePublished DEF TokensInv, Moves, q
<1>. QED BY <1>7, <1>12, <1>13, <1>14 DEF TokensInv

-----------------------------------------------------------------------------
(* Requests that arrive *)

\* The queue an admitted request goes to: found, or made for it.
LEMMA EnqueuedFacts ==
  ASSUME HostInv, NEW c \in Candidates, NEW p \in Plugins, c.plugin = p,
         NEW q, q = (IF queue[p] = None THEN NewQueue(c.gen, c.inc, Fresh) ELSE queue[p]),
         Accepts(q, c), SetQueue(p, Enqueue(q, c))
  PROVE  /\ Exchanged(queue[p], Enqueue(q, c), Fresh)
         /\ \A x \in Plugins :
               /\ CommandsIn(queue'[x]) \subseteq CommandsIn(queue[x])
                     \cup (IF x = p /\ c.kind = "command" THEN {c.id} ELSE {})
               /\ RunsIn(queue'[x]) \subseteq RunsIn(queue[x])
               /\ ResultsIn(queue'[x]) \subseteq ResultsIn(queue[x])
<1> DEFINE new == Enqueue(q, c)
<1>1. Fresh \in Tokens /\ c.gen \in Nat /\ c.inc \in Nat
  BY SetQueueFresh DEF Candidates
<1>2. Sound(p, q)
  BY <1>1, FoundSound DEF HostInv
<1>3. Sound(p, new) /\ new # None
  BY <1>2, EnqueueSound, SoundThere
<1>4. Holds(queue[p], q)
  BY SelfHolds, NewHolds
<1>5. /\ Same(q, new)
      /\ CommandsIn(new) \subseteq CommandsIn(q) \cup (IF c.kind = "command" THEN {c.id} ELSE {})
      /\ RunsIn(new) \subseteq RunsIn(q) /\ ResultsIn(new) \subseteq ResultsIn(q)
  BY <1>2, EnqueueMoves
<1>6. queue[p] = None => q.pub = Fresh
  BY DEF NewQueue
<1>7. queue \in [Plugins -> Queues \cup {None}]
  BY DEF HostInv, QueuesOK
<1>8. \A x \in Plugins : queue'[x] = IF x = p THEN new ELSE queue[x]
  BY <1>7 DEF SetQueue
<1> HIDE DEF new
<1>9. Exchanged(queue[p], new, Fresh)
  BY <1>3, <1>5, <1>6 DEF Exchanged, Same
<1>. QED BY <1>4, <1>5, <1>8, <1>9 DEF Holds, new

LEMMA SubmitTokens ==
  ASSUME HostInv, TokensInv, NEW c \in prepared, Submit(c)
  PROVE  TokensInv'
<1> DEFINE p == c.plugin
           q == IF queue[p] = None THEN NewQueue(c.gen, c.inc, Fresh) ELSE queue[p]
           left == IF q.rebuilding THEN [pending EXCEPT ![c.id] = None] ELSE pending
<1>1. c \in Candidates /\ p \in Plugins /\ c.id \in Requests
  BY DEF HostInv, RequestsOK, Candidates
<1>2. /\ c.kind = "command" /\ prepared' = prepared \ {c} /\ KeepPending(left)
      /\ \/ Accepts(q, c) /\ SetQueue(p, Enqueue(q, c))
         \/ UNCHANGED scheduler
      /\ UNCHANGED <<closed, nextRequest, service>>
  BY DEF Submit
<1>3. PendingKept
  <2>1. \A r \in Requests : left[r] # None => left[r] = pending[r]
    BY DEF HostInv, RequestsOK
  <2>. QED BY <1>2, <2>1 DEF PendingKept, KeepPending
<1>4. SetKept
  BY <1>2, SetStays DEF service
<1>5. CASE UNCHANGED scheduler
  <2>1. Leaves
    BY <1>2, <1>3, <1>4 DEF Leaves, service
  <2>. QED BY <1>2, <1>5, <2>1, StillTokens DEF scheduler
<1>6. CASE Accepts(q, c) /\ SetQueue(p, Enqueue(q, c))
  <2>1. /\ Exchanged(queue[p], Enqueue(q, c), Fresh)
        /\ \A x \in Plugins :
               /\ CommandsIn(queue'[x]) \subseteq CommandsIn(queue[x])
                     \cup (IF x = p /\ c.kind = "command" THEN {c.id} ELSE {})
               /\ RunsIn(queue'[x]) \subseteq RunsIn(queue[x])
               /\ ResultsIn(queue'[x]) \subseteq ResultsIn(queue[x])
    BY <1>1, <1>6, EnqueuedFacts
  <2> DEFINE new == Enqueue(q, c)
  <2> SetQueue(p, new) /\ Exchanged(queue[p], new, Fresh)
    BY <1>6, <2>1
  <2> HIDE DEF new
  <2>2. Kept
    BY <1>1, SetQueueKept
  <2>3. PublishedOK'
    BY <1>1, <1>2, <1>4, SetQueuePublished DEF TokensInv
  <2>4. \A x \in Plugins : CommandsOf(x)' \subseteq CommandsOf(x)
    BY <1>2, <2>1 DEF CommandsOf
  <2>5. ResultsHeld' \subseteq ResultsHeld /\ Executing' \subseteq Executing
    BY <1>2, <2>1 DEF ResultsHeld, Executing, service
  <2>6. HeldKept
    BY <1>2, <1>3, <1>4, <2>4, <2>5 DEF HeldKept, HostInv, RequestsOK, service
  <2>7. ExecutingKept
    BY <1>2, <1>4, <2>5 DEF ExecutingKept, TokensInv, ClaimsOK, service
  <2>. QED BY <2>2, <2>3, <2>6, <2>7, RoutesFrame, ClaimsFrame DEF TokensInv
<1>. QED BY <1>2, <1>5, <1>6

LEMMA ContentActionTokens ==
  ASSUME HostInv, TokensInv, NEW p \in Plugins, ContentAction(p)
  PROVE  TokensInv'
<1> DEFINE c == NewCandidate(p, "content", bundle[p], None)
           q == IF queue[p] = None THEN NewQueue(c.gen, c.inc, Fresh) ELSE queue[p]
           new == Enqueue(q, c)
<1>1. /\ Accepts(q, c) /\ SetQueue(p, new) /\ nextRequest' = nextRequest + 1
      /\ nextRequest \in Requests
      /\ UNCHANGED <<closed, prepared, pending, service>>
  BY DEF ContentAction
<1>2. c \in Candidates /\ c.plugin = p /\ c.kind = "content"
  <2>1. bundle[p] \in Bundles
    BY DEF ContentAction, Confirmed, HostInv, ManagerOK
  <2>. QED BY <1>1, <2>1, NewCandidateType DEF Bundles, Kinds, NewCandidate
<1> HIDE DEF c
<1>3. /\ Exchanged(queue[p], new, Fresh)
      /\ \A x \in Plugins :
             /\ CommandsIn(queue'[x]) \subseteq CommandsIn(queue[x])
                   \cup (IF x = p /\ c.kind = "command" THEN {c.id} ELSE {})
             /\ RunsIn(queue'[x]) \subseteq RunsIn(queue[x])
             /\ ResultsIn(queue'[x]) \subseteq ResultsIn(queue[x])
  BY <1>1, <1>2, EnqueuedFacts
<1> HIDE DEF new
<1>4. SetKept /\ PendingKept
  BY <1>1, SetStays, PendingStays DEF service
<1>5. Kept /\ PublishedOK'
  BY <1>1, <1>3, <1>4, SetQueueKept, SetQueuePublished DEF TokensInv
<1>6. \A x \in Plugins : CommandsOf(x)' \subseteq CommandsOf(x)
  BY <1>1, <1>2, <1>3 DEF CommandsOf
<1>7. ResultsHeld' \subseteq ResultsHeld /\ Executing' \subseteq Executing
  BY <1>1, <1>3 DEF ResultsHeld, Executing, service
<1>8. HeldKept
  BY <1>1, <1>4, <1>6, <1>7 DEF HeldKept, HostInv, RequestsOK, service
<1>9. ExecutingKept
  BY <1>1, <1>4, <1>7 DEF ExecutingKept, TokensInv, ClaimsOK, service
<1>. QED BY <1>5, <1>8, <1>9, RoutesFrame, ClaimsFrame DEF TokensInv

LEMMA PrepareTokens ==
  ASSUME HostInv, TokensInv, NEW p \in Plugins, Prepare(p)
  PROVE  TokensInv'
<1> DEFINE b == bundle[p]
           pub == IF p \in ResultPlugins THEN queue[p].pub ELSE None
           c == NewCandidate(p, "command", b, None)
           route == [gen |-> b.gen, inc |-> b.inc, pub |-> pub, recovery |-> b.recovery,
                     bound |-> FALSE]
<1>1. /\ nextRequest' = nextRequest + 1 /\ nextRequest \in Requests
      /\ prepared' = prepared \cup {c} /\ pending' = [pending EXCEPT ![c.id] = route]
      /\ UNCHANGED <<scheduler, closed, service>>
      /\ p \in ResultPlugins => queue[p] # None /\ SameIdentity(queue[p], b)
  BY DEF Prepare
<1>2. /\ c.plugin = p /\ c.kind = "command" /\ c.id = nextRequest
      /\ route.pub = pub /\ route.gen = b.gen /\ route.inc = b.inc
  BY DEF NewCandidate
<1>3. Routed(queue[p], live, route)
  BY <1>1 DEF Routed, SameIdentity
<1> HIDE DEF c, route
<1>4. \A r \in Requests : pending'[r] = IF r = nextRequest THEN route ELSE pending[r]
  BY <1>1, <1>2 DEF HostInv, RequestsOK
<1>5. CommandsOf(p)' \subseteq CommandsOf(p) \cup {nextRequest}
  BY <1>1, <1>2 DEF CommandsOf, scheduler
<1>6. \A x \in Plugins : x # p => CommandsOf(x)' \subseteq CommandsOf(x)
  BY <1>1, <1>2 DEF CommandsOf, scheduler
<1>7. NumbersOK'
  BY <1>1, <1>5, <1>6, NumberTaken DEF TokensInv
<1>8. Kept
  BY <1>1 DEF Kept, scheduler
<1>9. PendingRouted
  <2>1. \A x \in Plugins : CommandsOf(x) \subseteq Requests
    BY HeldTypes
  <2>2. nextRequest \notin UNION {CommandsOf(x) : x \in Plugins}
    <3>1. nextRequest \in Nat
      BY DEF HostInv, RequestsOK
    <3>. QED BY <3>1 DEF TokensInv, NumbersOK
  <2>3. ASSUME NEW x \in Plugins, NEW r \in CommandsOf(x)', r = nextRequest
        PROVE  Routed(queue'[x], live', pending'[r])
    BY <1>1, <1>3, <1>4, <1>6, <2>2, <2>3 DEF scheduler
  <2>4. ASSUME NEW x \in Plugins, NEW r \in CommandsOf(x)', r # nextRequest
        PROVE  r \in CommandsOf(x) /\ pending'[r] = pending[r]
    BY <1>4, <1>5, <1>6, <2>1, <2>4
  <2>. QED BY <2>3, <2>4 DEF PendingRouted
<1>10. ResultsHeld' = ResultsHeld /\ Executing' = Executing
  BY <1>1, <1>2 DEF ResultsHeld, Executing, scheduler, service
<1>11. HeldRouted /\ SetRouted /\ SetKept
  BY <1>1, <1>10, SetStays DEF HeldRouted, SetRouted, service
<1>12. ClaimsOK'
  BY <1>1, <1>10, <1>11, ClaimsFrame DEF TokensInv, ClaimsOK, ExecutingKept, service
<1>13. PublishedOK'
  BY <1>1 DEF TokensInv, PublishedOK, scheduler, service
<1>. QED BY <1>7, <1>8, <1>9, <1>11, <1>12, <1>13, RoutesStep DEF TokensInv

LEMMA BindRouteTokens ==
  ASSUME HostInv, TokensInv, NEW p \in Plugins, BindRoute(p)
  PROVE  TokensInv'
<1> DEFINE q == queue[p]
           id == q.running.req.id
           route == [gen |-> q.gen, inc |-> q.inc, pub |-> q.pub, recovery |-> FALSE,
                     bound |-> TRUE]
<1>1. /\ q # None /\ q.running # None /\ q.running.req.kind = "command"
      /\ pending' = [pending EXCEPT ![id] = route]
      /\ UNCHANGED <<scheduler, closed, nextRequest, prepared, service>>
  BY DEF BindRoute, Unbound
<1>2. id \in Requests /\ id \in CommandsOf(p)
  <2>1. q \in Queues
    BY <1>1 DEF HostInv, QueuesOK
  <2>. QED BY <1>1, <2>1 DEF Queues, RunningRequests, Candidates, CommandsOf, CommandsIn
<1>3. Routed(queue[p], live, route)
  BY <1>1 DEF Routed, SameIdentity
<1> HIDE DEF route, id
<1>4. \A r \in Requests : pending'[r] = IF r = id THEN route ELSE pending[r]
  BY <1>1 DEF HostInv, RequestsOK
<1>5. \A x \in Plugins : CommandsOf(x)' = CommandsOf(x)
  BY <1>1 DEF CommandsOf, scheduler
<1>6. NumbersOK'
  BY <1>1, <1>5 DEF TokensInv, NumbersOK
<1>7. Kept
  BY <1>1 DEF Kept, scheduler
<1>8. PendingRouted
  <2>1. \A x \in Plugins : CommandsOf(x) \subseteq Requests
    BY HeldTypes
  <2>2. \A x \in Plugins : id \in CommandsOf(x) => x = p
    BY <1>2 DEF TokensInv, NumbersOK
  <2>. QED BY <1>1, <1>3, <1>4, <1>5, <2>1, <2>2 DEF PendingRouted, scheduler
<1>9. ResultsHeld' = ResultsHeld /\ Executing' = Executing
  BY <1>1 DEF ResultsHeld, Executing, scheduler, service
<1>10. HeldRouted /\ SetRouted /\ SetKept
  BY <1>1, <1>9, SetStays DEF HeldRouted, SetRouted, service
<1>11. ClaimsOK'
  BY <1>1, <1>9, <1>10, ClaimsFrame DEF TokensInv, ClaimsOK, ExecutingKept, service
<1>12. PublishedOK'
  BY <1>1 DEF TokensInv, PublishedOK, scheduler, service
<1>. QED BY <1>6, <1>7, <1>8, <1>10, <1>11, <1>12, RoutesStep DEF TokensInv

LEMMA ReserveResultTokens ==
  ASSUME HostInv, TokensInv, ReserveResult
  PROVE  TokensInv'
<1> DEFINE c == NewCandidate(results.plugin, "result", results, results.lease)
<1>1. /\ results # None /\ nextRequest' = nextRequest + 1 /\ prepared' = prepared \cup {c}
      /\ UNCHANGED <<scheduler, closed, pending, service>>
  BY DEF ReserveResult
<1>2. /\ c.plugin = results.plugin /\ c.kind = "result"
      /\ c.gen = results.gen /\ c.inc = results.inc /\ c.pub = results.pub
  BY DEF NewCandidate
<1>3. Routed(queue[c.plugin], live, c)
  BY <1>1, <1>2 DEF TokensInv, RoutesOK, Routed, SameIdentity
<1> HIDE DEF c
<1>4. \A x \in Plugins : CommandsOf(x)' = CommandsOf(x)
  BY <1>1, <1>2 DEF CommandsOf, scheduler
<1>5. NumbersOK'
  <2>1. NumbersKept
    BY <1>1, <1>4 DEF NumbersKept, HostInv, RequestsOK
  <2>. QED BY <2>1, NumbersFrame DEF TokensInv
<1>6. Kept /\ PendingRouted
  <2>1. \A x \in Plugins : CommandsOf(x) \subseteq Requests
    BY HeldTypes
  <2>. QED BY <1>1, <1>4, <2>1 DEF Kept, PendingRouted, scheduler
<1>7. ResultsHeld' \subseteq ResultsHeld \cup {c} /\ Executing' = Executing
  BY <1>1 DEF ResultsHeld, Executing, scheduler, service
<1>8. HeldRouted /\ SetRouted /\ SetKept
  BY <1>1, <1>3, <1>7, SetStays DEF HeldRouted, SetRouted, service, scheduler
<1>9. ClaimsOK'
  BY <1>1, <1>7, <1>8, ClaimsFrame DEF TokensInv, ClaimsOK, ExecutingKept, service
<1>10. PublishedOK'
  BY <1>1 DEF TokensInv, PublishedOK, scheduler, service
<1>. QED BY <1>5, <1>6, <1>8, <1>9, <1>10, RoutesStep DEF TokensInv

LEMMA AdmitResultActionTokens ==
  ASSUME HostInv, TokensInv, NEW c \in prepared, AdmitResultAction(c)
  PROVE  TokensInv'
<1> DEFINE p == c.plugin
           new == AdmitResult(queue[p], c)
<1>1. c \in Candidates /\ p \in Plugins
  BY DEF HostInv, RequestsOK, Candidates
<1>2. /\ c.kind = "result" /\ prepared' = prepared \ {c} /\ KeepPending(pending)
      /\ UNCHANGED <<closed, nextRequest, answers, finishing>>
  BY DEF AdmitResultAction
<1>3. CASE UNCHANGED <<scheduler, results>>
  <2>1. Leaves
    BY <1>2, <1>3, PendingDrops, SetStays DEF Leaves
  <2>. QED BY <1>2, <1>3, <2>1, StillTokens DEF scheduler
<1>4. CASE /\ queue[p] # None /\ AdmitsResult(queue[p], c) /\ Claimable(c)
           /\ SetQueue(p, new) /\ results' = [results EXCEPT !.claim = "inflight"]
  <2>1. Sound(p, queue[p])
    BY <1>1, <1>4, ThereSound
  <2>2. /\ Same(queue[p], new) /\ CommandsIn(new) \subseteq CommandsIn(queue[p])
        /\ RunsIn(new) \subseteq {c} /\ ResultsIn(new) \subseteq {c}
    BY <1>1, <1>4, <2>1, AdmitResultMoves
  <2>3. Sound(p, new) /\ new # None
    BY <1>1, <1>4, <2>1, AdmitResultSound, SoundThere
  <2>4. Exchanged(queue[p], new, Fresh)
    BY <1>4, <2>2, <2>3 DEF Exchanged, Same
  <2>5. /\ results # None /\ results'.claim = "inflight" /\ results'.lease = results.lease
        /\ results'.plugin = results.plugin /\ results'.pub = results.pub
        /\ results'.gen = results.gen /\ results'.inc = results.inc
        /\ results.lease = c.lease /\ results.claim = "available"
    BY <1>4 DEF Claimable, HostInv, ServiceOK, ResultSets
  <2>6. SetKept
    BY <2>5 DEF SetKept
  <2>7. queue \in [Plugins -> Queues \cup {None}]
    BY DEF HostInv, QueuesOK
  <2>8. \A x \in Plugins : queue'[x] = IF x = p THEN new ELSE queue[x]
    BY <1>4, <2>7 DEF SetQueue
  <2> SetQueue(p, new) /\ p \in Plugins
    BY <1>1, <1>4
  <2> HIDE DEF new, p
  <2>9. Kept /\ PublishedOK'
    BY <1>2, <2>4, <2>6, SetQueueKept, SetQueuePublished DEF TokensInv
  <2>10. \A x \in Plugins : CommandsOf(x)' \subseteq CommandsOf(x)
    BY <1>2, <2>2, <2>8 DEF CommandsOf
  <2>11. c \in ResultsHeld
    BY <1>2 DEF ResultsHeld
  <2>12. \A x \in Plugins : ResultsIn(queue'[x]) \subseteq ResultsIn(queue[x]) \cup {c}
    BY <2>2, <2>8
  <2>13. ResultsHeld' \subseteq ResultsHeld
    BY <1>2, <2>11, <2>12 DEF ResultsHeld
  <2>14. \A x \in Plugins : RunsIn(queue'[x]) \subseteq RunsIn(queue[x]) \cup {c}
    BY <2>2, <2>8
  <2>15. Executing' \subseteq Executing \cup {c}
    BY <1>2, <2>14 DEF Executing
  <2>16. HeldKept
    BY <1>2, <2>6, <2>10, <2>13, PendingDrops DEF HeldKept, HostInv, RequestsOK
  <2>17. ClaimsOK'
    <3>1. \A d \in Executing : d.lease # c.lease
      BY <2>5 DEF TokensInv, ClaimsOK
    <3>. QED BY <1>2, <2>5, <2>15, <3>1 DEF TokensInv, ClaimsOK
  <2>. QED BY <2>9, <2>16, <2>17, RoutesFrame DEF TokensInv
<1>5. p \in Plugins /\ ResultOwner(p, c) => queue[p] # None
  BY DEF ResultOwner, PublicationCurrent
<1>. QED BY <1>1, <1>3, <1>4, <1>5 DEF AdmitResultAction

-----------------------------------------------------------------------------
(* The invariant is inductive *)

LEMMA InitTokens == Init => TokensInv
<1> SUFFICES ASSUME Init PROVE TokensInv
  OBVIOUS
<1>1. FirstPub \in [Plugins -> Tokens] /\ \A p, q \in Plugins : FirstPub[p] = FirstPub[q] => p = q
  BY TokensAssumption DEF FirstPub
<1>2. \A p \in Plugins : /\ queue[p] = NewQueue(1, 1, FirstPub[p]) /\ queue[p].pub = FirstPub[p]
                         /\ queue[p].running = None /\ queue[p].waiting = None
                         /\ queue[p].ticket = None
  BY DEF Init, NewQueue
<1>3. \A p \in Plugins : /\ CommandsIn(queue[p]) = {} /\ RunsIn(queue[p]) = {}
                         /\ ResultsIn(queue[p]) = {}
  BY <1>2 DEF CommandsIn, RunsIn, OwedIn, ResultsIn
<1>4. /\ prepared = {} /\ answers = {} /\ finishing = {} /\ results = None
      /\ live = {FirstPub[p] : p \in Plugins}
  BY DEF Init
<1>5. /\ \A p \in Plugins : CommandsOf(p) = {}
      /\ ResultsHeld = {} /\ Executing = {}
  BY <1>3, <1>4 DEF CommandsOf, ResultsHeld, Executing
<1>6. NumbersOK /\ RoutesOK /\ ClaimsOK
  BY <1>4, <1>5 DEF NumbersOK, RoutesOK, ClaimsOK
<1>7. PublishedOK
  BY <1>1, <1>2, <1>4 DEF PublishedOK
<1>. QED BY <1>6, <1>7 DEF TokensInv

LEMMA NextTokens ==
  ASSUME HostInv, TokensInv, [Next]_vars
  PROVE  TokensInv'
<1>1. CASE Submissions
  BY <1>1, PrepareTokens, SubmitTokens, BindRouteTokens, AbortUnboundTokens,
     RecoverRuntimeTokens, DropPreparedTokens, ContentActionTokens, ReserveResultTokens,
     AdmitResultActionTokens DEF Submissions
<1>2. CASE Completions
  BY <1>2, CompleteRequestTokens, SettleContentTokens, PublishAnswerTokens,
     FinishResultActionTokens, DismissResultsTokens, RevokeInFlightTokens DEF Completions
<1>3. CASE Retirements
  BY <1>3, RetireContentTokens, CancelRequestTokens, RetireServiceTokens DEF Retirements
<1>4. CASE Management
  <2> SUFFICES ASSUME NEW p \in Plugins,
                      \/ \E kind \in {"change", "disable"} : BeginChange(p, kind)
                      \/ \E kind \in {"enable", "update"} : BeginActivation(p, kind)
                      \/ BeginFault(p) \/ CommitUninstall(p) \/ NotCommitted(p)
                      \/ ReleaseUninstall(p)
               PROVE  TokensInv'
    BY <1>4, BeginUninstallTokens, CommitChangeTokens, CommitDisableTokens,
       PublishFaultTokens, CommitActivationTokens, UnknownOutcomeTokens,
       ReactivateAbortedTokens, ClosePublicationsTokens, CloseGateTokens
       DEF Management, Commits, CommitFault
  <2>. QED BY AsideTokens DEF BeginChange, BeginActivation, BeginFault, CommitUninstall,
              NotCommitted, ReleaseUninstall
<1>5. CASE Timeouts
  <2> SUFFICES ASSUME NEW w \in Watchers,
                      \/ TakeReplacement(w) \/ PassReserveFault(w) \/ PassReserveReplace(w)
                      \/ PassCommitReplace(w) \/ PassNotCommitted(w) \/ PassCreate(w)
               PROVE  TokensInv'
    BY <1>5, ExpireTokens, PassCommitFaultTokens, PassFinishTokens DEF Timeouts, PassStep
  <2>. QED BY AsideTokens DEF TakeReplacement, PassReserveFault, PassReserveReplace,
              PassCommitReplace, PassNotCommitted, PassCreate
<1>6. CASE UNCHANGED vars
  BY <1>6, AsideTokens DEF vars, scheduler, service
<1>. QED BY <1>1, <1>2, <1>3, <1>4, <1>5, <1>6 DEF Next

\* Publications, leases and request numbers stay in order in every reachable
\* state of the host.
THEOREM TokensInvariant == Spec => []TokensInv
<1>1. Init => TokensInv
  BY InitTokens
<1>2. HostInv /\ TokensInv /\ [Next]_vars => TokensInv'
  BY NextTokens
<1>. QED BY <1>1, <1>2, HostInvariant, PTL DEF Spec

\* A captured publication that is still live is its queue's own, under the
\* identity it was captured with: whatever retires, replaces, reinstalls or
\* times out a plugin exchanges the publication, and none comes back.
THEOREM RoutesCurrent == Spec => []RouteCurrent
<1>1. HostInv /\ TokensInv => RouteCurrent
  <2> SUFFICES ASSUME HostInv, TokensInv PROVE RouteCurrent
    OBVIOUS
  <2> DEFINE Bound(c) == [plugin |-> c.plugin, gen |-> pending[c.id].gen,
                          inc |-> pending[c.id].inc, pub |-> pending[c.id].pub]
             Plain(c) == [plugin |-> c.plugin, gen |-> c.gen, inc |-> c.inc, pub |-> c.pub]
             Fine(o) == Routed(queue[o.plugin], live, o)
  <2>1. \A c : /\ Bound(c).plugin = c.plugin /\ Bound(c).gen = pending[c.id].gen
               /\ Bound(c).inc = pending[c.id].inc /\ Bound(c).pub = pending[c.id].pub
               /\ Plain(c).plugin = c.plugin /\ Plain(c).gen = c.gen
               /\ Plain(c).inc = c.inc /\ Plain(c).pub = c.pub
    OBVIOUS
  <2>2. Captured = {Plain(c) : c \in ResultRequests} \cup {Plain(a) : a \in answers}
                   \cup (IF results = None THEN {} ELSE {Plain(results)})
                   \cup {Bound(c) : c \in {d \in HeldRequests : d.kind = "command"
                                                               /\ pending[d.id] # None}}
    BY DEF Captured
  <2> HIDE DEF Bound, Plain
  <2>3. \A p \in Plugins : queue[p] # None =>
          /\ queue[p].running # None => queue[p].running.req.plugin = p
          /\ queue[p].ticket # None => queue[p].ticket.req.kind # "command"
          /\ queue[p].running # None => queue[p].running.req.id \in Requests
    BY ThereSound DEF Sound, QueueOK, RunningOK, TicketOK, Queues, RunningRequests, Candidates
  <2>4. ResultRequests \subseteq ResultsHeld
    BY DEF ResultRequests, HeldRequests, ResultsHeld, ResultsIn, RunsIn, OwedIn
  <2>5. ASSUME NEW c \in HeldRequests, c.kind = "command", pending[c.id] # None
        PROVE  c.plugin \in Plugins /\ c.id \in CommandsOf(c.plugin)
    <3>1. CASE c \in prepared
      BY <2>5, <3>1 DEF HostInv, RequestsOK, Candidates, CommandsOf
    <3>2. CASE \E p \in Plugins : queue[p] # None /\ queue[p].running # None
                                  /\ c = queue[p].running.req
      BY <2>3, <2>5, <3>2 DEF CommandsOf, CommandsIn
    <3>3. \A f \in finishing : f.req.kind = "result"
      BY DEF TokensInv, ClaimsOK
    <3>. QED BY <2>3, <2>5, <3>1, <3>2, <3>3 DEF HeldRequests
  <2>6. \A o \in Captured : Fine(o)
    <3>0. /\ \A c \in ResultsHeld : Fine(c)
          /\ \A a \in answers : Fine(a)
          /\ results # None => Fine(results)
          /\ \A p \in Plugins : \A r \in CommandsOf(p) :
                pending[r] # None => Routed(queue[p], live, pending[r])
      BY DEF TokensInv, RoutesOK
    <3>5. ASSUME NEW o, NEW d, o.plugin = d.plugin, o.gen = d.gen, o.inc = d.inc,
                 o.pub = d.pub, Fine(d)
          PROVE  Fine(o)
      BY <3>5 DEF Routed, SameIdentity
    <3>6. ASSUME NEW c \in HeldRequests, c.kind = "command", pending[c.id] # None
          PROVE  Fine(Bound(c))
      <4>1. Routed(queue[c.plugin], live, pending[c.id])
        BY <2>5, <3>0, <3>6
      <4>2. Routed(queue[c.plugin], live, Bound(c))
        BY <2>1, <4>1 DEF Routed, SameIdentity
      <4>. QED BY <2>1, <4>2
    <3> HIDE DEF Fine
    <3>1. \A c \in ResultRequests : Fine(Plain(c))
      BY <2>1, <2>4, <3>0, <3>5
    <3>2. \A a \in answers : Fine(Plain(a))
      BY <2>1, <3>0, <3>5
    <3>3. results # None => Fine(Plain(results))
      BY <2>1, <3>0, <3>5
    <3>4. \A c \in HeldRequests : c.kind = "command" /\ pending[c.id] # None => Fine(Bound(c))
      BY <3>6
    <3>. QED BY <2>2, <3>1, <3>2, <3>3, <3>4
  <2>. QED BY <2>6 DEF RouteCurrent, Routed
<1>. QED BY <1>1, HostInvariant, TokensInvariant, PTL

\* A displayed result action is executed once, however many reservations of it
\* are admitted, late and in any order.
THEOREM ClaimsOnce == Spec => []ClaimedOnce
<1>1. ClaimsOK => ClaimedOnce
  <2> SUFFICES ASSUME ClaimsOK, NEW t \in Tokens
               PROVE  /\ Cardinality(Executed(t)) <= 1
                      /\ results # None /\ results.lease = t /\ results.claim = "available"
                            => Executed(t) = {}
    BY DEF ClaimedOnce
  <2>1. Executed(t) \subseteq {c \in Executing : c.lease = t}
    BY DEF Executed, Executing, RunsIn, Queued
  <2>2. Executed(t) = {} \/ \E c : Executed(t) = {c}
    BY <2>1 DEF ClaimsOK
  <2>3. Cardinality(Executed(t)) = 0 \/ Cardinality(Executed(t)) = 1
    BY <2>2, FS_EmptySet, FS_Singleton
  <2>4. Cardinality(Executed(t)) <= 1
    BY <2>3
  <2>. QED BY <2>1, <2>4 DEF ClaimsOK
<1>2. TokensInv => ClaimsOK
  BY DEF TokensInv
<1>. QED BY <1>1, <1>2, TokensInvariant, PTL

\* While publications are open a queue that admits requests has a live one.
THEOREM QueuesPublish == Spec => []AdmittingQueuePublishes
<1>1. TokensInv => AdmittingQueuePublishes
  BY DEF TokensInv, PublishedOK, AdmittingQueuePublishes, Queued
<1>. QED BY <1>1, TokensInvariant, PTL

-----------------------------------------------------------------------------
(* Identities of one queue *)

\* A queue that keeps its identity, and has nothing running that had nothing.
Alike(q, new) ==
    /\ new.gen = q.gen /\ new.inc = q.inc /\ new.rebuilding = q.rebuilding
    /\ new.running # None => q.running # None
\* A queue that keeps generation and activation, emptied.
Emptied(q, new) ==
    new.gen = q.gen /\ new.inc = q.inc /\ new.rebuilding = FALSE /\ new.running = None

LEMMA CompleteAlike ==
  ASSUME NEW p, NEW q, NEW tokens, Sound(p, q), q.running # None
  PROVE  Alike(q, Complete(q, tokens))
  BY CompleteMoves DEF Same, Alike

LEMMA TakeTicketAlike ==
  ASSUME NEW p, NEW q, Sound(p, q)
  PROVE  Alike(q, TakeTicket(q))
  BY SoundThere DEF TakeTicket, Queues, Alike

LEMMA RetireContextAlike ==
  ASSUME NEW p, NEW q, NEW ctx, Sound(p, q)
  PROVE  Alike(q, RetireContext(q, ctx))
<1> DEFINE m == RetireRunning(q, ctx)
           e == RetireTicket(m, ctx)
<1>1. q \in Queues
  BY SoundThere
<1>2. m \in Queues /\ Alike(q, m)
  <2>1. CASE Runs(q, ctx)
    <3> DEFINE r == Retired(q.running, "expired")
    <3>1. r \in RunningRequests /\ q.running # None
      BY <1>1, <2>1, RetiredFacts DEF Queues, Runs, Reasons
    <3>2. m = [q EXCEPT !.running = r]
      BY <2>1 DEF RetireRunning
    <3> HIDE DEF r
    <3>. QED BY <1>1, <3>1, <3>2 DEF Queues, Alike
  <2>2. CASE ~Runs(q, ctx)
    BY <1>1, <2>2 DEF RetireRunning, Alike
  <2>. QED BY <2>1, <2>2
<1> HIDE DEF m
<1>3. Alike(m, e)
  BY <1>2 DEF RetireTicket, Queues, Alike
<1>4. RetireContext(q, ctx) = e
  BY DEF RetireContext, m
<1> HIDE DEF e
<1>. QED BY <1>2, <1>3, <1>4 DEF Alike

LEMMA PublicationAlike ==
  ASSUME NEW p, NEW q, Sound(p, q), NEW fresh
  PROVE  Alike(q, [q EXCEPT !.pub = fresh])
  BY SoundThere DEF Queues, Alike

LEMMA RetireRequestAlike ==
  ASSUME NEW p, NEW q, NEW ctx, Sound(p, q), NEW fresh
  PROVE  Alike(q, RetireRequest(q, ctx, fresh))
<1> DEFINE m == RetireContext(q, ctx)
<1>1. Sound(p, m) /\ Alike(q, m)
  BY RetireContextSound, RetireContextAlike
<1>2. Alike(m, [m EXCEPT !.pub = fresh])
  BY <1>1, PublicationAlike
<1>3. RetireRequest(q, ctx, fresh) = [m EXCEPT !.pub = fresh] \/ RetireRequest(q, ctx, fresh) = q
  BY DEF RetireRequest
<1> HIDE DEF m
<1>. QED BY <1>1, <1>2, <1>3 DEF Alike

LEMMA CancelAlike ==
  ASSUME NEW p, NEW q, NEW ctx, Sound(p, q)
  PROVE  Alike(q, Cancel(q, ctx))
<1>1. q \in Queues /\ Same(q, Cancel(q, ctx))
  BY SoundThere, CancelMoves
<1>2. CASE Runs(q, ctx)
  BY <1>1, <1>2 DEF Alike, Same, Runs
<1>3. CASE ~Runs(q, ctx)
  <2>1. Cancel(q, ctx) = [q EXCEPT !.waiting = None] \/ Cancel(q, ctx) = q
    BY <1>3 DEF Cancel
  <2>. QED BY <1>1, <2>1 DEF Queues, Alike
<1>. QED BY <1>2, <1>3

LEMMA RetirePluginAlike ==
  ASSUME NEW p, NEW q, Sound(p, q), NEW fresh
  PROVE  Alike(q, RetirePlugin(q, fresh))
<1> DEFINE t == IF q.ticket = None THEN None ELSE [q.ticket EXCEPT !.reason = "expired"]
           r == IF q.running = None THEN None ELSE Retired(q.running, "expired")
           e == [q EXCEPT !.pub = fresh, !.ticket = t, !.running = r, !.waiting = None]
<1>1. q \in Queues
  BY SoundThere
<1>2. RetirePlugin(q, fresh) = e
  BY DEF RetirePlugin
<1>3. r # None => q.running # None
  OBVIOUS
<1> HIDE DEF t, r
<1>. QED BY <1>1, <1>2, <1>3 DEF Queues, Alike

LEMMA InvalidateEmptied ==
  ASSUME NEW p, NEW q, Sound(p, q), NEW fresh
  PROVE  Emptied(q, Invalidate(q, fresh))
  BY SoundThere DEF Invalidate, Queues, Emptied

LEMMA ActivateIdentity ==
  ASSUME NEW p, NEW q, Sound(p, q), NEW gen, NEW inc, NEW fresh
  PROVE  /\ Activate(q, gen, inc, fresh).gen = gen
         /\ Activate(q, gen, inc, fresh).inc = inc
         /\ ~Activate(q, gen, inc, fresh).rebuilding
         /\ Activate(q, gen, inc, fresh).running = None
  BY SoundThere DEF Activate, Invalidate, Queues

LEMMA ExpireIdentity ==
  ASSUME NEW p, NEW q, Sound(p, q)
  PROVE  /\ ExpireRunning(q).gen = q.gen + 1 /\ ExpireRunning(q).inc = q.inc
         /\ ExpireRunning(q).rebuilding /\ ExpireRunning(q).running = None
<1> DEFINE free == [q EXCEPT !.running = None]
           m == Rebind(free, q.gen + 1)
           e == [m EXCEPT !.gen = q.gen + 1, !.rebuilding = TRUE]
<1>1. q \in Queues
  BY SoundThere
<1>2. /\ DOMAIN m = DOMAIN q /\ m.running = None /\ m.inc = q.inc
      /\ m = [x \in DOMAIN m |-> m[x]]
  BY <1>1 DEF Queues, Rebind
<1>3. ExpireRunning(q) = e
  BY DEF ExpireRunning
<1> HIDE DEF m
<1>. QED BY <1>1, <1>2, <1>3 DEF Queues

LEMMA ReplacedIdentity ==
  ASSUME NEW p, NEW q, NEW gen, Sound(p, q), CanReplace(q, gen), NEW inc \in Nat,
         NEW fresh \in Tokens
  PROVE  /\ RuntimeReplaced(q, inc, fresh).gen = q.gen
         /\ RuntimeReplaced(q, inc, fresh).inc = inc
         /\ ~RuntimeReplaced(q, inc, fresh).rebuilding
<1> DEFINE w == IF q.waiting = None THEN None ELSE [q.waiting EXCEPT !.inc = inc]
           e == [q EXCEPT !.inc = inc, !.pub = fresh, !.rebuilding = FALSE, !.waiting = w]
           d == DispatchWaiting(e)
<1>1. q \in Queues
  BY SoundThere
<1>2. /\ w \in Candidates \cup {None}
      /\ w # None => /\ w.gen = q.waiting.gen /\ w.inc = inc
                     /\ w.kind = q.waiting.kind /\ w.plugin = q.waiting.plugin
                     /\ q.waiting # None
  BY <1>1 DEF Queues, Candidates
<1>3. RuntimeReplaced(q, inc, fresh) = d
  BY DEF RuntimeReplaced
<1> HIDE DEF w
<1>4. /\ e \in Queues /\ e.running = None /\ e.waiting = w /\ e.rebuilding = FALSE
      /\ e.gen = q.gen /\ e.inc = inc
  BY <1>1, <1>2 DEF Queues, CanReplace
<1> HIDE DEF e
<1>5. Fits(p, e)
  BY <1>2, <1>4 DEF Sound, QueueOK, WaitingOK, Fits, SameIdentity
<1>6. d.gen = e.gen /\ d.inc = e.inc /\ d.rebuilding = e.rebuilding
  BY <1>4, <1>5, DispatchWaitingMoves
<1>. QED BY <1>3, <1>4, <1>6
-----------------------------------------------------------------------------
(* Identities of a plugin: of its bundle, of its prepared requests, and of the *)
(* result set it shows.                                                        *)

Identity(o) == [gen |-> o.gen, inc |-> o.inc]
Identities(p) ==
    {Identity(c) : c \in {d \in prepared : d.plugin = p}}
    \cup {Identity(b) : b \in {bundle[p]} \ {None}}
    \cup {Identity(s) : s \in {t \in {results} \ {None} : t.plugin = p}}

\* Operations that will publish an identity of their own.
Activating(o) == o # None /\ o.kind \in {"enable", "update", "replace"}

Purging(o) == o # None /\ o.kind = "purge"
\* Operations that publish no identity, and purge only if purging is an operation.
Harmless(o) == ~Activating(o) /\ (Purging(o) => "purge" \in Ops)

\* No activation id is ahead of the counter, and that of an operation is its own.
IncsOK(p) ==
    /\ \A i \in Identities(p) : i.inc < nextInc
    /\ queue[p] # None => queue[p].inc < nextInc
    /\ Activating(op[p]) =>
          /\ op[p].inc < nextInc
          /\ \A i \in Identities(p) : i.inc # op[p].inc
          /\ queue[p] # None => queue[p].inc # op[p].inc
\* An activation has one generation.
OneGeneration(p) == \A i, j \in Identities(p) : i.inc = j.inc => i.gen = j.gen
\* Of the activation of its queue no identity is ahead of it, and none is there yet
\* while the queue is rebuilding.
BehindOK(p) ==
    \A i \in Identities(p) :
        queue[p] # None /\ i.inc = queue[p].inc =>
            /\ i.gen <= queue[p].gen
            /\ queue[p].rebuilding => i.gen < queue[p].gen
IdentityOK(p) == IncsOK(p) /\ OneGeneration(p) /\ BehindOK(p)
IdentityInv == \A p \in Plugins : IdentityOK(p)

\* A queue goes on: it keeps its activation and is a generation further, or takes an
\* identity that is there.
Goes(p) ==
    \/ queue'[p] = None
    \/ /\ queue[p] # None /\ queue'[p].inc = queue[p].inc
       /\ \/ queue'[p].gen = queue[p].gen /\ (queue'[p].rebuilding => queue[p].rebuilding)
          \/ queue'[p].gen = queue[p].gen + 1
    \/ Identity(queue'[p]) \in Identities(p) /\ ~queue'[p].rebuilding

LEMMA IdentityTypes ==
  ASSUME HostInv, NEW p \in Plugins
  PROVE  /\ \A i \in Identities(p) : i.gen \in Nat /\ i.inc \in Nat
         /\ queue[p] # None => queue[p].gen \in Nat /\ queue[p].inc \in Nat
         /\ bundle[p] # None => /\ Identity(bundle[p]) \in Identities(p)
                                /\ bundle[p].gen \in Nat /\ bundle[p].inc \in Nat
         /\ op[p] # None => op[p].gen \in Nat /\ op[p].inc \in Nat
         /\ nextInc \in Nat
<1>1. \A c \in prepared : c.gen \in Nat /\ c.inc \in Nat
  BY DEF HostInv, RequestsOK, Candidates
<1>2. bundle[p] # None => bundle[p].gen \in Nat /\ bundle[p].inc \in Nat
  BY DEF HostInv, ManagerOK, Bundles
<1>3. results # None => results.gen \in Nat /\ results.inc \in Nat
  BY DEF HostInv, ServiceOK, ResultSets
<1>4. \A i \in Identities(p) : i.gen \in Nat /\ i.inc \in Nat
  BY <1>1, <1>2, <1>3 DEF Identities, Identity
<1>5. queue[p] # None => queue[p].gen \in Nat /\ queue[p].inc \in Nat
  BY DEF HostInv, QueuesOK, Queues
<1>6. op[p] # None => op[p].gen \in Nat /\ op[p].inc \in Nat
  BY DEF HostInv, ManagerOK, Operations
<1>7. bundle[p] # None => Identity(bundle[p]) \in Identities(p)
  BY DEF Identities
<1>8. nextInc \in Nat
  BY DEF HostInv, ManagerOK
<1>. QED BY <1>2, <1>4, <1>5, <1>6, <1>7, <1>8

\* No new identity.
LEMMA IdentityFrame ==
  ASSUME HostInv, IdentityInv, NEW p \in Plugins,
         nextInc' \in Nat, nextInc' >= nextInc,
         Identities(p)' \subseteq Identities(p), Goes(p),
         Activating(op'[p]) => op'[p] = op[p]
  PROVE  IdentityOK(p)'
<1> DEFINE q == queue[p]
           new == queue'[p]
<1>1. IncsOK(p) /\ OneGeneration(p) /\ BehindOK(p)
  BY DEF IdentityInv, IdentityOK
<1>2. /\ \A i \in Identities(p) : i.gen \in Nat /\ i.inc \in Nat
      /\ q # None => q.gen \in Nat /\ q.inc \in Nat
      /\ op[p] # None => op[p].inc \in Nat
      /\ nextInc \in Nat
  BY IdentityTypes
<1>3. new # None =>
        /\ \/ q # None /\ new.inc = q.inc
           \/ \E i \in Identities(p) : new.inc = i.inc
        /\ new.inc \in Nat
  BY <1>2 DEF Goes, Identity
<1>4. IncsOK(p)'
  <2>1. \A i \in Identities(p)' : i.inc < nextInc'
    BY <1>1, <1>2 DEF IncsOK
  <2>2. new # None => new.inc < nextInc'
    BY <1>1, <1>2, <1>3 DEF IncsOK
  <2>3. ASSUME Activating(op'[p])
        PROVE  /\ op'[p].inc < nextInc'
               /\ \A i \in Identities(p)' : i.inc # op'[p].inc
               /\ new # None => new.inc # op'[p].inc
    <3>1. op'[p] = op[p] /\ Activating(op[p]) /\ op[p] # None
      BY <2>3 DEF Activating
    <3>. QED BY <1>1, <1>2, <1>3, <3>1 DEF IncsOK
  <2>. QED BY <2>1, <2>2, <2>3 DEF IncsOK, Activating
<1>5. OneGeneration(p)'
  BY <1>1 DEF OneGeneration
<1>6. BehindOK(p)'
  <2> SUFFICES ASSUME NEW i \in Identities(p), new # None, i.inc = new.inc
               PROVE  i.gen <= new.gen /\ (new.rebuilding => i.gen < new.gen)
    BY DEF BehindOK
  <2>1. CASE q # None /\ new.inc = q.inc /\ new.gen = q.gen
             /\ (new.rebuilding => q.rebuilding)
    BY <1>1, <1>2, <2>1 DEF BehindOK
  <2>2. CASE q # None /\ new.inc = q.inc /\ new.gen = q.gen + 1
    BY <1>1, <1>2, <2>2 DEF BehindOK
  <2>3. CASE Identity(new) \in Identities(p) /\ ~new.rebuilding
    <3>1. i.gen = new.gen
      BY <1>1, <2>3 DEF OneGeneration, Identity
    <3>. QED BY <1>2, <2>3, <3>1
  <2>. QED BY <2>1, <2>2, <2>3 DEF Goes
<1>. QED BY <1>4, <1>5, <1>6 DEF IdentityOK

\* One new identity, under an activation of its own.
LEMMA IdentityFresh ==
  ASSUME HostInv, IdentityInv, NEW p \in Plugins,
         nextInc' \in Nat, nextInc' >= nextInc,
         NEW n, n.gen \in Nat, n.inc \in Nat, n.inc < nextInc',
         \A i \in Identities(p) : i.inc # n.inc,
         queue[p] # None => queue[p].inc # n.inc,
         Identities(p)' \subseteq Identities(p) \cup {n},
         \/ Goes(p)
         \/ queue'[p].gen = n.gen /\ queue'[p].inc = n.inc /\ ~queue'[p].rebuilding,
         ~Activating(op'[p])
  PROVE  IdentityOK(p)'
<1> DEFINE q == queue[p]
           new == queue'[p]
<1>1. IncsOK(p) /\ OneGeneration(p) /\ BehindOK(p)
  BY DEF IdentityInv, IdentityOK
<1>2. /\ \A i \in Identities(p) : i.gen \in Nat /\ i.inc \in Nat
      /\ q # None => q.gen \in Nat /\ q.inc \in Nat
      /\ nextInc \in Nat
  BY IdentityTypes
<1>3. new # None =>
        /\ \/ q # None /\ new.inc = q.inc
           \/ \E i \in Identities(p) : new.inc = i.inc
           \/ new.inc = n.inc
        /\ new.inc \in Nat
  BY <1>2 DEF Goes, Identity
<1>4. IncsOK(p)'
  <2>1. \A i \in Identities(p)' : i.inc < nextInc'
    BY <1>1, <1>2 DEF IncsOK
  <2>2. new # None => new.inc < nextInc'
    BY <1>1, <1>2, <1>3 DEF IncsOK
  <2>. QED BY <2>1, <2>2 DEF IncsOK, Activating
<1>5. OneGeneration(p)'
  BY <1>1 DEF OneGeneration
<1>6. BehindOK(p)'
  <2> SUFFICES ASSUME NEW i \in Identities(p)', new # None, i.inc = new.inc
               PROVE  i.gen <= new.gen /\ (new.rebuilding => i.gen < new.gen)
    BY DEF BehindOK
  <2>1. CASE new.gen = n.gen /\ new.inc = n.inc /\ ~new.rebuilding
    <3>1. i = n
      BY <2>1
    <3>. QED BY <2>1, <3>1
  <2>2. CASE Goes(p)
    <3>1. \/ q # None /\ new.inc = q.inc
          \/ Identity(new) \in Identities(p) /\ ~new.rebuilding
      BY <2>2 DEF Goes
    <3>2. i \in Identities(p)
      <4>1. i.inc # n.inc
        BY <3>1 DEF Identity
      <4>. QED BY <4>1
    <3>3. CASE q # None /\ new.inc = q.inc /\ new.gen = q.gen
               /\ (new.rebuilding => q.rebuilding)
      BY <1>1, <1>2, <3>2, <3>3 DEF BehindOK
    <3>4. CASE q # None /\ new.inc = q.inc /\ new.gen = q.gen + 1
      BY <1>1, <1>2, <3>2, <3>4 DEF BehindOK
    <3>5. CASE Identity(new) \in Identities(p) /\ ~new.rebuilding
      <4>1. i.gen = new.gen
        BY <1>1, <3>2, <3>5 DEF OneGeneration, Identity
      <4>. QED BY <1>2, <3>2, <3>5, <4>1
    <3>. QED BY <2>2, <3>3, <3>4, <3>5 DEF Goes
  <2>. QED BY <2>1, <2>2
<1>. QED BY <1>4, <1>5, <1>6 DEF IdentityOK
\* Without purges: a plugin keeps its queue, no identity is ahead of the configuration,
\* and a queue is at most the generation ahead that its new Runtime will have.
GenerationsOK(p) ==
    /\ queue[p] # None /\ config[p].status # "absent"
    /\ \A i \in Identities(p) : i.gen <= config[p].gen
    /\ aborted[p] # None => aborted[p].gen <= config[p].gen
    /\ queue[p].gen <= config[p].gen + 1
    /\ queue[p].running # None => queue[p].gen <= config[p].gen
    /\ Activating(op[p]) => op[p].gen = config[p].gen + 1
    /\ ~Purging(op[p])
GenerationsInv == \A p \in Plugins : GenerationsOK(p)

\* What the runs of expire_runtime_timeouts still have to replace is behind its queue, and
\* a rebuilding queue is left to one of them.
Unhandled(w) == pass[w].todo \cup ({pass[w].cur} \ {None})
HandledBy(w, p) == \E r \in Unhandled(w) : r.plugin = p /\ r.gen + 1 = queue[p].gen
PassesInv ==
    /\ \A w \in Watchers : pass[w].stage = "idle" => pass[w].cur = None
    /\ \A w \in Watchers : \A r \in Unhandled(w) : r.gen < queue[r.plugin].gen
    /\ \A p \in Plugins : queue[p].rebuilding =>
          /\ \A v, w \in Watchers : HandledBy(v, p) /\ HandledBy(w, p) => v = w
          /\ p \notin abandoned => \E w \in Watchers : HandledBy(w, p)

\* Unless an uninstall ends a rebuilding that it gives back: bundle and queue agree.
AgreeOK(p) ==
    /\ bundle[p] # None /\ ~queue[p].rebuilding => SameIdentity(queue[p], bundle[p])
    /\ op[p] # None /\ op[p].kind = "replace" => queue[p].rebuilding
    /\ "timeout" \notin Ops => ~queue[p].rebuilding
AgreeInv == \A p \in Plugins : AgreeOK(p)

\* A queue that stays what it is, or is made for an identity that is there.
StaysTo(p, new) ==
    \/ new = queue[p]
    \/ /\ queue[p] # None /\ new # None
       /\ new.gen = queue[p].gen /\ new.inc = queue[p].inc
       /\ new.rebuilding => queue[p].rebuilding
       /\ new.running # None => queue[p].running # None \/ Identity(queue[p]) \in Identities(p)
    \/ queue[p] = None /\ new # None /\ Identity(new) \in Identities(p) /\ ~new.rebuilding
    \/ "purge" \in Ops /\ new = None
Stays(p) == StaysTo(p, queue'[p])
\* A step that publishes no identity.
StaysHost ==
    \A p \in Plugins :
        /\ Stays(p)
        /\ Identities(p)' \subseteq Identities(p)
        /\ op'[p] = op[p] \/ Harmless(op'[p])
        /\ bundle'[p] # None => bundle[p] # None /\ Identity(bundle'[p]) = Identity(bundle[p])
        /\ aborted'[p] \in {aborted[p], None, bundle[p]}
        /\ config'[p].gen = config[p].gen
        /\ config'[p].status = "absent" => config[p].status = "absent" \/ Purging(op[p])
\* A rebuilding queue goes on rebuilding, or its plugin is disabled.
StaysRebuilding ==
    \A p \in Plugins :
        queue[p] # None /\ queue[p].rebuilding =>
            queue'[p].rebuilding \/ (bundle'[p] = None /\ op'[p] = None)
\* A run leaves only what is rebuilt, or given up.
Dropped(w) == \A r \in Unhandled(w) \ Unhandled(w)' : ~queue'[r.plugin].rebuilding \/ r.plugin \in abandoned'
PassesGo ==
    /\ abandoned \subseteq abandoned'
    /\ \A w \in Watchers :
          /\ pass'[w].stage = "idle" => pass'[w].cur = None
          /\ Unhandled(w)' \subseteq Unhandled(w)
          /\ Dropped(w)

LEMMA StaysIdentity ==
  ASSUME HostInv, IdentityInv, StaysHost, nextInc' \in {nextInc, nextInc + 1}
  PROVE  IdentityInv'
<1> SUFFICES ASSUME NEW p \in Plugins PROVE IdentityOK(p)'
  BY DEF IdentityInv
<1>1. nextInc' \in Nat /\ nextInc' >= nextInc
  BY DEF HostInv, ManagerOK
<1>2. Goes(p)
  BY DEF StaysHost, Stays, StaysTo, Goes
<1>3. Identities(p)' \subseteq Identities(p) /\ (Activating(op'[p]) => op'[p] = op[p])
  BY DEF StaysHost, Harmless
<1>. QED BY <1>1, <1>2, <1>3, IdentityFrame

LEMMA GenerationsTypes ==
  ASSUME HostInv, GenerationsInv, NEW p \in Plugins
  PROVE  /\ config[p].gen \in Nat /\ queue[p].gen \in Nat /\ queue[p].inc \in Nat
         /\ queue[p] # None /\ queue[p] \in Queues
         /\ aborted[p] # None => aborted[p].gen \in Nat
<1>1. config[p].gen \in Nat
  BY DEF HostInv, ManagerOK, Configs
<1>2. queue[p] # None /\ queue[p] \in Queues
  BY DEF HostInv, QueuesOK, GenerationsInv, GenerationsOK
<1>3. aborted[p] # None => aborted[p].gen \in Nat
  BY DEF HostInv, ManagerOK, Bundles
<1>. QED BY <1>1, <1>2, <1>3 DEF Queues

LEMMA StaysGenerations ==
  ASSUME HostInv, GenerationsInv, StaysHost, "purge" \notin Ops
  PROVE  GenerationsInv'
<1> SUFFICES ASSUME NEW p \in Plugins PROVE GenerationsOK(p)'
  BY DEF GenerationsInv
<1>1. GenerationsOK(p)
  BY DEF GenerationsInv
<1>2. config'[p].gen = config[p].gen /\ config'[p].status # "absent"
  BY <1>1 DEF StaysHost, GenerationsOK
<1>3. \A i \in Identities(p)' : i.gen <= config'[p].gen
  BY <1>1, <1>2 DEF StaysHost, GenerationsOK
<1>4. aborted'[p] # None => aborted'[p].gen <= config'[p].gen
  <2>1. bundle[p] # None => bundle[p].gen <= config[p].gen
    BY <1>1, IdentityTypes DEF GenerationsOK, Identity
  <2>. QED BY <1>1, <1>2, <2>1 DEF StaysHost, GenerationsOK
<1>5. /\ queue'[p] # None /\ queue'[p].gen = queue[p].gen
      /\ queue'[p].running # None => queue[p].running # None \/ Identity(queue[p]) \in Identities(p)
  BY <1>1 DEF StaysHost, Stays, StaysTo, GenerationsOK
<1>6. Identity(queue[p]) \in Identities(p) => queue[p].gen <= config[p].gen
  BY <1>1 DEF GenerationsOK, Identity
<1>7. queue'[p].running # None => queue'[p].gen <= config'[p].gen
  BY <1>1, <1>2, <1>5, <1>6 DEF GenerationsOK
<1>8. queue'[p].gen <= config'[p].gen + 1
  BY <1>1, <1>2, <1>5 DEF GenerationsOK
<1>9. /\ Activating(op'[p]) => op'[p].gen = config'[p].gen + 1
      /\ ~Purging(op'[p])
  BY <1>1, <1>2 DEF StaysHost, GenerationsOK, Harmless
<1>. QED BY <1>2, <1>3, <1>4, <1>5, <1>7, <1>8, <1>9 DEF GenerationsOK, Activating, Purging

LEMMA StaysAgree ==
  ASSUME GenerationsInv, AgreeInv, StaysHost, StaysRebuilding, "purge" \notin Ops
  PROVE  AgreeInv'
<1> SUFFICES ASSUME NEW p \in Plugins PROVE AgreeOK(p)'
  BY DEF AgreeInv
<1>1. AgreeOK(p) /\ queue[p] # None
  BY DEF AgreeInv, GenerationsInv, GenerationsOK
<1>2. /\ queue'[p].gen = queue[p].gen /\ queue'[p].inc = queue[p].inc
      /\ queue'[p].rebuilding => queue[p].rebuilding
  BY <1>1 DEF StaysHost, Stays, StaysTo
<1>3. bundle'[p] # None => /\ bundle[p] # None /\ bundle'[p].gen = bundle[p].gen
                           /\ bundle'[p].inc = bundle[p].inc
  BY DEF StaysHost, Identity
<1>4. op'[p] # None /\ op'[p].kind = "replace" => op'[p] = op[p]
  BY DEF StaysHost, Activating, Harmless
<1>. QED BY <1>1, <1>2, <1>3, <1>4 DEF AgreeOK, SameIdentity, StaysRebuilding

\* The runs keep what is rebuilding while no queue starts to.
LEMMA PassesFrame ==
  ASSUME HostInv, GenerationsInv, PassesInv, PassesGo,
         \A p \in Plugins :
            /\ queue'[p].gen \in Nat /\ queue'[p].gen >= queue[p].gen
            /\ queue'[p].rebuilding => queue[p].rebuilding /\ queue'[p].gen = queue[p].gen
  PROVE  PassesInv'
<1>1. \A w \in Watchers : \A r \in Unhandled(w) : r.plugin \in Plugins /\ r.gen \in Nat
  BY DEF HostInv, WatchdogOK, Passes, Replacements, Unhandled
<1>2. \A p \in Plugins : queue[p].gen \in Nat
  BY GenerationsTypes
<1>3. \A w \in Watchers : \A r \in Unhandled(w)' : r.gen < queue'[r.plugin].gen
  <2> SUFFICES ASSUME NEW w \in Watchers, NEW r \in Unhandled(w)'
               PROVE  r.gen < queue'[r.plugin].gen
    OBVIOUS
  <2>1. r \in Unhandled(w)
    BY DEF PassesGo
  <2>2. r.gen < queue[r.plugin].gen
    BY <2>1 DEF PassesInv
  <2>. QED BY <1>1, <1>2, <2>1, <2>2
<1>4. ASSUME NEW p \in Plugins, queue'[p].rebuilding
      PROVE  /\ \A v, w \in Watchers : HandledBy(v, p)' /\ HandledBy(w, p)' => v = w
             /\ p \notin abandoned' => \E w \in Watchers : HandledBy(w, p)'
  <2>1. queue[p].rebuilding /\ queue'[p].gen = queue[p].gen
    BY <1>4
  <2>2. \A w \in Watchers : HandledBy(w, p)' => HandledBy(w, p)
    BY <2>1 DEF HandledBy, PassesGo
  <2>3. ASSUME p \notin abandoned' PROVE \E w \in Watchers : HandledBy(w, p)'
    <3>1. PICK w \in Watchers : HandledBy(w, p)
      BY <2>1, <2>3 DEF PassesInv, PassesGo
    <3>2. PICK r \in Unhandled(w) : r.plugin = p /\ r.gen + 1 = queue[p].gen
      BY <3>1 DEF HandledBy
    <3>3. r \in Unhandled(w)'
      BY <1>4, <2>3, <3>2 DEF PassesGo, Dropped
    <3>. QED BY <2>1, <3>2, <3>3 DEF HandledBy
  <2>. QED BY <2>1, <2>2, <2>3 DEF PassesInv
<1>. QED BY <1>3, <1>4 DEF PassesInv, PassesGo

LEMMA StaysPasses ==
  ASSUME HostInv, GenerationsInv, PassesInv, PassesGo, StaysHost, "purge" \notin Ops
  PROVE  PassesInv'
<1>1. ASSUME NEW p \in Plugins
      PROVE  /\ queue'[p].gen \in Nat /\ queue'[p].gen >= queue[p].gen
             /\ queue'[p].rebuilding => queue[p].rebuilding /\ queue'[p].gen = queue[p].gen
  <2>1. queue[p] # None /\ queue[p].gen \in Nat
    BY GenerationsTypes
  <2>2. /\ queue'[p].gen = queue[p].gen
        /\ queue'[p].rebuilding => queue[p].rebuilding
    BY <2>1 DEF StaysHost, Stays, StaysTo
  <2>. QED BY <2>1, <2>2
<1>. QED BY <1>1, PassesFrame

\* Runs that do not move.
LEMMA WatchdogStays ==
  ASSUME PassesInv, UNCHANGED watchdog
  PROVE  PassesGo
  BY DEF PassesInv, PassesGo, Dropped, Unhandled, watchdog

Aside == StaysHost /\ StaysRebuilding /\ UNCHANGED nextInc

\* What makes the identities of a plugin.
LEMMA IdentitiesFrame ==
  ASSUME \A c \in prepared' : c \in prepared \/ Identity(c) \in Identities(c.plugin),
         \A p \in Plugins : bundle'[p] # None =>
            bundle[p] # None /\ Identity(bundle'[p]) = Identity(bundle[p]),
         results' # None => Identity(results') \in Identities(results'.plugin)
  PROVE  \A p \in Plugins : Identities(p)' \subseteq Identities(p)
<1> SUFFICES ASSUME NEW p \in Plugins, NEW i \in Identities(p)' PROVE i \in Identities(p)
  OBVIOUS
<1>1. \A c \in prepared : c.plugin = p => Identity(c) \in Identities(p)
  BY DEF Identities
<1>2. CASE \E c \in prepared' : c.plugin = p /\ i = Identity(c)
  BY <1>1, <1>2
<1>3. CASE bundle'[p] # None /\ i = Identity(bundle'[p])
  <2>1. bundle[p] # None /\ i = Identity(bundle[p])
    BY <1>3
  <2>. QED BY <2>1 DEF Identities
<1>4. CASE results' # None /\ results'.plugin = p /\ i = Identity(results')
  BY <1>4
<1>. QED BY <1>2, <1>3, <1>4 DEF Identities, Identity

LEMMA ShownIdentity == results # None => Identity(results) \in Identities(results.plugin)
  BY DEF Identities
LEMMA PreparedIdentity == \A c \in prepared : Identity(c) \in Identities(c.plugin)
  BY DEF Identities

LEMMA SetQueueStays ==
  ASSUME HostInv, NEW p \in Plugins, NEW new, SetQueue(p, new), StaysTo(p, new)
  PROVE  \A x \in Plugins : /\ Stays(x)
                            /\ queue'[x] = IF x = p THEN new ELSE queue[x]
<1>1. queue \in [Plugins -> Queues \cup {None}]
  BY DEF HostInv, QueuesOK
<1>2. \A x \in Plugins : queue'[x] = IF x = p THEN new ELSE queue[x]
  BY <1>1 DEF SetQueue
<1>. QED BY <1>2 DEF Stays, StaysTo

\* No queue changes.
LEMMA QuietStays ==
  ASSUME UNCHANGED <<queue, manager>>, prepared' \subseteq prepared,
         results' # None => Identity(results') \in Identities(results'.plugin)
  PROVE  Aside
<1>1. \A p \in Plugins : Stays(p)
  BY DEF Stays, StaysTo
<1>2. UNCHANGED <<config, bundle, op, aborted, nextInc>>
  BY DEF manager
<1>3. \A p \in Plugins : Identities(p)' \subseteq Identities(p)
  BY <1>2, IdentitiesFrame
<1>. QED BY <1>1, <1>2, <1>3 DEF Aside, StaysHost, StaysRebuilding

\* One queue changes, no bundle and no operation.
LEMMA OneStays ==
  ASSUME HostInv, NEW p \in Plugins, NEW new, SetQueue(p, new), StaysTo(p, new),
         queue[p] # None => new # None /\ new.rebuilding = queue[p].rebuilding,
         UNCHANGED manager, \A c \in prepared' : c \in prepared \/ Identity(c) \in Identities(c.plugin),
         results' # None => Identity(results') \in Identities(results'.plugin)
  PROVE  Aside
<1>1. \A x \in Plugins : Stays(x) /\ queue'[x] = IF x = p THEN new ELSE queue[x]
  BY SetQueueStays
<1>2. UNCHANGED <<config, bundle, op, aborted, nextInc>>
  BY DEF manager
<1>3. \A x \in Plugins : Identities(x)' \subseteq Identities(x)
  BY <1>2, IdentitiesFrame
<1>. QED BY <1>1, <1>2, <1>3 DEF Aside, StaysHost, StaysRebuilding

LEMMA AlikeStays ==
  ASSUME HostInv, NEW p \in Plugins, queue[p] # None, NEW new, SetQueue(p, new),
         Alike(queue[p], new), Sound(p, new),
         UNCHANGED manager, prepared' \subseteq prepared,
         results' # None => Identity(results') \in Identities(results'.plugin)
  PROVE  Aside
<1>1. new # None
  BY SoundThere
<1>2. StaysTo(p, new)
  BY <1>1 DEF Alike, StaysTo
<1>. QED BY <1>1, <1>2, OneStays DEF Alike
\* What every step that publishes no identity keeps.
LEMMA AsideKeeps ==
  ASSUME HostInv, Aside
  PROVE  /\ IdentityInv => IdentityInv'
         /\ GenerationsInv /\ "purge" \notin Ops =>
               /\ GenerationsInv'
               /\ PassesInv /\ PassesGo => PassesInv'
               /\ AgreeInv => AgreeInv'
<1>1. IdentityInv => IdentityInv'
  BY StaysIdentity DEF Aside
<1>2. ASSUME GenerationsInv, "purge" \notin Ops
      PROVE  /\ GenerationsInv'
             /\ PassesInv /\ PassesGo => PassesInv'
             /\ AgreeInv => AgreeInv'
  BY <1>2, StaysGenerations, StaysPasses, StaysAgree DEF Aside
<1>. QED BY <1>1, <1>2
-----------------------------------------------------------------------------
(* Steps that publish no identity *)

LEMMA PrepareAside ==
  ASSUME HostInv, NEW p \in Plugins, Prepare(p)
  PROVE  Aside
<1> DEFINE c == NewCandidate(p, "command", bundle[p], None)
<1>1. prepared' = prepared \cup {c} /\ bundle[p] # None
  BY DEF Prepare, Confirmed
<1>2. c.plugin = p /\ Identity(c) = Identity(bundle[p])
  BY DEF NewCandidate, Identity
<1> HIDE DEF c
<1>3. Identity(c) \in Identities(c.plugin)
  BY <1>1, <1>2 DEF Identities
<1>4. UNCHANGED <<queue, config, bundle, op, aborted, nextInc, results>>
  BY DEF Prepare, scheduler, manager, service
<1>5. \A x \in Plugins : Identities(x)' \subseteq Identities(x)
  BY <1>1, <1>3, <1>4, IdentitiesFrame, ShownIdentity
<1>6. \A x \in Plugins : Stays(x)
  BY <1>4 DEF Stays, StaysTo
<1>. QED BY <1>4, <1>5, <1>6 DEF Aside, StaysHost, StaysRebuilding

LEMMA ReserveResultAside ==
  ASSUME HostInv, ReserveResult
  PROVE  Aside
<1> DEFINE c == NewCandidate(results.plugin, "result", results, results.lease)
<1>1. prepared' = prepared \cup {c} /\ results # None
  BY DEF ReserveResult
<1>2. c.plugin = results.plugin /\ Identity(c) = Identity(results)
  BY DEF NewCandidate, Identity
<1> HIDE DEF c
<1>3. Identity(c) \in Identities(c.plugin)
  BY <1>1, <1>2, ShownIdentity
<1>4. UNCHANGED <<queue, config, bundle, op, aborted, nextInc, results>>
  BY DEF ReserveResult, scheduler, manager, service
<1>5. \A x \in Plugins : Identities(x)' \subseteq Identities(x)
  BY <1>1, <1>3, <1>4, IdentitiesFrame, ShownIdentity
<1>6. \A x \in Plugins : Stays(x)
  BY <1>4 DEF Stays, StaysTo
<1>. QED BY <1>4, <1>5, <1>6 DEF Aside, StaysHost, StaysRebuilding

LEMMA SubmitAside ==
  ASSUME HostInv, NEW c \in prepared, Submit(c)
  PROVE  Aside
<1> DEFINE p == c.plugin
           q == IF queue[p] = None THEN NewQueue(c.gen, c.inc, Fresh) ELSE queue[p]
           e == Enqueue(q, c)
<1>1. /\ c \in Candidates /\ p \in Plugins /\ c.gen \in Nat /\ c.inc \in Nat
      /\ prepared' \subseteq prepared /\ UNCHANGED <<manager, results>>
  BY DEF HostInv, RequestsOK, Candidates, Submit, service
<1>2. CASE SetQueue(p, e) /\ Accepts(q, c)
  <2>1. Sound(p, q) /\ SameIdentity(q, c)
    BY <1>1, <1>2, SetQueueFresh, FoundSound DEF HostInv, Accepts
  <2>2. Sound(p, e) /\ Same(q, e)
    BY <1>1, <1>2, <2>1, EnqueueSound, EnqueueMoves
  <2>3. Identity(c) \in Identities(p)
    BY PreparedIdentity
  <2>4. queue[p] = None => ~q.rebuilding
    BY DEF NewQueue
  <2>5. queue[p] # None => q = queue[p]
    OBVIOUS
  <2> HIDE DEF q, e
  <2>6. /\ e # None /\ e.gen = q.gen /\ e.inc = q.inc /\ e.rebuilding = q.rebuilding
        /\ Identity(e) = Identity(c) /\ Identity(q) = Identity(c)
    BY <2>1, <2>2, SoundThere DEF Same, SameIdentity, Identity
  <2>7. StaysTo(p, e)
    BY <2>3, <2>4, <2>5, <2>6 DEF StaysTo
  <2>8. queue[p] # None => e # None /\ e.rebuilding = queue[p].rebuilding
    BY <2>5, <2>6
  <2> HIDE DEF p
  <2>. QED BY <1>1, <1>2, <2>7, <2>8, OneStays, ShownIdentity
<1>3. CASE UNCHANGED scheduler
  BY <1>1, <1>3, QuietStays, ShownIdentity DEF scheduler
<1>. QED BY <1>2, <1>3 DEF Submit

LEMMA BindRouteAside ==
  ASSUME HostInv, NEW p \in Plugins, BindRoute(p)
  PROVE  Aside
  BY QuietStays, ShownIdentity DEF BindRoute, scheduler, service

LEMMA AbortUnboundAside ==
  ASSUME HostInv, NEW p \in Plugins, AbortUnbound(p)
  PROVE  Aside
<1> DEFINE new == Cancel(queue[p], Ctx(queue[p].running.req))
<1>1. queue[p] # None /\ Sound(p, queue[p])
  BY ThereSound DEF AbortUnbound, Unbound
<1>2. Sound(p, new) /\ Alike(queue[p], new)
  BY <1>1, CancelSound, CancelAlike
<1>3. SetQueue(p, new) /\ UNCHANGED <<manager, prepared, results>>
  BY DEF AbortUnbound, service
<1> HIDE DEF new
<1>. QED BY <1>1, <1>2, <1>3, AlikeStays, ShownIdentity

LEMMA RecoverRuntimeAside ==
  ASSUME HostInv, NEW c \in prepared, RecoverRuntime(c)
  PROVE  Aside
<1>1. /\ UNCHANGED <<queue, config, op, aborted, nextInc, results>>
      /\ prepared' \subseteq prepared
  BY DEF RecoverRuntime, scheduler, service
<1>2. bundle' = bundle \/ (bundle[c.plugin] # None
                           /\ bundle' = [bundle EXCEPT ![c.plugin].recovery = FALSE])
  BY DEF RecoverRuntime, Confirmed
<1>3. \A p \in Plugins : bundle'[p] # None =>
          bundle[p] # None /\ Identity(bundle'[p]) = Identity(bundle[p])
  BY <1>2 DEF HostInv, ManagerOK, Bundles, Identity
<1>4. \A p \in Plugins : Identities(p)' \subseteq Identities(p)
  BY <1>1, <1>3, IdentitiesFrame, ShownIdentity
<1>5. \A p \in Plugins : Stays(p)
  BY <1>1 DEF Stays, StaysTo
<1>. QED BY <1>1, <1>3, <1>4, <1>5 DEF Aside, StaysHost, StaysRebuilding

LEMMA DropPreparedAside ==
  ASSUME HostInv, NEW c \in prepared, DropPrepared(c)
  PROVE  Aside
  BY QuietStays, ShownIdentity DEF DropPrepared, scheduler, service

LEMMA ContentActionAside ==
  ASSUME HostInv, NEW p \in Plugins, ContentAction(p)
  PROVE  Aside
<1> DEFINE c == NewCandidate(p, "content", bundle[p], None)
           q == IF queue[p] = None THEN NewQueue(c.gen, c.inc, Fresh) ELSE queue[p]
           e == Enqueue(q, c)
<1>1. /\ SetQueue(p, e) /\ Accepts(q, c) /\ bundle[p] # None /\ nextRequest \in Requests
      /\ UNCHANGED <<manager, prepared, results>>
  BY DEF ContentAction, Confirmed, service
<1>2. /\ c \in Candidates /\ c.plugin = p /\ c.gen \in Nat /\ c.inc \in Nat
      /\ Identity(c) = Identity(bundle[p])
  <2>1. bundle[p].gen \in Nat /\ bundle[p].inc \in Nat
    BY <1>1 DEF HostInv, ManagerOK, Bundles
  <2>. QED BY <1>1, <2>1 DEF NewCandidate, Candidates, Kinds, Identity
<1>3. Identity(c) \in Identities(p)
  BY <1>1, <1>2 DEF Identities
<1>4. queue[p] = None => ~q.rebuilding
  BY DEF NewQueue
<1>5. queue[p] # None => q = queue[p]
  OBVIOUS
<1> HIDE DEF c
<1>6. Sound(p, q) /\ SameIdentity(q, c)
  BY <1>1, <1>2, SetQueueFresh, FoundSound DEF HostInv, Accepts
<1> HIDE DEF q
<1>7. Sound(p, e) /\ Same(q, e)
  BY <1>1, <1>2, <1>6, EnqueueSound, EnqueueMoves
<1> HIDE DEF e
<1>8. /\ e # None /\ e.gen = q.gen /\ e.inc = q.inc /\ e.rebuilding = q.rebuilding
      /\ Identity(e) = Identity(c) /\ Identity(q) = Identity(c)
  BY <1>6, <1>7, SoundThere DEF Same, SameIdentity, Identity
<1>9. StaysTo(p, e)
  BY <1>3, <1>4, <1>5, <1>8 DEF StaysTo
<1>10. queue[p] # None => e # None /\ e.rebuilding = queue[p].rebuilding
  BY <1>5, <1>8
<1>. QED BY <1>1, <1>9, <1>10, OneStays, ShownIdentity

LEMMA AdmitResultActionAside ==
  ASSUME HostInv, NEW c \in prepared, AdmitResultAction(c)
  PROVE  Aside
<1> DEFINE p == c.plugin
           e == AdmitResult(queue[p], c)
<1>1. /\ c \in Candidates /\ p \in Plugins /\ prepared' \subseteq prepared /\ UNCHANGED manager
  BY DEF HostInv, RequestsOK, Candidates, AdmitResultAction
<1>2. results' # None => Identity(results') \in Identities(results'.plugin)
  <2>1. CASE UNCHANGED results
    BY <2>1, ShownIdentity
  <2>2. CASE results # None /\ results' = [results EXCEPT !.claim = "inflight"]
    <3>1. results'.plugin = results.plugin /\ Identity(results') = Identity(results)
      BY <2>2 DEF HostInv, ServiceOK, ResultSets, Identity
    <3>. QED BY <2>2, <3>1, ShownIdentity
  <2>. QED BY <2>1, <2>2 DEF AdmitResultAction, Claimable
<1>3. CASE UNCHANGED scheduler
  BY <1>1, <1>2, <1>3, QuietStays DEF scheduler
<1>4. CASE SetQueue(p, e) /\ queue[p] # None /\ AdmitsResult(queue[p], c)
  <2>1. Sound(p, queue[p]) /\ SameIdentity(queue[p], c)
    BY <1>1, <1>4, ThereSound DEF AdmitsResult
  <2>2. Sound(p, e) /\ Same(queue[p], e)
    BY <1>1, <1>4, <2>1, AdmitResultSound, AdmitResultMoves
  <2>3. Identity(c) \in Identities(p) /\ Identity(queue[p]) = Identity(c)
    BY <2>1, PreparedIdentity DEF SameIdentity, Identity
  <2> HIDE DEF e
  <2>4. /\ e # None /\ e.gen = queue[p].gen /\ e.inc = queue[p].inc
        /\ e.rebuilding = queue[p].rebuilding
    BY <2>2, SoundThere DEF Same
  <2>5. StaysTo(p, e)
    BY <1>4, <2>3, <2>4 DEF StaysTo
  <2> HIDE DEF p
  <2>. QED BY <1>1, <1>2, <1>4, <2>4, <2>5, OneStays
<1>. QED BY <1>3, <1>4 DEF AdmitResultAction, ResultOwner, PublicationCurrent

LEMMA CompleteRequestAside ==
  ASSUME HostInv, NEW p \in Plugins, CompleteRequest(p)
  PROVE  Aside
<1> DEFINE new == Complete(queue[p], live)
<1>1. queue[p] # None /\ queue[p].running # None /\ Sound(p, queue[p])
  BY ThereSound DEF CompleteRequest
<1>2. Sound(p, new) /\ Alike(queue[p], new)
  BY <1>1, CompleteSound, CompleteAlike
<1>3. SetQueue(p, new) /\ UNCHANGED <<manager, prepared, results>>
  BY DEF CompleteRequest
<1> HIDE DEF new
<1>. QED BY <1>1, <1>2, <1>3, AlikeStays, ShownIdentity

LEMMA SettleContentAside ==
  ASSUME HostInv, NEW p \in Plugins, SettleContent(p)
  PROVE  Aside
<1>1. queue[p] # None /\ Sound(p, queue[p])
  BY ThereSound DEF SettleContent
<1>2. Sound(p, TakeTicket(queue[p])) /\ Alike(queue[p], TakeTicket(queue[p]))
  BY <1>1, TakeTicketSound, TakeTicketAlike
<1>. QED BY <1>1, <1>2, AlikeStays, ShownIdentity DEF SettleContent

\* What is shown belongs to the confirmed bundle.
LEMMA ShowIdentity ==
  ASSUME NEW p \in Plugins, NEW o, ResultOwner(p, o), Show(p, o)
  PROVE  Identity(results') \in Identities(results'.plugin)
<1>1. results'.plugin = p /\ Identity(results') = Identity(bundle[p]) /\ bundle[p] # None
  BY DEF ResultOwner, OwnsBundle, Confirmed, Show, Identity
<1>. QED BY <1>1 DEF Identities

LEMMA PublishAnswerAside ==
  ASSUME HostInv, NEW a \in answers, PublishAnswer(a)
  PROVE  Aside
<1>1. a.plugin \in Plugins
  BY DEF HostInv, ServiceOK, Answers
<1>2. results' # None => Identity(results') \in Identities(results'.plugin)
  BY <1>1, ShowIdentity, ShownIdentity DEF PublishAnswer
<1>. QED BY <1>2, QuietStays DEF PublishAnswer

LEMMA FinishResultActionAside ==
  ASSUME HostInv, NEW f \in finishing, FinishResultAction(f)
  PROVE  Aside
<1> DEFINE p == f.req.plugin
           e == TakeTicket(queue[p])
<1>1. p \in Plugins
  BY DEF HostInv, ServiceOK, Finishing, Candidates
<1>2. results' # None => Identity(results') \in Identities(results'.plugin)
  <2>1. CASE ResultOwner(p, f.req) /\ Show(p, f.req)
    BY <1>1, <2>1, ShowIdentity
  <2>2. CASE results' = results
    BY <2>2, ShownIdentity
  <2>3. CASE results # None /\ results' = [results EXCEPT !.claim = "consumed"]
    <3>1. results'.plugin = results.plugin /\ Identity(results') = Identity(results)
      BY <2>3 DEF HostInv, ServiceOK, ResultSets, Identity
    <3>. QED BY <2>3, <3>1, ShownIdentity
  <2>. QED BY <2>1, <2>2, <2>3 DEF FinishResultAction, Publishable
<1>3. UNCHANGED <<manager, prepared>>
  BY DEF FinishResultAction
<1>4. CASE queue' = queue
  BY <1>2, <1>3, <1>4, QuietStays
<1>5. CASE queue[p] # None /\ queue' = [queue EXCEPT ![p] = e]
  <2>1. Sound(p, queue[p])
    BY <1>1, <1>5, ThereSound
  <2>2. e # None /\ Alike(queue[p], e)
    BY <2>1, TakeTicketSound, TakeTicketAlike, SoundThere
  <2> HIDE DEF e
  <2>3. queue \in [Plugins -> Queues \cup {None}]
    BY DEF HostInv, QueuesOK
  <2>4. \A x \in Plugins : queue'[x] = IF x = p THEN e ELSE queue[x]
    BY <1>5, <2>3
  <2> HIDE DEF p
  <2>5. \A x \in Plugins : Stays(x)
    BY <1>5, <2>2, <2>4 DEF Stays, StaysTo, Alike
  <2>6. UNCHANGED <<config, bundle, op, aborted, nextInc>>
    BY <1>3 DEF manager
  <2>7. \A x \in Plugins : Identities(x)' \subseteq Identities(x)
    BY <1>2, <1>3, <2>6, IdentitiesFrame
  <2>8. StaysRebuilding
    BY <1>5, <2>2, <2>4 DEF StaysRebuilding, Alike
  <2>. QED BY <2>5, <2>6, <2>7, <2>8 DEF Aside, StaysHost
<1>. QED BY <1>4, <1>5 DEF FinishResultAction

LEMMA DismissResultsAside ==
  ASSUME HostInv, DismissResults
  PROVE  Aside
  BY QuietStays DEF DismissResults
LEMMA RevokeInFlightAside ==
  ASSUME HostInv, RevokeInFlight
  PROVE  Aside
  BY QuietStays, ShownIdentity DEF RevokeInFlight, service

LEMMA RetireContentAside ==
  ASSUME HostInv, NEW p \in Plugins, RetireContent(p)
  PROVE  Aside
<1>1. PICK ctx : SetQueue(p, RetireContext(queue[p], ctx))
  BY DEF RetireContent
<1>2. queue[p] # None /\ Sound(p, queue[p])
  BY ThereSound DEF RetireContent
<1>3. /\ Sound(p, RetireContext(queue[p], ctx))
      /\ Alike(queue[p], RetireContext(queue[p], ctx))
  BY <1>2, RetireContextSound, RetireContextAlike
<1>. QED BY <1>1, <1>2, <1>3, AlikeStays, ShownIdentity DEF RetireContent, service

LEMMA CancelRequestAside ==
  ASSUME HostInv, NEW p \in Plugins, CancelRequest(p)
  PROVE  Aside
<1>1. PICK ctx : SetQueue(p, Cancel(queue[p], ctx))
  BY DEF CancelRequest
<1>2. queue[p] # None /\ Sound(p, queue[p])
  BY ThereSound DEF CancelRequest
<1>3. Sound(p, Cancel(queue[p], ctx)) /\ Alike(queue[p], Cancel(queue[p], ctx))
  BY <1>2, CancelSound, CancelAlike
<1>. QED BY <1>1, <1>2, <1>3, AlikeStays, ShownIdentity DEF CancelRequest, service

LEMMA RetireServiceAside ==
  ASSUME HostInv, NEW p \in Plugins, RetireService(p)
  PROVE  Aside
<1>1. queue[p] # None /\ Sound(p, queue[p]) /\ UNCHANGED <<manager, prepared, results>>
  BY ThereSound DEF RetireService, service
<1>2. CASE \E ctx \in HeldContexts(queue[p]) : SetQueue(p, RetireRequest(queue[p], ctx, Fresh))
  <2>1. PICK ctx : SetQueue(p, RetireRequest(queue[p], ctx, Fresh))
    BY <1>2
  <2>2. /\ Sound(p, RetireRequest(queue[p], ctx, Fresh))
        /\ Alike(queue[p], RetireRequest(queue[p], ctx, Fresh))
    BY <1>1, <2>1, SetQueueFresh, RetireRequestSound, RetireRequestAlike
  <2>. QED BY <1>1, <2>1, <2>2, AlikeStays, ShownIdentity
<1>3. CASE SetQueue(p, [queue[p] EXCEPT !.pub = Fresh])
  <2>1. /\ Sound(p, [queue[p] EXCEPT !.pub = Fresh])
        /\ Alike(queue[p], [queue[p] EXCEPT !.pub = Fresh])
    BY <1>1, <1>3, SetQueueFresh, PublicationSound, PublicationAlike
  <2>. QED BY <1>1, <1>3, <2>1, AlikeStays, ShownIdentity
<1>. QED BY <1>2, <1>3 DEF RetireService
-----------------------------------------------------------------------------
(* Management steps that publish no identity *)

\* The manager's part of a step that leaves requests and results alone.
ManagerStays ==
    /\ UNCHANGED <<prepared, results>>
    /\ \A p \in Plugins :
        /\ op'[p] = op[p] \/ Harmless(op'[p])
        /\ bundle'[p] # None => bundle[p] # None /\ Identity(bundle'[p]) = Identity(bundle[p])
        /\ aborted'[p] \in {aborted[p], None, bundle[p]}
        /\ config'[p].gen = config[p].gen
        /\ config'[p].status = "absent" => config[p].status = "absent" \/ Purging(op[p])

LEMMA ManagerStaysHost ==
  ASSUME ManagerStays, \A p \in Plugins : Stays(p)
  PROVE  StaysHost
<1>1. \A p \in Plugins : Identities(p)' \subseteq Identities(p)
  BY IdentitiesFrame, ShownIdentity DEF ManagerStays
<1>. QED BY <1>1 DEF ManagerStays, StaysHost

\* Queues that do not change.
LEMMA ManagerAside ==
  ASSUME ManagerStays, UNCHANGED <<queue, nextInc>>
  PROVE  Aside
<1>1. \A p \in Plugins : Stays(p)
  BY DEF Stays, StaysTo
<1>. QED BY <1>1, ManagerStaysHost DEF Aside, StaysRebuilding

LEMMA ReservedHarmless ==
  \A kind, gen, inc, by :
    kind \notin {"enable", "update", "replace"} /\ (kind = "purge" => "purge" \in Ops) =>
        Harmless(Reserved(kind, gen, inc, by))
  BY DEF Harmless, Activating, Purging, Reserved

\* A reservation that will publish no identity, and one that is given up.
LEMMA OpStays ==
  ASSUME HostInv, NEW p \in Plugins, NEW o, Harmless(o), op' = [op EXCEPT ![p] = o],
         UNCHANGED <<config, bundle, aborted, prepared, results>>
  PROVE  ManagerStays
<1>1. \A x \in Plugins : op'[x] = IF x = p THEN o ELSE op[x]
  BY DEF HostInv, ManagerOK
<1>. QED BY <1>1 DEF ManagerStays

LEMMA NoneHarmless == Harmless(None)
  BY DEF Harmless, Activating, Purging

LEMMA BeginChangeAside ==
  ASSUME HostInv, NEW p \in Plugins, NEW kind \in {"change", "disable"}, BeginChange(p, kind)
  PROVE  Aside
<1> DEFINE o == Reserved(kind, bundle[p].gen, bundle[p].inc, None)
<1>1. Harmless(o)
  BY ReservedHarmless
<1> HIDE DEF o
<1>2. /\ op' = [op EXCEPT ![p] = o]
      /\ UNCHANGED <<queue, config, bundle, aborted, nextInc, prepared, results>>
  BY DEF BeginChange, scheduler, service, o
<1>. QED BY <1>1, <1>2, OpStays, ManagerAside

LEMMA BeginFaultAside ==
  ASSUME HostInv, NEW p \in Plugins, BeginFault(p)
  PROVE  Aside
<1> DEFINE o == Reserved("fault", bundle[p].gen, bundle[p].inc, None)
<1>1. Harmless(o)
  BY ReservedHarmless
<1> HIDE DEF o
<1>2. /\ op' = [op EXCEPT ![p] = o]
      /\ UNCHANGED <<queue, config, bundle, aborted, nextInc, prepared, results>>
  BY DEF BeginFault, scheduler, service, o
<1>. QED BY <1>1, <1>2, OpStays, ManagerAside

LEMMA NotCommittedAside ==
  ASSUME HostInv, NEW p \in Plugins, NotCommitted(p)
  PROVE  Aside
<1>1. /\ op' = [op EXCEPT ![p] = None]
      /\ UNCHANGED <<queue, config, bundle, aborted, nextInc, prepared, results>>
  BY DEF NotCommitted, scheduler, service
<1>. QED BY <1>1, NoneHarmless, OpStays, ManagerAside

\* Retiring keeps a queue what it is.
LEMMA RetireIfAnyStays ==
  ASSUME HostInv, NEW p \in Plugins, NEW fresh \in Tokens
  PROVE  LET new == RetireIfAny(queue[p], fresh)
         IN  /\ StaysTo(p, new) /\ (queue[p] = None => new = None)
             /\ queue[p] # None => /\ new # None /\ Sound(p, new)
                                   /\ new.rebuilding = queue[p].rebuilding
<1>1. CASE queue[p] = None
  BY <1>1 DEF RetireIfAny, StaysTo
<1>2. CASE queue[p] # None
  <2>1. Sound(p, queue[p]) /\ RetireIfAny(queue[p], fresh) = RetirePlugin(queue[p], fresh)
    BY <1>2, ThereSound DEF RetireIfAny
  <2>2. /\ Sound(p, RetirePlugin(queue[p], fresh)) /\ RetirePlugin(queue[p], fresh) # None
        /\ Alike(queue[p], RetirePlugin(queue[p], fresh))
    BY <2>1, RetirePluginSound, RetirePluginAlike, SoundThere
  <2>. QED BY <1>2, <2>1, <2>2 DEF Alike, StaysTo
<1>. QED BY <1>1, <1>2

LEMMA InvalidateIfAnyStays ==
  ASSUME HostInv, NEW p \in Plugins, NEW fresh \in Tokens
  PROVE  LET new == InvalidateIfAny(queue[p], fresh)
         IN  /\ StaysTo(p, new) /\ (queue[p] = None => new = None)
             /\ queue[p] # None => new # None /\ new.rebuilding = FALSE
<1>1. CASE queue[p] = None
  BY <1>1 DEF InvalidateIfAny, StaysTo
<1>2. CASE queue[p] # None
  <2>1. Sound(p, queue[p]) /\ InvalidateIfAny(queue[p], fresh) = Invalidate(queue[p], fresh)
    BY <1>2, ThereSound DEF InvalidateIfAny
  <2>2. /\ Invalidate(queue[p], fresh) # None
        /\ Emptied(queue[p], Invalidate(queue[p], fresh))
    BY <2>1, InvalidateSound, InvalidateEmptied, SoundThere
  <2>. QED BY <1>2, <2>1, <2>2 DEF Emptied, StaysTo
<1>. QED BY <1>1, <1>2

LEMMA RetireInvalidateStays ==
  ASSUME HostInv, NEW p \in Plugins, NEW fresh \in Tokens
  PROVE  LET new == InvalidateIfAny(RetireIfAny(queue[p], fresh), fresh)
         IN  /\ StaysTo(p, new) /\ (queue[p] = None => new = None)
             /\ queue[p] # None => new # None /\ new.rebuilding = FALSE
<1> DEFINE q == queue[p]
           m == RetirePlugin(q, fresh)
           e == Invalidate(m, fresh)
<1>1. CASE q = None
  BY <1>1 DEF RetireIfAny, InvalidateIfAny, StaysTo
<1>2. CASE q # None
  <2>1. Sound(p, m) /\ m # None /\ Alike(q, m)
    BY <1>2, ThereSound, RetirePluginSound, RetirePluginAlike, SoundThere
  <2>2. InvalidateIfAny(RetireIfAny(q, fresh), fresh) = e
    BY <1>2, <2>1 DEF RetireIfAny, InvalidateIfAny
  <2> HIDE DEF m
  <2>3. e # None /\ Emptied(m, e)
    BY <2>1, InvalidateSound, InvalidateEmptied, SoundThere
  <2> HIDE DEF e
  <2>. QED BY <1>2, <2>1, <2>2, <2>3 DEF Emptied, Alike, StaysTo
<1>. QED BY <1>1, <1>2

LEMMA CommitChangeAside ==
  ASSUME HostInv, NEW p \in Plugins, CommitChange(p)
  PROVE  Aside
<1> DEFINE new == RetireIfAny(queue[p], Fresh)
<1>1. /\ SetQueue(p, new) /\ op' = [op EXCEPT ![p] = None]
      /\ UNCHANGED <<config, bundle, aborted, nextInc, prepared, results>>
  BY DEF CommitChange, service
<1>2. /\ StaysTo(p, new)
      /\ queue[p] # None => new # None /\ new.rebuilding = queue[p].rebuilding
  BY <1>1, SetQueueFresh, RetireIfAnyStays
<1> HIDE DEF new
<1>3. \A x \in Plugins : Stays(x) /\ queue'[x] = IF x = p THEN new ELSE queue[x]
  BY <1>1, <1>2, SetQueueStays
<1>4. StaysHost
  BY <1>1, <1>3, NoneHarmless, OpStays, ManagerStaysHost
<1>. QED BY <1>1, <1>2, <1>3, <1>4 DEF Aside, StaysRebuilding

LEMMA UnknownOutcomeAside ==
  ASSUME HostInv, NEW p \in Plugins, UnknownOutcome(p)
  PROVE  Aside
<1> DEFINE new == RetireIfAny(queue[p], Fresh)
<1>1. /\ op' = [op EXCEPT ![p].kind = "lost"] /\ op[p] # None
      /\ UNCHANGED <<config, bundle, aborted, nextInc, prepared, results>>
  BY DEF UnknownOutcome, service
<1>2. ManagerStays
  <2>1. \A x \in Plugins : op'[x] = op[x] \/ Harmless(op'[x])
    BY <1>1 DEF HostInv, ManagerOK, Operations, Activating, Purging, Harmless
  <2>. QED BY <1>1, <2>1 DEF ManagerStays
<1>3. CASE SetQueue(p, new)
  <2>1. /\ StaysTo(p, new)
        /\ queue[p] # None => new # None /\ new.rebuilding = queue[p].rebuilding
    BY <1>3, SetQueueFresh, RetireIfAnyStays
  <2> HIDE DEF new
  <2>2. \A x \in Plugins : Stays(x) /\ queue'[x] = IF x = p THEN new ELSE queue[x]
    BY <1>3, <2>1, SetQueueStays
  <2>. QED BY <1>1, <1>2, <2>1, <2>2, ManagerStaysHost DEF Aside, StaysRebuilding
<1>4. CASE UNCHANGED scheduler
  BY <1>1, <1>2, <1>4, ManagerAside DEF scheduler
<1>. QED BY <1>3, <1>4 DEF UnknownOutcome

\* A plugin that is disabled.
LEMMA DisabledStays ==
  ASSUME HostInv, NEW p \in Plugins, NEW status, status # "absent" \/ Purging(op[p]),
         op' = [op EXCEPT ![p] = None], bundle' = [bundle EXCEPT ![p] = None],
         config' = [config EXCEPT ![p].status = status],
         UNCHANGED <<aborted, prepared, results>>
  PROVE  ManagerStays /\ op'[p] = None /\ bundle'[p] = None
<1>1. /\ \A x \in Plugins : op'[x] = IF x = p THEN None ELSE op[x]
      /\ \A x \in Plugins : bundle'[x] = IF x = p THEN None ELSE bundle[x]
  BY DEF HostInv, ManagerOK
<1>2. \A x \in Plugins : /\ config'[x].gen = config[x].gen
                         /\ x # p => config'[x].status = config[x].status
                         /\ x = p => config'[x].status = status
  BY DEF HostInv, ManagerOK, Configs
<1>. QED BY <1>1, <1>2, NoneHarmless DEF ManagerStays

LEMMA CommitDisableAside ==
  ASSUME HostInv, NEW p \in Plugins, CommitDisable(p)
  PROVE  Aside
<1> DEFINE new == InvalidateIfAny(RetireIfAny(queue[p], Fresh), Fresh)
<1>1. /\ SetQueue(p, new) /\ UNCHANGED nextInc
      /\ ManagerStays /\ op'[p] = None /\ bundle'[p] = None
  <2>1. /\ SetQueue(p, new) /\ op' = [op EXCEPT ![p] = None]
        /\ bundle' = [bundle EXCEPT ![p] = None]
        /\ config' = [config EXCEPT ![p].status = "disabled"]
        /\ UNCHANGED <<aborted, nextInc, prepared, results>>
    BY DEF CommitDisable, service
  <2>2. "disabled" # "absent" \/ Purging(op[p])
    OBVIOUS
  <2> HIDE DEF new
  <2>. QED BY <2>1, <2>2, DisabledStays
<1>2. StaysTo(p, new)
  BY <1>1, SetQueueFresh, RetireInvalidateStays
<1> HIDE DEF new
<1>3. \A x \in Plugins : Stays(x) /\ queue'[x] = IF x = p THEN new ELSE queue[x]
  BY <1>1, <1>2, SetQueueStays
<1>. QED BY <1>1, <1>3, ManagerStaysHost DEF Aside, StaysRebuilding

\* ... and its queue no longer rebuilds.
LEMMA PublishFaultAside ==
  ASSUME HostInv, NEW p \in Plugins, PublishFault(p)
  PROVE  Aside /\ (queue[p] # None => ~queue'[p].rebuilding)
<1> DEFINE new == InvalidateIfAny(queue[p], Fresh)
<1>1. /\ SetQueue(p, new) /\ UNCHANGED nextInc
      /\ ManagerStays /\ op'[p] = None /\ bundle'[p] = None
  <2>1. /\ SetQueue(p, new) /\ op' = [op EXCEPT ![p] = None]
        /\ bundle' = [bundle EXCEPT ![p] = None]
        /\ config' = [config EXCEPT ![p].status = "disabled"]
        /\ UNCHANGED <<aborted, nextInc, prepared, results>>
    BY DEF PublishFault, service
  <2>2. "disabled" # "absent" \/ Purging(op[p])
    OBVIOUS
  <2> HIDE DEF new
  <2>. QED BY <2>1, <2>2, DisabledStays
<1>2. StaysTo(p, new) /\ (queue[p] # None => new # None /\ new.rebuilding = FALSE)
  BY <1>1, SetQueueFresh, InvalidateIfAnyStays
<1> HIDE DEF new
<1>3. \A x \in Plugins : Stays(x) /\ queue'[x] = IF x = p THEN new ELSE queue[x]
  BY <1>1, <1>2, SetQueueStays
<1>. QED BY <1>1, <1>2, <1>3, ManagerStaysHost DEF Aside, StaysRebuilding

LEMMA CommitUninstallAside ==
  ASSUME HostInv, NEW p \in Plugins, CommitUninstall(p)
  PROVE  Aside
<1> DEFINE status == IF op[p].kind = "purge" THEN "absent" ELSE "retained"
<1>1. UNCHANGED <<queue, nextInc, aborted, prepared, results>>
  BY DEF CommitUninstall, scheduler, service
<1>2. ManagerStays
  <2>1. status # "absent" \/ Purging(op[p])
    BY DEF CommitUninstall, Purging
  <2>2. /\ op' = [op EXCEPT ![p] = None] /\ bundle' = [bundle EXCEPT ![p] = None]
        /\ config' = [config EXCEPT ![p].status = status]
    BY DEF CommitUninstall
  <2> HIDE DEF status
  <2>. QED BY <1>1, <2>1, <2>2, DisabledStays
<1>. QED BY <1>1, <1>2, ManagerAside

LEMMA ReleaseUninstallAside ==
  ASSUME HostInv, NEW p \in Plugins, ReleaseUninstall(p)
  PROVE  Aside
<1>1. UNCHANGED <<queue, nextInc, config, bundle, prepared, results>>
  BY DEF ReleaseUninstall, scheduler, service
<1>2. /\ \A x \in Plugins : op'[x] = IF x = p THEN None ELSE op[x]
      /\ \A x \in Plugins : aborted'[x] = IF x = p THEN bundle[p] ELSE aborted[x]
  BY DEF HostInv, ManagerOK, ReleaseUninstall
<1>3. ManagerStays
  BY <1>1, <1>2, NoneHarmless DEF ManagerStays
<1>. QED BY <1>1, <1>3, ManagerAside

LEMMA CloseAside == ASSUME ClosePublications \/ CloseGate PROVE Aside
  BY QuietStays, ShownIdentity DEF ClosePublications, CloseGate, scheduler, service

\* An uninstall that begins: what was rebuilding no longer is.
LEMMA BeginUninstallStays ==
  ASSUME HostInv, NEW p \in Plugins, NEW kind \in {"uninstall", "purge"}, BeginUninstall(p, kind)
  PROVE  /\ StaysHost /\ UNCHANGED nextInc
         /\ (\A x \in Plugins : queue[x] # None => ~queue[x].rebuilding) => StaysRebuilding
         /\ \A x \in Plugins : queue[x] # None => queue'[x] = queue[x] \/ ~queue'[x].rebuilding
                                                  \/ kind = "purge"
<1> DEFINE o == Reserved(kind, config[p].gen, 0, None)
           new == IF kind = "purge" THEN None
                  ELSE InvalidateIfAny(RetireIfAny(queue[p], Fresh), Fresh)
<1>1. Harmless(o)
  <2>1. kind \in Ops
    BY DEF BeginUninstall
  <2>. QED BY <2>1, ReservedHarmless
<1> HIDE DEF o
<1>2. /\ SetQueue(p, new) /\ op' = [op EXCEPT ![p] = o] /\ kind \in Ops
      /\ UNCHANGED <<config, bundle, aborted, nextInc, prepared, results>>
  BY DEF BeginUninstall, service, o
<1>3. /\ StaysTo(p, new)
      /\ kind # "purge" /\ queue[p] # None => new # None /\ new.rebuilding = FALSE
  BY <1>2, SetQueueFresh, RetireInvalidateStays DEF StaysTo
<1> HIDE DEF new
<1>4. \A x \in Plugins : Stays(x) /\ queue'[x] = IF x = p THEN new ELSE queue[x]
  BY <1>2, <1>3, SetQueueStays
<1>5. StaysHost
  BY <1>1, <1>2, <1>4, OpStays, ManagerStaysHost
<1>. QED BY <1>2, <1>3, <1>4, <1>5 DEF StaysRebuilding

-----------------------------------------------------------------------------
(* Runs of expire_runtime_timeouts *)

LEMMA RunTypes ==
  ASSUME HostInv, NEW w \in Watchers
  PROVE  /\ pass[w] \in Passes /\ pass[w].todo \subseteq Replacements
         /\ pass[w].stage # "idle" => /\ pass[w].cur \in Replacements /\ pass[w].cur # None
                                      /\ pass[w].cur.plugin \in Plugins
         /\ \A r \in Unhandled(w) : r \in Replacements /\ r.plugin \in Plugins /\ r.gen \in Nat
<1>1. pass[w] \in Passes /\ (pass[w].stage # "idle" => pass[w].cur \in Replacements)
  BY DEF HostInv, WatchdogOK
<1>2. pass[w].todo \subseteq Replacements /\ pass[w].cur \in Replacements \cup {None}
  BY <1>1 DEF Passes
<1>3. \A r \in Replacements : r # None /\ r.plugin \in Plugins /\ r.gen \in Nat
  BY OptionAssumption DEF Replacements
<1>. QED BY <1>1, <1>2, <1>3 DEF Unhandled

\* Only one run moves.
LEMMA OneGoes ==
  ASSUME HostInv, PassesInv, NEW w \in Watchers, NEW new \in Passes,
         pass' = [pass EXCEPT ![w] = new],
         new.stage = "idle" => new.cur = None,
         new.todo \cup ({new.cur} \ {None}) \subseteq Unhandled(w),
         abandoned \subseteq abandoned',
         \A r \in Unhandled(w) :
            \/ r \in new.todo \cup ({new.cur} \ {None})
            \/ ~queue'[r.plugin].rebuilding \/ r.plugin \in abandoned'
  PROVE  PassesGo
<1>1. \A v \in Watchers : pass'[v] = IF v = w THEN new ELSE pass[v]
  BY DEF HostInv, WatchdogOK
<1>2. ASSUME NEW v \in Watchers, v # w
      PROVE  /\ pass'[v].stage = "idle" => pass'[v].cur = None
             /\ Unhandled(v)' = Unhandled(v)
  BY <1>1, <1>2 DEF PassesInv, Unhandled
<1>3. Unhandled(w)' = new.todo \cup ({new.cur} \ {None})
  BY <1>1 DEF Unhandled
<1>. QED BY <1>1, <1>2, <1>3 DEF PassesGo, Dropped

LEMMA GotoGoes ==
  ASSUME HostInv, PassesInv, NEW w \in Watchers, NEW stage \in Stages \ {"idle"},
         Goto(w, stage)
  PROVE  PassesGo
<1> DEFINE new == [pass[w] EXCEPT !.stage = stage]
<1>1. /\ new \in Passes /\ new.stage # "idle"
      /\ new.todo = pass[w].todo /\ new.cur = pass[w].cur
  BY RunTypes DEF Passes
<1>2. pass' = [pass EXCEPT ![w] = new] /\ abandoned' = abandoned
  BY DEF Goto
<1> HIDE DEF new
<1>. QED BY <1>1, <1>2, OneGoes DEF Unhandled

LEMMA FinishedGoes ==
  ASSUME HostInv, PassesInv, NEW w \in Watchers, Finished(w),
         ~queue'[pass[w].cur.plugin].rebuilding
  PROVE  PassesGo
<1> DEFINE new == [IdlePass EXCEPT !.todo = pass[w].todo]
<1>1. /\ new \in Passes /\ new.cur = None /\ new.todo = pass[w].todo
  BY RunTypes DEF Passes, IdlePass, Stages
<1>2. pass' = [pass EXCEPT ![w] = new] /\ abandoned' = abandoned
  BY DEF Finished
<1> HIDE DEF new
<1>. QED BY <1>1, <1>2, OneGoes DEF Unhandled

LEMMA AbandonGoes ==
  ASSUME HostInv, PassesInv, NEW w \in Watchers, Abandon(w)
  PROVE  PassesGo
<1>1. IdlePass \in Passes /\ IdlePass.cur = None /\ IdlePass.todo = {}
  BY DEF Passes, IdlePass, Stages
<1>2. /\ pass' = [pass EXCEPT ![w] = IdlePass] /\ abandoned \subseteq abandoned'
      /\ \A r \in Unhandled(w) : r.plugin \in abandoned'
  BY DEF Abandon, Unhandled
<1> HIDE DEF IdlePass
<1>. QED BY <1>1, <1>2, OneGoes

LEMMA TakeReplacementAside ==
  ASSUME HostInv, NEW w \in Watchers, TakeReplacement(w)
  PROVE  Aside
  BY QuietStays, ShownIdentity DEF TakeReplacement, scheduler, service

LEMMA TakeReplacementGoes ==
  ASSUME HostInv, PassesInv, NEW w \in Watchers, TakeReplacement(w)
  PROVE  PassesGo
<1>1. PICK r \in pass[w].todo, third \in BOOLEAN :
        pass' = [pass EXCEPT ![w] =
                [todo |-> @.todo \ {r}, cur |-> r, gen |-> r.gen, inc |-> r.inc,
                 stage |-> IF third THEN "fault" ELSE "replace"]]
  BY DEF TakeReplacement
<1> DEFINE new == [todo |-> pass[w].todo \ {r}, cur |-> r, gen |-> r.gen, inc |-> r.inc,
                   stage |-> IF third THEN "fault" ELSE "replace"]
<1>2. r \in Replacements /\ r # None
  BY RunTypes, OptionAssumption
<1>3. new \in Passes
  BY <1>2, RunTypes DEF Passes, Replacements, Stages
<1>4. pass[w].cur = None
  BY DEF TakeReplacement, PassesInv
<1>5. new.stage = "idle" => new.cur = None
  OBVIOUS
<1>6. pass' = [pass EXCEPT ![w] = new] /\ abandoned \subseteq abandoned'
  BY <1>1 DEF TakeReplacement
<1>7. new.todo = pass[w].todo \ {r} /\ new.cur = r
  OBVIOUS
<1> HIDE DEF new
<1>8. new.todo \cup ({new.cur} \ {None}) = Unhandled(w)
  BY <1>2, <1>4, <1>7 DEF Unhandled
<1>9. new.todo \cup ({new.cur} \ {None}) \subseteq Unhandled(w)
  BY <1>8
<1>10. \A x \in Unhandled(w) :
          \/ x \in new.todo \cup ({new.cur} \ {None})
          \/ ~queue'[x.plugin].rebuilding \/ x.plugin \in abandoned'
  BY <1>8
<1>. QED BY <1>3, <1>5, <1>6, <1>9, <1>10, OneGoes

LEMMA PassReserveFaultAside ==
  ASSUME HostInv, NEW w \in Watchers, PassReserveFault(w)
  PROVE  Aside
<1> DEFINE p == pass[w].cur.plugin
           o == Reserved("fault", pass[w].gen, pass[w].inc, w)
<1>1. p \in Plugins
  BY RunTypes DEF PassReserveFault
<1>2. Harmless(o)
  BY ReservedHarmless
<1>3. /\ op' = [op EXCEPT ![p] = o] \/ op' = op
      /\ UNCHANGED <<queue, config, bundle, aborted, nextInc, prepared, results>>
  BY DEF PassReserveFault, scheduler, service
<1> HIDE DEF p, o
<1>4. ManagerStays
  BY <1>1, <1>2, <1>3, OpStays DEF ManagerStays
<1>. QED BY <1>3, <1>4, ManagerAside

LEMMA PassReserveFaultGoes ==
  ASSUME HostInv, PassesInv, NEW w \in Watchers, PassReserveFault(w)
  PROVE  PassesGo
<1>1. \/ \E stage \in Stages \ {"idle"} : Goto(w, stage)
      \/ Abandon(w)
  BY DEF PassReserveFault, Stages
<1>. QED BY <1>1, GotoGoes, AbandonGoes

LEMMA PassCommitFaultAside ==
  ASSUME HostInv, NEW w \in Watchers, PassCommitFault(w)
  PROVE  Aside
  BY RunTypes, PublishFaultAside DEF PassCommitFault

LEMMA PassCommitFaultGoes ==
  ASSUME HostInv, GenerationsInv, PassesInv, NEW w \in Watchers, PassCommitFault(w)
  PROVE  PassesGo
<1>1. pass[w].cur.plugin \in Plugins
  BY RunTypes DEF PassCommitFault
<1>2. ~queue'[pass[w].cur.plugin].rebuilding
  BY <1>1, PublishFaultAside DEF PassCommitFault, GenerationsInv, GenerationsOK
<1>. QED BY <1>2, FinishedGoes, AbandonGoes DEF PassCommitFault

LEMMA PassNotCommittedAside ==
  ASSUME HostInv, NEW w \in Watchers, PassNotCommitted(w)
  PROVE  Aside
<1> DEFINE p == pass[w].cur.plugin
<1>1. p \in Plugins
  BY RunTypes DEF PassNotCommitted
<1>2. /\ op' = [op EXCEPT ![p] = None] \/ op' = op
      /\ UNCHANGED <<queue, config, bundle, aborted, nextInc, prepared, results>>
  BY DEF PassNotCommitted, scheduler, service
<1> HIDE DEF p
<1>3. ManagerStays
  BY <1>1, <1>2, NoneHarmless, OpStays DEF ManagerStays
<1>. QED BY <1>2, <1>3, ManagerAside

LEMMA PassNotCommittedGoes ==
  ASSUME HostInv, PassesInv, NEW w \in Watchers, PassNotCommitted(w)
  PROVE  PassesGo
  BY GotoGoes, AbandonGoes DEF PassNotCommitted, Stages

LEMMA PassCreateAside ==
  ASSUME HostInv, NEW w \in Watchers, PassCreate(w)
  PROVE  Aside
  BY QuietStays, ShownIdentity DEF PassCreate, scheduler, service

LEMMA PassCreateGoes ==
  ASSUME HostInv, PassesInv, NEW w \in Watchers, PassCreate(w)
  PROVE  PassesGo
  BY GotoGoes DEF PassCreate, Stages

-----------------------------------------------------------------------------
(* Steps that publish or reserve an identity *)

\* The other plugins.
Elsewhere(p) ==
    /\ UNCHANGED <<prepared, results>>
    /\ \A x \in Plugins \ {p} :
          /\ queue'[x] = queue[x] /\ op'[x] = op[x] /\ bundle'[x] = bundle[x]
          /\ aborted'[x] = aborted[x] /\ config'[x] = config[x]

LEMMA ElsewhereIdentities ==
  ASSUME NEW p, Elsewhere(p), NEW x \in Plugins \ {p}
  PROVE  Identities(x)' = Identities(x)
  BY DEF Elsewhere, Identities, Identity

LEMMA ElsewhereIdentity ==
  ASSUME HostInv, IdentityInv, nextInc' \in Nat, nextInc' >= nextInc,
         NEW p \in Plugins, Elsewhere(p), IdentityOK(p)'
  PROVE  IdentityInv'
<1> SUFFICES ASSUME NEW x \in Plugins \ {p} PROVE IdentityOK(x)'
  BY DEF IdentityInv
<1>1. Identities(x)' \subseteq Identities(x)
  BY ElsewhereIdentities
<1>2. queue'[x] = queue[x] /\ op'[x] = op[x]
  BY DEF Elsewhere
<1>3. Goes(x)
  BY <1>2 DEF Goes
<1>. QED BY <1>1, <1>2, <1>3, IdentityFrame

LEMMA ElsewhereGenerations ==
  ASSUME GenerationsInv, NEW p \in Plugins, Elsewhere(p), GenerationsOK(p)'
  PROVE  GenerationsInv'
<1> SUFFICES ASSUME NEW x \in Plugins \ {p} PROVE GenerationsOK(x)'
  BY DEF GenerationsInv
<1>1. Identities(x)' = Identities(x)
  BY ElsewhereIdentities
<1>. QED BY <1>1 DEF Elsewhere, GenerationsInv, GenerationsOK, Activating, Purging

LEMMA ElsewhereAgree ==
  ASSUME AgreeInv, NEW p \in Plugins, Elsewhere(p), AgreeOK(p)'
  PROVE  AgreeInv'
  BY DEF Elsewhere, AgreeInv, AgreeOK

\* A reservation under the next activation id.
LEMMA ReservesIdentity ==
  ASSUME HostInv, IdentityInv, NEW p \in Plugins, NEW o, o.inc = nextInc,
         op' = [op EXCEPT ![p] = o], nextInc' = nextInc + 1,
         UNCHANGED <<queue, config, bundle, aborted, prepared, results>>
  PROVE  IdentityInv' /\ Elsewhere(p) /\ Identities(p)' = Identities(p) /\ op'[p] = o
<1>1. \A x \in Plugins : op'[x] = IF x = p THEN o ELSE op[x]
  BY DEF HostInv, ManagerOK
<1>2. Elsewhere(p)
  BY <1>1 DEF Elsewhere
<1>3. Identities(p)' = Identities(p)
  BY DEF Identities, Identity
<1>4. /\ \A i \in Identities(p) : i.inc \in Nat
      /\ queue[p] # None => queue[p].inc \in Nat
      /\ nextInc \in Nat
  BY IdentityTypes
<1>5. IncsOK(p) /\ OneGeneration(p) /\ BehindOK(p)
  BY DEF IdentityInv, IdentityOK
<1>6. IncsOK(p)'
  BY <1>1, <1>3, <1>4, <1>5 DEF IncsOK, Activating
<1>7. OneGeneration(p)' /\ BehindOK(p)'
  BY <1>3, <1>5 DEF OneGeneration, BehindOK
<1>8. nextInc' \in Nat /\ nextInc' >= nextInc
  BY <1>4
<1>. QED BY <1>1, <1>2, <1>3, <1>6, <1>7, <1>8, ElsewhereIdentity DEF IdentityOK

LEMMA BeginActivationIdentity ==
  ASSUME HostInv, IdentityInv, NEW p \in Plugins, NEW kind \in {"enable", "update"},
         BeginActivation(p, kind)
  PROVE  IdentityInv'
<1> DEFINE o == Reserved(kind, NextGen(p), nextInc, None)
<1>1. o.inc = nextInc
  BY DEF Reserved
<1>2. /\ op' = [op EXCEPT ![p] = o] /\ nextInc' = nextInc + 1
      /\ UNCHANGED <<queue, config, bundle, aborted, prepared, results>>
  BY DEF BeginActivation, scheduler, service
<1> HIDE DEF o
<1>. QED BY <1>1, <1>2, ReservesIdentity

LEMMA BeginActivationRest ==
  ASSUME HostInv, IdentityInv, GenerationsInv, NEW p \in Plugins,
         NEW kind \in {"enable", "update"}, BeginActivation(p, kind)
  PROVE  /\ GenerationsInv'
         /\ PassesInv => PassesInv'
         /\ AgreeInv => AgreeInv'
<1> DEFINE o == Reserved(kind, NextGen(p), nextInc, None)
<1>1. o.inc = nextInc /\ o.kind = kind
  BY DEF Reserved
<1>2. /\ op' = [op EXCEPT ![p] = o] /\ nextInc' = nextInc + 1
      /\ UNCHANGED <<queue, config, bundle, aborted, prepared, results, watchdog>>
  BY DEF BeginActivation, scheduler, service
<1>3. o.gen = config[p].gen + 1
  BY DEF GenerationsInv, GenerationsOK, NextGen, Reserved
<1> HIDE DEF o
<1>4. Elsewhere(p) /\ Identities(p)' = Identities(p) /\ op'[p] = o
  BY <1>1, <1>2, ReservesIdentity
<1>5. GenerationsOK(p)'
  BY <1>1, <1>2, <1>3, <1>4 DEF GenerationsInv, GenerationsOK, Activating, Purging
<1>6. PassesInv => PassesInv'
  BY <1>2 DEF PassesInv, HandledBy, Unhandled, watchdog
<1>7. AgreeInv => AgreeOK(p)'
  BY <1>1, <1>2, <1>4 DEF AgreeInv, AgreeOK
<1>. QED BY <1>4, <1>5, <1>6, <1>7, ElsewhereGenerations, ElsewhereAgree

LEMMA PassReserveReplaceIdentity ==
  ASSUME HostInv, IdentityInv, NEW w \in Watchers, PassReserveReplace(w)
  PROVE  IdentityInv'
<1> DEFINE p == pass[w].cur.plugin
           o == Reserved("replace", pass[w].cur.gen + 1, nextInc, w)
<1>1. p \in Plugins /\ o.inc = nextInc
  BY RunTypes DEF PassReserveReplace, Reserved
<1>2. UNCHANGED <<queue, config, bundle, aborted, prepared, results>>
  BY DEF PassReserveReplace, scheduler, service
<1>3. CASE op' = [op EXCEPT ![p] = o] /\ nextInc' = nextInc + 1
  <2> HIDE DEF p, o
  <2>. QED BY <1>1, <1>2, <1>3, ReservesIdentity
<1>4. CASE UNCHANGED <<op, nextInc>>
  <2>1. UNCHANGED <<queue, manager>> \/ ManagerStays
    BY <1>2, <1>4 DEF ManagerStays
  <2>2. Aside
    BY <1>2, <1>4, ManagerAside DEF ManagerStays
  <2>. QED BY <1>4, <2>2, StaysIdentity DEF Aside
<1>. QED BY <1>3, <1>4 DEF PassReserveReplace

\* A run that reserves the new generation of a rebuilding queue.
LEMMA ReplaceReserved ==
  ASSUME HostInv, IdentityInv, GenerationsInv, NEW p \in Plugins, NEW o,
         o.kind = "replace", o.inc = nextInc, o.gen = config[p].gen + 1,
         op' = [op EXCEPT ![p] = o], nextInc' = nextInc + 1,
         UNCHANGED <<queue, config, bundle, aborted, prepared, results>>,
         bundle[p] # None, bundle[p].gen < queue[p].gen
  PROVE  GenerationsInv' /\ (AgreeInv => AgreeInv')
<1>1. Elsewhere(p) /\ Identities(p)' = Identities(p) /\ op'[p] = o
  BY ReservesIdentity
<1>2. GenerationsOK(p)'
  BY <1>1 DEF GenerationsInv, GenerationsOK, Activating, Purging
<1>3. ASSUME AgreeInv PROVE AgreeOK(p)'
  <2>1. queue[p].gen \in Nat /\ bundle[p].gen \in Nat
    BY GenerationsTypes, IdentityTypes
  <2>2. ~SameIdentity(queue[p], bundle[p])
    BY <2>1 DEF SameIdentity
  <2>3. queue[p].rebuilding
    BY <1>3, <2>2 DEF AgreeInv, AgreeOK
  <2>. QED BY <1>3, <2>3 DEF AgreeInv, AgreeOK
<1>. QED BY <1>1, <1>2, <1>3, ElsewhereGenerations, ElsewhereAgree

LEMMA PassReserveReplaceRest ==
  ASSUME HostInv, IdentityInv, GenerationsInv, PassesInv, NEW w \in Watchers,
         PassReserveReplace(w), "purge" \notin Ops
  PROVE  /\ GenerationsInv' /\ PassesInv'
         /\ AgreeInv => AgreeInv'
<1> DEFINE r == pass[w].cur
           p == r.plugin
           o == Reserved("replace", r.gen + 1, nextInc, w)
<1>1. p \in Plugins /\ r \in Unhandled(w) /\ r.gen \in Nat
  BY RunTypes DEF PassReserveReplace, Unhandled
<1>2. UNCHANGED <<queue, config, bundle, aborted, prepared, results, abandoned>>
  BY DEF PassReserveReplace, scheduler, service, Goto
<1>3. PassesInv'
  <2>1. PassesGo
    BY GotoGoes DEF PassReserveReplace, Stages
  <2>2. \A x \in Plugins : queue[x].gen \in Nat
    BY GenerationsTypes
  <2>. QED BY <1>2, <2>1, <2>2, PassesFrame
<1>4. CASE /\ op' = [op EXCEPT ![p] = o] /\ nextInc' = nextInc + 1
           /\ bundle[p] # None /\ bundle[p].gen = r.gen /\ config[p].gen = r.gen
  <2>1. o.inc = nextInc /\ o.kind = "replace" /\ o.gen = config[p].gen + 1
    BY <1>4 DEF Reserved
  <2>2. bundle[p].gen < queue[p].gen
    BY <1>1, <1>4 DEF PassesInv
  <2> HIDE DEF p, o
  <2>. QED BY <1>1, <1>2, <1>3, <1>4, <2>1, <2>2, ReplaceReserved
<1>5. CASE UNCHANGED <<op, nextInc>>
  <2>1. Aside
    BY <1>2, <1>5, ManagerAside DEF ManagerStays
  <2>. QED BY <1>3, <2>1, StaysGenerations, StaysAgree DEF Aside
<1>. QED BY <1>4, <1>5 DEF PassReserveReplace

\* A queue and a bundle that take a new identity.
Activates(p, q, n, new, b) ==
    /\ q # None => Sound(p, q)
    /\ n.gen \in Nat /\ n.inc \in Nat /\ n.inc < nextInc'
    /\ nextInc' \in {nextInc, nextInc + 1}
    /\ \A i \in Identities(p) : i.inc # n.inc
    /\ queue[p] # None => queue[p].inc # n.inc
    /\ new = IF q = None THEN NewQueue(n.gen, n.inc, Fresh)
             ELSE Activate(q, n.gen, n.inc, Fresh)
    /\ SetQueue(p, new)
    /\ bundle' = [bundle EXCEPT ![p] = b]
    /\ b # None => Identity(b) = Identity(n)
    /\ ~Activating(op'[p]) /\ UNCHANGED <<prepared, results>>
    /\ \A x \in Plugins \ {p} :
          op'[x] = op[x] /\ aborted'[x] = aborted[x] /\ config'[x] = config[x]

LEMMA ActivatedIdentity ==
  ASSUME HostInv, IdentityInv, NEW p \in Plugins, NEW q, NEW n, NEW new, NEW b,
         Activates(p, q, n, new, b)
  PROVE  /\ IdentityInv' /\ Elsewhere(p)
         /\ Identities(p)' \subseteq Identities(p) \cup {Identity(n)}
         /\ queue'[p] # None /\ queue'[p].gen = n.gen /\ queue'[p].inc = n.inc
         /\ ~queue'[p].rebuilding /\ queue'[p].running = None
         /\ bundle'[p] # None => Identity(bundle'[p]) = Identity(n)
<1> USE DEF Activates
<1> DEFINE m == Identity(n)
<1>1. Fresh \in Tokens
  BY SetQueueFresh
<1>2. new # None
  BY <1>1, NewQueueSound, ActivateSound, SoundThere
<1>3. new.gen = n.gen /\ new.inc = n.inc /\ ~new.rebuilding /\ new.running = None
  <2>1. CASE q = None
    BY <2>1 DEF NewQueue
  <2>2. CASE q # None
    <3>1. new = Activate(q, n.gen, n.inc, Fresh) /\ Sound(p, q)
      BY <2>2
    <3> HIDE DEF Activates
    <3>. QED BY <1>1, <3>1, ActivateIdentity
  <2>. QED BY <2>1, <2>2
<1>4. \A x \in Plugins : queue'[x] = IF x = p THEN new ELSE queue[x]
  BY DEF HostInv, QueuesOK, SetQueue
<1>5. \A x \in Plugins : bundle'[x] = IF x = p THEN b ELSE bundle[x]
  BY DEF HostInv, ManagerOK
<1>6. Elsewhere(p)
  BY <1>4, <1>5 DEF Elsewhere
<1>7. Identities(p)' \subseteq Identities(p) \cup {m}
  BY <1>5 DEF Identities, Identity
<1>8. m.gen = n.gen /\ m.inc = n.inc
  BY DEF Identity
<1>9. nextInc \in Nat
  BY IdentityTypes
<1>10. IdentityOK(p)'
  <2>1. /\ m.gen \in Nat /\ m.inc \in Nat /\ m.inc < nextInc'
        /\ \A i \in Identities(p) : i.inc # m.inc
        /\ queue[p] # None => queue[p].inc # m.inc
        /\ nextInc' \in Nat /\ nextInc' >= nextInc
    BY <1>8, <1>9
  <2>2. queue'[p].gen = m.gen /\ queue'[p].inc = m.inc /\ ~queue'[p].rebuilding
    BY <1>3, <1>4, <1>8
  <2> HIDE DEF m
  <2>. QED BY <1>7, <2>1, <2>2, IdentityFresh
<1>11. nextInc' \in Nat /\ nextInc' >= nextInc
  BY <1>9
<1>12. IdentityInv'
  BY <1>6, <1>10, <1>11, ElsewhereIdentity
<1>. QED BY <1>2, <1>3, <1>4, <1>5, <1>6, <1>7, <1>12

\* ... that is not behind the old one.
LEMMA ActivatedRest ==
  ASSUME HostInv, GenerationsInv, NEW p \in Plugins, NEW n, n.gen \in Nat, Elsewhere(p),
         UNCHANGED watchdog,
         Identities(p)' \subseteq Identities(p) \cup {Identity(n)},
         queue'[p] # None, queue'[p].gen = n.gen, queue'[p].inc = n.inc,
         ~queue'[p].rebuilding, queue'[p].running = None,
         bundle'[p] # None => Identity(bundle'[p]) = Identity(n),
         op'[p] = None, config'[p].status # "absent", n.gen >= queue[p].gen,
         n.gen <= config'[p].gen, config'[p].gen \in Nat, config'[p].gen >= config[p].gen,
         aborted'[p] = aborted[p] \/ aborted'[p] = None
  PROVE  /\ GenerationsInv'
         /\ PassesInv => PassesInv'
         /\ AgreeInv => AgreeInv'
<1>1. GenerationsOK(p) /\ config[p].gen \in Nat /\ queue[p].gen \in Nat
  BY GenerationsTypes DEF GenerationsInv
<1>2. \A i \in Identities(p)' : i.gen <= config'[p].gen
  <2>1. \A i \in Identities(p) : i.gen \in Nat /\ i.gen <= config[p].gen
    BY <1>1, IdentityTypes DEF GenerationsOK
  <2>2. Identity(n).gen = n.gen
    BY DEF Identity
  <2>. QED BY <1>1, <2>1, <2>2
<1>3. aborted'[p] # None => aborted'[p].gen <= config'[p].gen
  BY <1>1, GenerationsTypes DEF GenerationsOK
<1>4. GenerationsOK(p)'
  BY <1>1, <1>2, <1>3 DEF GenerationsOK, Activating, Purging
<1>5. ASSUME PassesInv PROVE PassesInv'
  <2>1. PassesGo
    BY <1>5, WatchdogStays
  <2>2. ASSUME NEW x \in Plugins
        PROVE  /\ queue'[x].gen \in Nat /\ queue'[x].gen >= queue[x].gen
               /\ queue'[x].rebuilding => queue[x].rebuilding /\ queue'[x].gen = queue[x].gen
    <3>1. CASE x = p
      BY <1>1, <3>1
    <3>2. CASE x # p
      <4>1. queue'[x] = queue[x] /\ queue[x].gen \in Nat
        BY <3>2, GenerationsTypes DEF Elsewhere
      <4>. QED BY <4>1
    <3>. QED BY <3>1, <3>2
  <2>. QED BY <1>5, <2>1, <2>2, PassesFrame
<1>6. AgreeInv => AgreeOK(p)'
  BY DEF AgreeOK, SameIdentity, Identity
<1>. QED BY <1>4, <1>5, <1>6, ElsewhereGenerations, ElsewhereAgree

\* An activation that is refused: nothing is published.
LEMMA RefusedAside ==
  ASSUME HostInv, NEW p \in Plugins, op[p] # None,
         SetQueue(p, RetireIfAny(queue[p], Fresh)), op' = [op EXCEPT ![p].kind = "lost"],
         UNCHANGED <<bundle, config, aborted, nextInc, prepared, results>>
  PROVE  Aside
<1> DEFINE new == RetireIfAny(queue[p], Fresh)
<1>1. ManagerStays
  <2>1. \A x \in Plugins : op'[x] = op[x] \/ Harmless(op'[x])
    BY DEF HostInv, ManagerOK, Operations, Activating, Purging, Harmless
  <2>. QED BY <2>1 DEF ManagerStays
<1>2. /\ StaysTo(p, new)
      /\ queue[p] # None => new # None /\ new.rebuilding = queue[p].rebuilding
  BY SetQueueFresh, RetireIfAnyStays
<1>3. SetQueue(p, new)
  OBVIOUS
<1> HIDE DEF new
<1>4. \A x \in Plugins : Stays(x) /\ queue'[x] = IF x = p THEN new ELSE queue[x]
  BY <1>2, <1>3, SetQueueStays
<1>. QED BY <1>1, <1>2, <1>4, ManagerStaysHost DEF Aside, StaysRebuilding

\* An activation that is accepted.
LEMMA AcceptedIdentity ==
  ASSUME HostInv, IdentityInv, NEW p \in Plugins, CommitActivation(p),
         ActivationAccepted(p, op[p])
  PROVE  LET o == op[p] IN
         /\ IdentityInv' /\ Elsewhere(p)
         /\ Identities(p)' \subseteq Identities(p) \cup {Identity(o)}
         /\ queue'[p] # None /\ queue'[p].gen = o.gen /\ queue'[p].inc = o.inc
         /\ ~queue'[p].rebuilding /\ queue'[p].running = None
         /\ bundle'[p] # None => Identity(bundle'[p]) = Identity(o)
         /\ op'[p] = None /\ config'[p].gen = o.gen /\ config'[p].status # "absent"
         /\ o.gen \in Nat
         /\ aborted'[p] = aborted[p]
<1> DEFINE o == op[p]
           q == RetireIfAny(queue[p], Fresh)
           new == IF q = None THEN NewQueue(o.gen, o.inc, Fresh)
                  ELSE Activate(q, o.gen, o.inc, Fresh)
           active == o.kind = "enable" \/ config[p].status # "disabled"
           b == IF active THEN [gen |-> o.gen, inc |-> o.inc, recovery |-> FALSE] ELSE None
           c == [gen |-> o.gen, status |-> IF active THEN "enabled" ELSE "disabled"]
<1>1. /\ SetQueue(p, new) /\ op' = [op EXCEPT ![p] = None]
      /\ bundle' = [bundle EXCEPT ![p] = b] /\ config' = [config EXCEPT ![p] = c]
      /\ UNCHANGED <<aborted, nextInc, prepared, results>>
  BY DEF CommitActivation, service
<1>2. o.gen \in Nat /\ o.inc \in Nat /\ Activating(o)
  BY IdentityTypes DEF CommitActivation, Activating
<1>3. q # None => Sound(p, q)
  BY <1>1, SetQueueFresh, RetireIfAnySound DEF HostInv, QueuesOK
<1>4. b # None => Identity(b) = Identity(o)
  BY DEF Identity
<1>5. c.gen = o.gen /\ c.status # "absent"
  OBVIOUS
<1> HIDE DEF q, b, c
<1>6. new = IF q = None THEN NewQueue(o.gen, o.inc, Fresh) ELSE Activate(q, o.gen, o.inc, Fresh)
  OBVIOUS
<1> HIDE DEF new
<1>7. /\ \A x \in Plugins : op'[x] = IF x = p THEN None ELSE op[x]
      /\ \A x \in Plugins : config'[x] = IF x = p THEN c ELSE config[x]
  BY <1>1 DEF HostInv, ManagerOK
<1>8. /\ o.inc < nextInc' /\ nextInc' \in {nextInc, nextInc + 1}
      /\ \A i \in Identities(p) : i.inc # o.inc
      /\ queue[p] # None => queue[p].inc # o.inc
  BY <1>1, <1>2 DEF IdentityInv, IdentityOK, IncsOK
<1>9. /\ ~Activating(op'[p])
      /\ \A x \in Plugins \ {p} :
            op'[x] = op[x] /\ aborted'[x] = aborted[x] /\ config'[x] = config[x]
  BY <1>1, <1>7 DEF Activating
<1>10. op'[p] = None /\ config'[p].gen = o.gen /\ config'[p].status # "absent"
  BY <1>5, <1>7
<1> HIDE DEF o
<1>11. /\ IdentityInv' /\ Elsewhere(p)
       /\ Identities(p)' \subseteq Identities(p) \cup {Identity(o)}
       /\ queue'[p] # None /\ queue'[p].gen = o.gen /\ queue'[p].inc = o.inc
       /\ ~queue'[p].rebuilding /\ queue'[p].running = None
       /\ bundle'[p] # None => Identity(bundle'[p]) = Identity(o)
  <2>1. Activates(p, q, o, new, b)
    BY <1>1, <1>2, <1>3, <1>4, <1>6, <1>8, <1>9 DEF Activates
  <2>. QED BY <2>1, ActivatedIdentity
<1>. QED BY <1>1, <1>2, <1>4, <1>10, <1>11 DEF o

LEMMA CommitActivationIdentity ==
  ASSUME HostInv, IdentityInv, NEW p \in Plugins, CommitActivation(p)
  PROVE  IdentityInv'
<1>1. CASE ActivationAccepted(p, op[p])
  BY <1>1, AcceptedIdentity
<1>2. CASE ~ActivationAccepted(p, op[p])
  <2>1. Aside
    BY <1>2, RefusedAside DEF CommitActivation, service
  <2>. QED BY <2>1, StaysIdentity DEF Aside
<1>. QED BY <1>1, <1>2

LEMMA CommitActivationRest ==
  ASSUME HostInv, IdentityInv, GenerationsInv, NEW p \in Plugins, CommitActivation(p),
         "purge" \notin Ops
  PROVE  /\ GenerationsInv'
         /\ PassesInv => PassesInv'
         /\ AgreeInv => AgreeInv'
<1> DEFINE o == op[p]
<1>1. CASE ActivationAccepted(p, op[p])
  <2>1. o.gen = config[p].gen + 1 /\ o.gen >= queue[p].gen
    <3>1. Activating(op[p])
      BY DEF CommitActivation, Activating
    <3>2. op[p].gen = config[p].gen + 1 /\ queue[p] # None
      BY <3>1 DEF GenerationsInv, GenerationsOK
    <3>. QED BY <1>1, <3>2 DEF ActivationAccepted, CanActivate
  <2>2. /\ config[p].gen \in Nat /\ UNCHANGED watchdog
    BY GenerationsTypes DEF CommitActivation
  <2>3. /\ Elsewhere(p)
        /\ Identities(p)' \subseteq Identities(p) \cup {Identity(o)}
        /\ queue'[p] # None /\ queue'[p].gen = o.gen /\ queue'[p].inc = o.inc
        /\ ~queue'[p].rebuilding /\ queue'[p].running = None
        /\ bundle'[p] # None => Identity(bundle'[p]) = Identity(o)
        /\ op'[p] = None /\ config'[p].gen = o.gen /\ config'[p].status # "absent"
        /\ o.gen \in Nat /\ aborted'[p] = aborted[p]
    BY <1>1, AcceptedIdentity
  <2> HIDE DEF o
  <2>4. o.gen <= config'[p].gen /\ config'[p].gen \in Nat /\ config'[p].gen >= config[p].gen
    BY <2>1, <2>2, <2>3
  <2>. QED BY <2>1, <2>2, <2>3, <2>4, ActivatedRest
<1>2. CASE ~ActivationAccepted(p, op[p])
  <2>1. Aside /\ UNCHANGED watchdog
    BY <1>2, RefusedAside DEF CommitActivation, service
  <2>. QED BY <2>1, StaysGenerations, StaysPasses, StaysAgree, WatchdogStays DEF Aside
<1>. QED BY <1>1, <1>2

\* An uninstall that is undone: the old generation under a new activation.
LEMMA ReactivateAbortedIdentity ==
  ASSUME HostInv, IdentityInv, NEW p \in Plugins, ReactivateAborted(p)
  PROVE  /\ IdentityInv'
         /\ GenerationsInv /\ "purge" \notin Ops =>
               /\ GenerationsInv'
               /\ PassesInv => PassesInv'
               /\ AgreeInv => AgreeInv'
<1> DEFINE o == [gen |-> aborted[p].gen, inc |-> nextInc]
           new == IF queue[p] = None THEN NewQueue(o.gen, o.inc, Fresh)
                  ELSE Activate(queue[p], o.gen, o.inc, Fresh)
           b == [gen |-> aborted[p].gen, inc |-> nextInc, recovery |-> TRUE]
<1>1. /\ aborted[p] # None /\ nextInc' = nextInc + 1
      /\ aborted' = [aborted EXCEPT ![p] = None]
      /\ UNCHANGED <<config, op, prepared, results, watchdog>>
  BY DEF ReactivateAborted, service
<1>2. /\ o.gen = aborted[p].gen /\ o.inc = nextInc
      /\ aborted[p].gen \in Nat /\ nextInc \in Nat
  BY <1>1 DEF HostInv, ManagerOK, Bundles
<1>3. \A x \in Plugins : aborted'[x] = IF x = p THEN None ELSE aborted[x]
  BY <1>1 DEF HostInv, ManagerOK
<1>4. CASE /\ SetQueue(p, new) /\ bundle' = [bundle EXCEPT ![p] = b]
           /\ CanReactivate(p) /\ ActivationAccepted(p, o)
  <2>1. Identity(b) = Identity(o) /\ op[p] = None /\ config[p].status = "enabled"
    BY <1>4 DEF Identity, CanReactivate, CanReserve
  <2>2. queue[p] # None => o.gen >= queue[p].gen
    BY <1>4 DEF ActivationAccepted, CanActivate
  <2>3. /\ \A i \in Identities(p) : i.inc # o.inc
        /\ queue[p] # None => queue[p].inc # o.inc
    <3>1. IncsOK(p)
      BY DEF IdentityInv, IdentityOK
    <3>2. /\ \A i \in Identities(p) : i.inc \in Nat
          /\ queue[p] # None => queue[p].inc \in Nat
      BY IdentityTypes
    <3>. QED BY <1>2, <3>1, <3>2 DEF IncsOK
  <2>4. new = IF queue[p] = None THEN NewQueue(o.gen, o.inc, Fresh)
              ELSE Activate(queue[p], o.gen, o.inc, Fresh)
    OBVIOUS
  <2> HIDE DEF new, b, o
  <2>5. ~Activating(op'[p]) /\ op'[p] = None
    BY <1>1, <2>1 DEF Activating
  <2>6. Activates(p, queue[p], o, new, b)
    <3>1. queue[p] # None => Sound(p, queue[p])
      BY ThereSound
    <3>. QED BY <1>1, <1>2, <1>3, <1>4, <2>1, <2>3, <2>4, <2>5, <3>1 DEF Activates
  <2>7. /\ IdentityInv' /\ Elsewhere(p)
        /\ Identities(p)' \subseteq Identities(p) \cup {Identity(o)}
        /\ queue'[p] # None /\ queue'[p].gen = o.gen /\ queue'[p].inc = o.inc
        /\ ~queue'[p].rebuilding /\ queue'[p].running = None
        /\ bundle'[p] # None => Identity(bundle'[p]) = Identity(o)
    BY <2>6, ActivatedIdentity
  <2>8. ASSUME GenerationsInv
        PROVE  GenerationsInv' /\ (PassesInv => PassesInv') /\ (AgreeInv => AgreeInv')
    <3>1. /\ o.gen <= config'[p].gen /\ config'[p].gen \in Nat
          /\ config'[p].gen >= config[p].gen /\ config'[p].status # "absent"
          /\ o.gen >= queue[p].gen
      BY <1>1, <1>2, <2>1, <2>2, <2>8, GenerationsTypes DEF GenerationsInv, GenerationsOK
    <3>2. o.gen \in Nat /\ (aborted'[p] = aborted[p] \/ aborted'[p] = None)
      BY <1>2, <1>3
    <3>. QED BY <1>1, <2>5, <2>7, <2>8, <3>1, <3>2, ActivatedRest
  <2>. QED BY <2>7, <2>8
<1>5. CASE UNCHANGED <<scheduler, bundle>>
  <2>1. ManagerStays /\ UNCHANGED queue
    BY <1>1, <1>3, <1>5 DEF ManagerStays, scheduler
  <2>2. \A x \in Plugins : Stays(x)
    BY <2>1 DEF Stays, StaysTo
  <2>3. StaysHost /\ StaysRebuilding
    BY <2>1, <2>2, ManagerStaysHost DEF StaysRebuilding
  <2>4. IdentityInv'
    BY <1>1, <2>3, StaysIdentity
  <2>5. ASSUME GenerationsInv
        PROVE  GenerationsInv'
    <3>1. \A x \in Plugins : op'[x] = op[x] /\ config'[x] = config[x]
                             /\ queue'[x] = queue[x] /\ bundle'[x] = bundle[x]
      BY <1>1, <1>5, <2>1
    <3>2. Elsewhere(p)
      BY <1>1, <1>3, <3>1 DEF Elsewhere
    <3>3. Identities(p)' \subseteq Identities(p)
      BY <2>3 DEF StaysHost
    <3>4. GenerationsOK(p)'
      BY <1>3, <2>5, <3>1, <3>3 DEF GenerationsInv, GenerationsOK
    <3>. QED BY <2>5, <3>2, <3>4, ElsewhereGenerations
  <2>. QED BY <1>1, <2>3, <2>4, <2>5, StaysPasses, StaysAgree, WatchdogStays
<1>. QED BY <1>4, <1>5 DEF ReactivateAborted
-----------------------------------------------------------------------------
(* The runs of expire_runtime_timeouts that publish *)

\* A run that publishes the identity it has reserved; the queue still rebuilds.
LEMMA PassCommitReplaceIdentity ==
  ASSUME HostInv, IdentityInv, NEW w \in Watchers, PassCommitReplace(w),
         NEW p \in Plugins, p = pass[w].cur.plugin
  PROVE  /\ IdentityInv' /\ Elsewhere(p)
         /\ Identities(p)' \subseteq Identities(p) \cup {Identity(op[p])}
         /\ op'[p] = None /\ config'[p].gen = op[p].gen /\ Activating(op[p])
         /\ op[p].gen \in Nat /\ op[p].inc \in Nat
         /\ config'[p].status = config[p].status
         /\ UNCHANGED <<queue, aborted>>
<1> DEFINE o == op[p]
           n == Identity(o)
           b == [gen |-> o.gen, inc |-> o.inc, recovery |-> FALSE]
<1>2. /\ op' = [op EXCEPT ![p] = None] /\ bundle' = [bundle EXCEPT ![p] = b]
      /\ config' = [config EXCEPT ![p].gen = o.gen] /\ o # None /\ o.kind = "replace"
      /\ UNCHANGED <<queue, aborted, nextInc, prepared, results>>
  BY DEF PassCommitReplace, scheduler, service
<1>3. Activating(o) /\ Identity(b) = n /\ n.gen = o.gen /\ n.inc = o.inc
  BY <1>2 DEF Activating, Identity
<1> HIDE DEF b
<1>4. o.gen \in Nat /\ o.inc \in Nat /\ nextInc \in Nat
  BY <1>2, IdentityTypes
<1>5. /\ o.inc < nextInc /\ \A i \in Identities(p) : i.inc # o.inc
      /\ queue[p] # None => queue[p].inc # o.inc
  BY <1>3 DEF IdentityInv, IdentityOK, IncsOK
<1> HIDE DEF o, n
<1>6. /\ \A x \in Plugins : op'[x] = IF x = p THEN None ELSE op[x]
      /\ \A x \in Plugins : bundle'[x] = IF x = p THEN b ELSE bundle[x]
      /\ \A x \in Plugins \ {p} : config'[x] = config[x]
      /\ config'[p].gen = o.gen /\ config'[p].status = config[p].status
  BY <1>2 DEF HostInv, ManagerOK, Configs
<1>7. Elsewhere(p)
  BY <1>2, <1>6 DEF Elsewhere
<1>8. Identities(p)' \subseteq Identities(p) \cup {n}
  BY <1>2, <1>3, <1>6 DEF Identities, Identity
<1>9. /\ n.gen \in Nat /\ n.inc \in Nat /\ n.inc < nextInc'
      /\ \A i \in Identities(p) : i.inc # n.inc
      /\ queue[p] # None => queue[p].inc # n.inc
      /\ nextInc' \in Nat /\ nextInc' >= nextInc
  BY <1>2, <1>3, <1>4, <1>5
<1>10. ~Activating(op'[p]) /\ op'[p] = None
  BY <1>6 DEF Activating
<1>11. Goes(p)
  BY <1>2 DEF Goes
<1>12. IdentityOK(p)'
  BY <1>8, <1>9, <1>10, <1>11, IdentityFresh
<1>13. IdentityInv'
  BY <1>7, <1>9, <1>12, ElsewhereIdentity
<1>. QED BY <1>2, <1>3, <1>4, <1>6, <1>7, <1>8, <1>10, <1>13 DEF o, n

LEMMA PassCommitReplaceRest ==
  ASSUME HostInv, IdentityInv, GenerationsInv, PassesInv, NEW w \in Watchers,
         PassCommitReplace(w), NEW p \in Plugins, p = pass[w].cur.plugin
  PROVE  GenerationsInv' /\ PassesInv' /\ (AgreeInv => AgreeInv')
<1> DEFINE o == op[p]
<1>1. /\ Elsewhere(p)
      /\ Identities(p)' \subseteq Identities(p) \cup {Identity(o)}
      /\ op'[p] = None /\ config'[p].gen = o.gen /\ Activating(o)
      /\ o.gen \in Nat /\ o.inc \in Nat
      /\ config'[p].status = config[p].status
      /\ UNCHANGED <<queue, aborted>>
  BY PassCommitReplaceIdentity
<1>2. o.kind = "replace" /\ o # None
  BY DEF PassCommitReplace
<1>3. PassesInv'
  <2> DEFINE new == [pass[w] EXCEPT !.stage = "create", !.gen = o.gen, !.inc = o.inc]
  <2>1. pass' = [pass EXCEPT ![w] = new] /\ abandoned' = abandoned
    BY DEF PassCommitReplace
  <2>3. /\ new \in Passes /\ new.stage = "create"
        /\ new.cur = pass[w].cur /\ new.todo = pass[w].todo
    BY <1>1, RunTypes DEF Passes, Stages
  <2> HIDE DEF new
  <2>4. /\ new.stage = "idle" => new.cur = None
        /\ new.todo \cup ({new.cur} \ {None}) = Unhandled(w)
        /\ abandoned \subseteq abandoned'
    BY <2>1, <2>3 DEF Unhandled
  <2>5. /\ new.todo \cup ({new.cur} \ {None}) \subseteq Unhandled(w)
        /\ \A x \in Unhandled(w) :
              \/ x \in new.todo \cup ({new.cur} \ {None})
              \/ ~queue'[x.plugin].rebuilding \/ x.plugin \in abandoned'
    BY <2>4
  <2>6. PassesGo
    BY <2>1, <2>3, <2>4, <2>5, OneGoes
  <2>7. \A x \in Plugins : queue[x].gen \in Nat
    BY GenerationsTypes
  <2>. QED BY <1>1, <2>6, <2>7, PassesFrame
<1> HIDE DEF o
<1>4. GenerationsOK(p) /\ config[p].gen \in Nat /\ queue[p].gen \in Nat
  BY <1>1, GenerationsTypes DEF GenerationsInv
<1>5. o.gen = config[p].gen + 1
  BY <1>1, <1>4 DEF GenerationsOK, o
<1>6. \A i \in Identities(p)' : i.gen <= config'[p].gen
  <2>1. \A i \in Identities(p) : i.gen \in Nat /\ i.gen <= config[p].gen
    BY <1>1, <1>4, IdentityTypes DEF GenerationsOK
  <2>2. Identity(o).gen = o.gen
    BY DEF Identity
  <2>. QED BY <1>1, <1>4, <1>5, <2>1, <2>2
<1>7. aborted[p] # None => aborted[p].gen \in Nat
  BY <1>1, GenerationsTypes
<1>8. GenerationsOK(p)'
  BY <1>1, <1>4, <1>5, <1>6, <1>7 DEF GenerationsOK, Activating, Purging
<1>9. ASSUME AgreeInv PROVE AgreeOK(p)'
  <2>1. AgreeOK(p)
    BY <1>1, <1>9 DEF AgreeInv
  <2>2. queue[p].rebuilding
    BY <1>2, <2>1 DEF AgreeOK, o
  <2>. QED BY <1>1, <2>1, <2>2 DEF AgreeOK
<1>. QED BY <1>1, <1>3, <1>8, <1>9, ElsewhereGenerations, ElsewhereAgree

\* A step that changes queues only.
LEMMA QueuesOnly ==
  ASSUME UNCHANGED <<manager, prepared, results>>, NEW p \in Plugins
  PROVE  /\ Identities(p)' = Identities(p) /\ op'[p] = op[p] /\ config'[p] = config[p]
         /\ aborted'[p] = aborted[p] /\ bundle'[p] = bundle[p]
  BY DEF Identities, Identity, manager

\* The queue takes the identity that was published for it.
LEMMA ReplacedQueue ==
  ASSUME HostInv, NEW w \in Watchers, NEW p \in Plugins, p = pass[w].cur.plugin,
         pass[w].stage # "idle", Confirmed(p),
         bundle[p].gen = pass[w].gen, bundle[p].inc = pass[w].inc,
         queue[p] # None, CanReplace(queue[p], pass[w].gen),
         SetQueue(p, RuntimeReplaced(queue[p], pass[w].inc, Fresh))
  PROVE  /\ queue'[p] # None /\ ~queue'[p].rebuilding
         /\ queue'[p].gen = queue[p].gen
         /\ queue'[p].gen = bundle[p].gen /\ queue'[p].inc = bundle[p].inc
         /\ Identity(queue'[p]) \in Identities(p)
         /\ \A x \in Plugins \ {p} : queue'[x] = queue[x]
<1> DEFINE new == RuntimeReplaced(queue[p], pass[w].inc, Fresh)
<1>1. Sound(p, queue[p]) /\ Fresh \in Tokens /\ pass[w].inc \in Nat
  BY ThereSound, SetQueueFresh, RunTypes DEF Passes
<1>2. new # None
  BY <1>1, ReplacedSound, SoundThere
<1>3. new.gen = queue[p].gen /\ new.inc = pass[w].inc /\ ~new.rebuilding
  BY <1>1, ReplacedIdentity
<1>4. SetQueue(p, new)
  OBVIOUS
<1> HIDE DEF new
<1>5. \A x \in Plugins : queue'[x] = IF x = p THEN new ELSE queue[x]
  BY <1>4 DEF HostInv, QueuesOK, SetQueue
<1>6. queue'[p].gen = bundle[p].gen /\ queue'[p].inc = bundle[p].inc
  BY <1>3, <1>5 DEF CanReplace
<1>7. Identity(queue'[p]) = Identity(bundle[p]) /\ bundle[p] # None
  BY <1>6 DEF Identity, Confirmed
<1>8. Identity(queue'[p]) \in Identities(p)
  BY <1>7, IdentityTypes
<1>. QED BY <1>2, <1>3, <1>5, <1>6, <1>8

LEMMA ReplacedRest ==
  ASSUME HostInv, NEW p \in Plugins, Confirmed(p),
         UNCHANGED <<manager, prepared, results>>,
         queue'[p] # None, ~queue'[p].rebuilding, queue'[p].gen = queue[p].gen,
         queue'[p].gen = bundle[p].gen, queue'[p].inc = bundle[p].inc,
         Identity(queue'[p]) \in Identities(p),
         \A x \in Plugins \ {p} : queue'[x] = queue[x]
  PROVE  /\ IdentityInv => IdentityInv'
         /\ GenerationsInv => GenerationsInv' /\ (AgreeInv => AgreeInv')
<1>1. Elsewhere(p)
  BY DEF Elsewhere, manager
<1>2. /\ Identities(p)' = Identities(p) /\ op'[p] = op[p] /\ config'[p] = config[p]
      /\ aborted'[p] = aborted[p] /\ bundle'[p] = bundle[p] /\ op[p] = None
  BY QueuesOnly DEF Confirmed
<1>3. nextInc' \in Nat /\ nextInc' >= nextInc
  BY IdentityTypes DEF manager
<1>4. ASSUME IdentityInv PROVE IdentityInv'
  <2>1. Goes(p)
    BY DEF Goes
  <2>2. IdentityOK(p)'
    BY <1>2, <1>3, <1>4, <2>1, IdentityFrame
  <2>. QED BY <1>1, <1>3, <1>4, <2>2, ElsewhereIdentity
<1>5. ASSUME GenerationsInv PROVE GenerationsInv'
  <2>1. GenerationsOK(p) /\ config[p].gen \in Nat /\ queue[p].gen \in Nat
    BY <1>5, GenerationsTypes DEF GenerationsInv
  <2>2. queue'[p].gen <= config[p].gen
    BY <2>1 DEF GenerationsOK, Identity
  <2>3. queue'[p].gen <= config[p].gen + 1
    BY <2>1 DEF GenerationsOK
  <2>4. GenerationsOK(p)'
    BY <1>2, <2>1, <2>2, <2>3 DEF GenerationsOK
  <2>. QED BY <1>1, <1>5, <2>4, ElsewhereGenerations
<1>6. ASSUME AgreeInv PROVE AgreeInv'
  <2>1. AgreeOK(p)'
    BY <1>2 DEF AgreeOK, SameIdentity
  <2>. QED BY <1>1, <1>6, <2>1, ElsewhereAgree
<1>. QED BY <1>4, <1>5, <1>6

LEMMA PassFinishIdentity ==
  ASSUME HostInv, IdentityInv, NEW w \in Watchers, PassFinish(w)
  PROVE  /\ IdentityInv'
         /\ GenerationsInv /\ "purge" \notin Ops =>
               /\ GenerationsInv'
               /\ PassesInv => PassesInv'
               /\ AgreeInv => AgreeInv'
<1>1. PICK p \in Plugins : p = pass[w].cur.plugin
  BY RunTypes DEF PassFinish
<1>2. /\ UNCHANGED <<manager, prepared, results>> /\ pass[w].stage # "idle"
      /\ Finished(w) \/ Goto(w, "mark") \/ Abandon(w)
  BY DEF PassFinish, service
<1>3. CASE /\ Confirmed(p)
           /\ bundle[p].gen = pass[w].gen /\ bundle[p].inc = pass[w].inc
           /\ queue[p] # None /\ CanReplace(queue[p], pass[w].gen)
           /\ SetQueue(p, RuntimeReplaced(queue[p], pass[w].inc, Fresh))
  <2>1. /\ queue'[p] # None /\ ~queue'[p].rebuilding
        /\ queue'[p].gen = queue[p].gen
        /\ queue'[p].gen = bundle[p].gen /\ queue'[p].inc = bundle[p].inc
        /\ Identity(queue'[p]) \in Identities(p)
        /\ \A x \in Plugins \ {p} : queue'[x] = queue[x]
    BY <1>1, <1>2, <1>3, ReplacedQueue
  <2>2. /\ IdentityInv'
        /\ GenerationsInv => GenerationsInv' /\ (AgreeInv => AgreeInv')
    BY <1>2, <1>3, <2>1, ReplacedRest
  <2>3. ASSUME GenerationsInv, PassesInv PROVE PassesInv'
    <3>1. PassesGo
      BY <1>1, <1>2, <2>1, <2>3, FinishedGoes, GotoGoes, AbandonGoes DEF Stages
    <3>2. ASSUME NEW x \in Plugins
          PROVE  /\ queue'[x].gen \in Nat /\ queue'[x].gen >= queue[x].gen
                 /\ queue'[x].rebuilding => queue[x].rebuilding /\ queue'[x].gen = queue[x].gen
      <4>1. queue[x].gen \in Nat /\ queue'[x].gen = queue[x].gen
        BY <2>1, <2>3, GenerationsTypes
      <4>. QED BY <2>1, <4>1
    <3>. QED BY <2>3, <3>1, <3>2, PassesFrame
  <2>. QED BY <2>2, <2>3
<1>4. CASE UNCHANGED scheduler /\ Abandon(w)
  <2>1. Aside
    BY <1>2, <1>4, QuietStays, ShownIdentity DEF scheduler
  <2>2. PassesInv => PassesGo
    BY <1>4, AbandonGoes
  <2>. QED BY <2>1, <2>2, AsideKeeps
<1>. QED BY <1>1, <1>3, <1>4 DEF PassFinish
-----------------------------------------------------------------------------
(* The requests past their deadline: their queues are rebuilding. *)

LEMMA ExpireQueues ==
  ASSUME HostInv, NEW w \in Watchers, NEW due \in SUBSET Plugins,
         \A p \in due : queue[p] # None /\ queue[p].running # None,
         queue' = [p \in Plugins |-> IF p \in due THEN ExpireRunning(queue[p]) ELSE queue[p]]
  PROVE  \A p \in Plugins :
            /\ p \in due => /\ queue'[p] # None /\ queue'[p].gen = queue[p].gen + 1
                             /\ queue'[p].inc = queue[p].inc /\ queue'[p].rebuilding
                             /\ queue'[p].running = None
            /\ p \notin due => queue'[p] = queue[p]
<1> SUFFICES ASSUME NEW p \in Plugins, p \in due
             PROVE  /\ queue'[p] # None /\ queue'[p].gen = queue[p].gen + 1
                    /\ queue'[p].inc = queue[p].inc /\ queue'[p].rebuilding
                    /\ queue'[p].running = None
  OBVIOUS
<1>1. Sound(p, queue[p]) /\ queue'[p] = ExpireRunning(queue[p])
  BY ThereSound
<1>2. ExpireRunning(queue[p]) # None
  BY <1>1, ExpireSound, SoundThere
<1>3. /\ ExpireRunning(queue[p]).gen = queue[p].gen + 1
      /\ ExpireRunning(queue[p]).inc = queue[p].inc
      /\ ExpireRunning(queue[p]).rebuilding /\ ExpireRunning(queue[p]).running = None
  BY <1>1, ExpireIdentity
<1>. QED BY <1>1, <1>2, <1>3

\* What an expiry does, of interest here.
Expires(w, due) ==
    /\ due \in SUBSET Plugins /\ "timeout" \in Ops /\ pass[w] = IdlePass
    /\ \A p \in due : queue[p] # None /\ queue[p].running # None
    /\ \A p \in Plugins :
          /\ p \in due => /\ queue'[p] # None /\ queue'[p].gen = queue[p].gen + 1
                           /\ queue'[p].inc = queue[p].inc /\ queue'[p].rebuilding
                           /\ queue'[p].running = None
          /\ p \notin due => queue'[p] = queue[p]
    /\ pass' = [pass EXCEPT ![w].todo =
          {[plugin |-> p, gen |-> queue[p].gen, inc |-> queue[p].inc,
            fault |-> Accepted(queue[p], live)] : p \in due}]
    /\ abandoned' = abandoned \ due
    /\ UNCHANGED <<manager, prepared, results>>

LEMMA ExpireExpires ==
  ASSUME HostInv, NEW w \in Watchers, Expire(w)
  PROVE  \E due : Expires(w, due)
<1>1. PICK due \in SUBSET {p \in Plugins : queue[p] # None /\ queue[p].running # None} :
         /\ queue' = [p \in Plugins |-> IF p \in due THEN ExpireRunning(queue[p]) ELSE queue[p]]
         /\ pass' = [pass EXCEPT ![w].todo =
                {[plugin |-> p, gen |-> queue[p].gen, inc |-> queue[p].inc,
                  fault |-> Accepted(queue[p], live)] : p \in due}]
         /\ abandoned' = abandoned \ due
  BY DEF Expire
<1>2. due \in SUBSET Plugins /\ \A p \in due : queue[p] # None /\ queue[p].running # None
  OBVIOUS
<1>3. \A p \in Plugins :
            /\ p \in due => /\ queue'[p] # None /\ queue'[p].gen = queue[p].gen + 1
                             /\ queue'[p].inc = queue[p].inc /\ queue'[p].rebuilding
                             /\ queue'[p].running = None
            /\ p \notin due => queue'[p] = queue[p]
  BY <1>1, <1>2, ExpireQueues
<1>4. Expires(w, due)
  BY <1>1, <1>2, <1>3 DEF Expire, Expires, service
<1>. QED BY <1>4

LEMMA ExpireRest ==
  ASSUME HostInv, IdentityInv, NEW w \in Watchers, NEW due, Expires(w, due)
  PROVE  /\ IdentityInv'
         /\ GenerationsInv => GenerationsInv' /\ (AgreeInv => AgreeInv')
<1> USE DEF Expires
<1>1. ASSUME NEW p \in Plugins
      PROVE  /\ Identities(p)' = Identities(p) /\ op'[p] = op[p] /\ config'[p] = config[p]
             /\ aborted'[p] = aborted[p] /\ bundle'[p] = bundle[p]
  BY QueuesOnly
<1>2. ASSUME NEW p \in Plugins PROVE IdentityOK(p)'
  <2>1. nextInc' \in Nat /\ nextInc' >= nextInc
    BY IdentityTypes DEF manager
  <2>2. Goes(p)
    BY DEF Goes
  <2>. QED BY <1>1, <2>1, <2>2, IdentityFrame
<1>3. ASSUME GenerationsInv, NEW p \in Plugins PROVE GenerationsOK(p)'
  <2>1. GenerationsOK(p) /\ config[p].gen \in Nat /\ queue[p].gen \in Nat
    BY <1>3, GenerationsTypes DEF GenerationsInv
  <2>2. CASE p \in due
    <3>1. queue'[p].gen <= config[p].gen + 1 /\ queue'[p] # None /\ queue'[p].running = None
      BY <2>1, <2>2 DEF GenerationsOK
    <3>. QED BY <1>1, <2>1, <3>1 DEF GenerationsOK, Activating, Purging
  <2>3. CASE p \notin due
    BY <1>1, <2>1, <2>3 DEF GenerationsOK, Activating, Purging
  <2>. QED BY <2>2, <2>3
<1>4. ASSUME AgreeInv, NEW p \in Plugins PROVE AgreeOK(p)'
  <2>1. AgreeOK(p)
    BY <1>4 DEF AgreeInv
  <2>2. CASE p \in due
    BY <1>1, <2>1, <2>2 DEF AgreeOK
  <2>3. CASE p \notin due
    BY <1>1, <2>1, <2>3 DEF AgreeOK, SameIdentity
  <2>. QED BY <2>2, <2>3
<1>. QED BY <1>2, <1>3, <1>4 DEF IdentityInv, GenerationsInv, AgreeInv

\* The run that expired a queue is the one that has it, whichever had it before.
LEMMA ExpirePasses ==
  ASSUME HostInv, GenerationsInv, PassesInv, NEW w \in Watchers, NEW due, Expires(w, due)
  PROVE  PassesInv'
<1> DEFINE todo == {[plugin |-> p, gen |-> queue[p].gen, inc |-> queue[p].inc,
                     fault |-> Accepted(queue[p], live)] : p \in due}
           new == [IdlePass EXCEPT !.todo = todo]
<1>1. new.todo = todo /\ new.cur = None
  BY DEF IdlePass
<1>2. /\ due \in SUBSET Plugins /\ pass[w] = IdlePass /\ abandoned' = abandoned \ due
      /\ pass' = [pass EXCEPT ![w] = new]
      /\ \A p \in Plugins :
            /\ p \in due => queue'[p].gen = queue[p].gen + 1
            /\ p \notin due => queue'[p] = queue[p]
  BY DEF Expires
<1>3. \A r \in todo : r.plugin \in due /\ r.gen = queue[r.plugin].gen
  OBVIOUS
<1>4. ASSUME NEW p \in due PROVE \E r \in todo : r.plugin = p /\ r.gen = queue[p].gen
  <2> DEFINE r == [plugin |-> p, gen |-> queue[p].gen, inc |-> queue[p].inc,
                   fault |-> Accepted(queue[p], live)]
  <2>1. r \in todo /\ r.plugin = p /\ r.gen = queue[p].gen
    OBVIOUS
  <2>. QED BY <2>1
<1>5. Unhandled(w) = {}
  BY <1>2 DEF Unhandled, IdlePass
<1> HIDE DEF todo, new
<1>6. \A v \in Watchers : pass'[v] = IF v = w THEN new ELSE pass[v]
  BY <1>2 DEF HostInv, WatchdogOK
<1>7. \A v \in Watchers : Unhandled(v)' = IF v = w THEN todo ELSE Unhandled(v)
  BY <1>1, <1>6 DEF Unhandled
<1>8. \A p \in Plugins : queue[p].gen \in Nat
  BY GenerationsTypes
<1>9. \A v \in Watchers : \A r \in Unhandled(v) :
         r.plugin \in Plugins /\ r.gen \in Nat /\ r.gen < queue[r.plugin].gen
  BY RunTypes DEF PassesInv
<1>10. \A v \in Watchers : pass'[v].stage = "idle" => pass'[v].cur = None
  BY <1>1, <1>6 DEF PassesInv
<1>11. ASSUME NEW v \in Watchers, NEW r \in Unhandled(v)'
       PROVE  r.gen < queue'[r.plugin].gen
  <2>1. CASE v = w
    <3>1. r.plugin \in Plugins /\ r.plugin \in due /\ r.gen = queue[r.plugin].gen
      BY <1>2, <1>3, <1>7, <2>1
    <3>. QED BY <1>2, <1>8, <3>1
  <2>2. CASE v # w
    <3>1. r.plugin \in Plugins /\ r.gen \in Nat /\ r.gen < queue[r.plugin].gen
      BY <1>7, <1>9, <2>2
    <3>. QED BY <1>2, <1>8, <3>1
  <2>. QED BY <2>1, <2>2
<1>12. ASSUME NEW p \in due
       PROVE  \A v \in Watchers : HandledBy(v, p)' <=> v = w
  <2>1. p \in Plugins /\ queue'[p].gen = queue[p].gen + 1 /\ queue[p].gen \in Nat
    BY <1>2, <1>8
  <2>2. HandledBy(w, p)'
    BY <1>4, <1>7, <2>1 DEF HandledBy
  <2>3. ASSUME NEW v \in Watchers, v # w, HandledBy(v, p)' PROVE FALSE
    <3>1. PICK r \in Unhandled(v)' : r.plugin = p /\ r.gen + 1 = queue'[p].gen
      BY <2>3 DEF HandledBy
    <3>2. r \in Unhandled(v)
      BY <1>7, <2>3, <3>1
    <3>. QED BY <1>9, <2>1, <3>1, <3>2
  <2>. QED BY <2>2, <2>3
<1>13. ASSUME NEW p \in Plugins, p \notin due
       PROVE  /\ queue'[p] = queue[p]
              /\ \A v \in Watchers : HandledBy(v, p)' <=> HandledBy(v, p)
  <2>1. queue'[p] = queue[p]
    BY <1>2, <1>13
  <2>2. ~HandledBy(w, p) /\ ~HandledBy(w, p)'
    BY <1>3, <1>5, <1>7, <1>13 DEF HandledBy
  <2>3. \A v \in Watchers \ {w} : HandledBy(v, p)' <=> HandledBy(v, p)
    BY <1>7, <2>1 DEF HandledBy
  <2>. QED BY <2>1, <2>2, <2>3
<1>14. ASSUME NEW p \in Plugins, queue'[p].rebuilding
       PROVE  /\ \A u, v \in Watchers : HandledBy(u, p)' /\ HandledBy(v, p)' => u = v
              /\ p \notin abandoned' => \E v \in Watchers : HandledBy(v, p)'
  <2>1. CASE p \in due
    BY <1>12, <2>1
  <2>2. CASE p \notin due
    <3>1. queue[p].rebuilding /\ (p \notin abandoned' => p \notin abandoned)
      BY <1>2, <1>13, <1>14, <2>2
    <3>2. /\ \A u, v \in Watchers : HandledBy(u, p) /\ HandledBy(v, p) => u = v
          /\ p \notin abandoned => \E v \in Watchers : HandledBy(v, p)
      BY <3>1 DEF PassesInv
    <3>3. \A v \in Watchers : HandledBy(v, p)' <=> HandledBy(v, p)
      BY <1>13, <2>2
    <3>. QED BY <3>1, <3>2, <3>3
  <2>. QED BY <2>1, <2>2
<1>. QED BY <1>10, <1>11, <1>14 DEF PassesInv
-----------------------------------------------------------------------------
(* The invariants are inductive *)

LEMMA InitIdentities ==
  ASSUME Init
  PROVE  IdentityInv /\ GenerationsInv /\ PassesInv /\ AgreeInv
<1>2. ASSUME NEW p \in Plugins
      PROVE  /\ queue[p] # None /\ queue[p].gen = 1 /\ queue[p].inc = 1
             /\ ~queue[p].rebuilding /\ queue[p].running = None
  <2>1. FirstPub[p] \in Tokens
    BY TokensAssumption DEF FirstPub
  <2>2. queue[p] = NewQueue(1, 1, FirstPub[p])
    BY DEF Init
  <2>3. queue[p] # None
    BY <2>1, <2>2, NewQueueSound, SoundThere
  <2>. QED BY <2>2, <2>3 DEF NewQueue
<1>3. ASSUME NEW p \in Plugins, NEW i \in Identities(p) PROVE i.gen = 1 /\ i.inc = 1
  BY <1>3 DEF Init, Identities, Identity
<1>4. ASSUME NEW p \in Plugins
      PROVE  op[p] = None /\ aborted[p] = None /\ config[p].gen = 1
             /\ config[p].status = "enabled" /\ bundle[p].gen = 1 /\ bundle[p].inc = 1
  BY <1>4 DEF Init
<1>5. nextInc = 2 /\ \A w \in Watchers : pass[w] = IdlePass
  BY DEF Init
<1>6. ASSUME NEW p \in Plugins PROVE IdentityOK(p)
  <2>1. ~Activating(op[p])
    BY <1>4 DEF Activating
  <2>2. IncsOK(p)
    BY <1>2, <1>3, <1>5, <2>1 DEF IncsOK
  <2>3. OneGeneration(p)
    BY <1>3 DEF OneGeneration
  <2>4. BehindOK(p)
    BY <1>2, <1>3 DEF BehindOK
  <2>. QED BY <2>2, <2>3, <2>4 DEF IdentityOK
<1>7. ASSUME NEW p \in Plugins PROVE GenerationsOK(p)
  <2>1. ~Activating(op[p]) /\ ~Purging(op[p])
    BY <1>4 DEF Activating, Purging
  <2>2. config[p].gen = 1 /\ config[p].status # "absent" /\ aborted[p] = None
    BY <1>4
  <2>. QED BY <1>2, <1>3, <2>1, <2>2 DEF GenerationsOK
<1>8. PassesInv
  BY <1>2, <1>5 DEF PassesInv, Unhandled, IdlePass
<1>9. AgreeInv
  BY <1>2, <1>4 DEF AgreeInv, AgreeOK, SameIdentity
<1>. QED BY <1>6, <1>7, <1>8, <1>9 DEF IdentityInv, GenerationsInv

\* The steps of the commands, the Runtimes and the service.
LEMMA RequestsAside ==
  ASSUME HostInv, Submissions \/ Completions \/ Retirements
  PROVE  Aside /\ UNCHANGED watchdog
<1>1. CASE Submissions
  <2>1. Aside
    BY <1>1, PrepareAside, SubmitAside, BindRouteAside, AbortUnboundAside,
       RecoverRuntimeAside, DropPreparedAside, ContentActionAside, ReserveResultAside,
       AdmitResultActionAside DEF Submissions
  <2>2. UNCHANGED watchdog
    BY <1>1 DEF Submissions, Prepare, Submit, BindRoute, AbortUnbound, RecoverRuntime,
       DropPrepared, ContentAction, ReserveResult, AdmitResultAction
  <2>. QED BY <2>1, <2>2
<1>2. CASE Completions
  <2>1. Aside
    BY <1>2, CompleteRequestAside, SettleContentAside, PublishAnswerAside,
       FinishResultActionAside, DismissResultsAside, RevokeInFlightAside DEF Completions
  <2>2. UNCHANGED watchdog
    BY <1>2 DEF Completions, CompleteRequest, SettleContent, PublishAnswer,
       FinishResultAction, DismissResults, RevokeInFlight
  <2>. QED BY <2>1, <2>2
<1>3. CASE Retirements
  <2>1. Aside
    BY <1>3, RetireContentAside, CancelRequestAside, RetireServiceAside DEF Retirements
  <2>2. UNCHANGED watchdog
    BY <1>3 DEF Retirements, RetireContent, CancelRequest, RetireService
  <2>. QED BY <2>1, <2>2
<1>. QED BY <1>1, <1>2, <1>3

\* The steps of the manager that neither activate nor begin an uninstall.
ManagerQuiet ==
    \/ \E p \in Plugins :
          \/ \E kind \in {"change", "disable"} : BeginChange(p, kind)
          \/ BeginFault(p) \/ CommitChange(p) \/ CommitDisable(p) \/ CommitFault(p)
          \/ CommitUninstall(p) \/ NotCommitted(p) \/ UnknownOutcome(p)
          \/ ReleaseUninstall(p)
    \/ ClosePublications \/ CloseGate
LEMMA ManagerQuietAside ==
  ASSUME HostInv, ManagerQuiet
  PROVE  Aside /\ UNCHANGED watchdog
<1>1. Aside
  BY BeginChangeAside, BeginFaultAside, CommitChangeAside, CommitDisableAside,
     PublishFaultAside, CommitUninstallAside, NotCommittedAside, UnknownOutcomeAside,
     ReleaseUninstallAside, CloseAside DEF ManagerQuiet, CommitFault
<1>2. UNCHANGED watchdog
  BY DEF ManagerQuiet, BeginChange, BeginFault, CommitChange, CommitDisable, CommitFault,
     CommitUninstall, NotCommitted, UnknownOutcome, ReleaseUninstall, ClosePublications,
     CloseGate
<1>. QED BY <1>1, <1>2

\* The steps of a run that publish nothing.
PassQuiet(w) ==
    \/ TakeReplacement(w) \/ PassReserveFault(w) \/ PassCommitFault(w)
    \/ PassNotCommitted(w) \/ PassCreate(w)
LEMMA PassQuietAside ==
  ASSUME HostInv, NEW w \in Watchers, PassQuiet(w)
  PROVE  Aside /\ (GenerationsInv /\ PassesInv => PassesGo)
  BY TakeReplacementAside, TakeReplacementGoes, PassReserveFaultAside,
     PassReserveFaultGoes, PassCommitFaultAside, PassCommitFaultGoes,
     PassNotCommittedAside, PassNotCommittedGoes, PassCreateAside, PassCreateGoes
     DEF PassQuiet

\* All of them.
QuietStep ==
    \/ Submissions \/ Completions \/ Retirements \/ ManagerQuiet
    \/ \E w \in Watchers : PassQuiet(w)
    \/ UNCHANGED vars
LEMMA QuietAside ==
  ASSUME HostInv, QuietStep
  PROVE  Aside /\ (GenerationsInv /\ PassesInv => PassesGo)
<1>1. CASE Submissions \/ Completions \/ Retirements \/ ManagerQuiet
  BY <1>1, RequestsAside, ManagerQuietAside, WatchdogStays
<1>2. CASE \E w \in Watchers : PassQuiet(w)
  BY <1>2, PassQuietAside
<1>3. CASE UNCHANGED vars
  <2>1. UNCHANGED <<queue, manager, prepared, results, watchdog>>
    BY <1>3 DEF vars, manager, watchdog
  <2>. QED BY <2>1, QuietStays, ShownIdentity, WatchdogStays
<1>. QED BY <1>1, <1>2, <1>3 DEF QuietStep

\* The other steps.
LEMMA StepKinds ==
  ASSUME [Next]_vars
  PROVE  \/ QuietStep
         \/ \E p \in Plugins :
              \/ \E kind \in {"uninstall", "purge"} : BeginUninstall(p, kind)
              \/ \E kind \in {"enable", "update"} : BeginActivation(p, kind)
              \/ CommitActivation(p) \/ ReactivateAborted(p)
         \/ \E w \in Watchers :
              \/ PassReserveReplace(w) \/ PassCommitReplace(w) \/ PassFinish(w)
              \/ Expire(w)
<1>1. CASE Management
  BY <1>1 DEF Management, Commits, QuietStep, ManagerQuiet
<1>2. CASE Timeouts
  BY <1>2 DEF Timeouts, PassStep, QuietStep, PassQuiet
<1>3. CASE Submissions \/ Completions \/ Retirements \/ UNCHANGED vars
  BY <1>3 DEF QuietStep
<1>. QED BY <1>1, <1>2, <1>3 DEF Next

LEMMA NextIdentity ==
  ASSUME HostInv, IdentityInv, [Next]_vars
  PROVE  IdentityInv'
<1>1. CASE QuietStep
  BY <1>1, QuietAside, AsideKeeps
<1>2. ASSUME NEW p \in Plugins, NEW kind \in {"uninstall", "purge"}, BeginUninstall(p, kind)
      PROVE  IdentityInv'
  BY <1>2, BeginUninstallStays, StaysIdentity
<1>3. ASSUME NEW p \in Plugins,
             \/ \E kind \in {"enable", "update"} : BeginActivation(p, kind)
             \/ CommitActivation(p) \/ ReactivateAborted(p)
      PROVE  IdentityInv'
  BY <1>3, BeginActivationIdentity, CommitActivationIdentity, ReactivateAbortedIdentity
<1>4. ASSUME NEW w \in Watchers,
             PassReserveReplace(w) \/ PassCommitReplace(w) \/ PassFinish(w) \/ Expire(w)
      PROVE  IdentityInv'
  <2>1. CASE PassCommitReplace(w)
    <3>1. pass[w].cur.plugin \in Plugins
      BY <2>1, RunTypes DEF PassCommitReplace
    <3>. QED BY <2>1, <3>1, PassCommitReplaceIdentity
  <2>. QED BY <1>4, <2>1, PassReserveReplaceIdentity, PassFinishIdentity, ExpireExpires,
              ExpireRest
<1>. QED BY <1>1, <1>2, <1>3, <1>4, StepKinds

LEMMA NextGenerations ==
  ASSUME HostInv, IdentityInv, GenerationsInv, PassesInv, [Next]_vars, "purge" \notin Ops
  PROVE  GenerationsInv' /\ PassesInv'
<1>1. CASE QuietStep
  BY <1>1, QuietAside, AsideKeeps
<1>2. ASSUME NEW p \in Plugins, NEW kind \in {"uninstall", "purge"}, BeginUninstall(p, kind)
      PROVE  GenerationsInv' /\ PassesInv'
  <2>1. StaysHost /\ UNCHANGED watchdog
    BY <1>2, BeginUninstallStays DEF BeginUninstall
  <2>. QED BY <2>1, StaysGenerations, StaysPasses, WatchdogStays
<1>3. ASSUME NEW p \in Plugins,
             \/ \E kind \in {"enable", "update"} : BeginActivation(p, kind)
             \/ CommitActivation(p) \/ ReactivateAborted(p)
      PROVE  GenerationsInv' /\ PassesInv'
  BY <1>3, BeginActivationRest, CommitActivationRest, ReactivateAbortedIdentity
<1>4. ASSUME NEW w \in Watchers,
             PassReserveReplace(w) \/ PassCommitReplace(w) \/ PassFinish(w) \/ Expire(w)
      PROVE  GenerationsInv' /\ PassesInv'
  <2>1. CASE PassCommitReplace(w)
    <3>1. pass[w].cur.plugin \in Plugins
      BY <2>1, RunTypes DEF PassCommitReplace
    <3>. QED BY <2>1, <3>1, PassCommitReplaceRest
  <2>2. CASE Expire(w)
    BY <2>2, ExpireExpires, ExpireRest, ExpirePasses
  <2>. QED BY <1>4, <2>1, <2>2, PassReserveReplaceRest, PassFinishIdentity
<1>. QED BY <1>1, <1>2, <1>3, <1>4, StepKinds

LEMMA NextAgree ==
  ASSUME HostInv, IdentityInv, GenerationsInv, PassesInv, AgreeInv, [Next]_vars,
         "purge" \notin Ops, "timeout" \notin Ops \/ "uninstall" \notin Ops
  PROVE  AgreeInv'
<1>1. CASE QuietStep
  BY <1>1, QuietAside, AsideKeeps
<1>2. ASSUME NEW p \in Plugins, NEW kind \in {"uninstall", "purge"}, BeginUninstall(p, kind)
      PROVE  AgreeInv'
  <2>1. "timeout" \notin Ops
    BY <1>2 DEF BeginUninstall
  <2>2. \A x \in Plugins : ~queue[x].rebuilding
    BY <2>1 DEF AgreeInv, AgreeOK
  <2>3. StaysHost /\ StaysRebuilding
    BY <1>2, <2>2, BeginUninstallStays
  <2>. QED BY <2>3, StaysAgree
<1>3. ASSUME NEW p \in Plugins,
             \/ \E kind \in {"enable", "update"} : BeginActivation(p, kind)
             \/ CommitActivation(p) \/ ReactivateAborted(p)
      PROVE  AgreeInv'
  BY <1>3, BeginActivationRest, CommitActivationRest, ReactivateAbortedIdentity
<1>4. ASSUME NEW w \in Watchers,
             PassReserveReplace(w) \/ PassCommitReplace(w) \/ PassFinish(w) \/ Expire(w)
      PROVE  AgreeInv'
  <2>1. CASE PassCommitReplace(w)
    <3>1. pass[w].cur.plugin \in Plugins
      BY <2>1, RunTypes DEF PassCommitReplace
    <3>. QED BY <2>1, <3>1, PassCommitReplaceRest
  <2>2. CASE Expire(w)
    BY <2>2, ExpireExpires, ExpireRest
  <2>. QED BY <1>4, <2>1, <2>2, PassReserveReplaceRest, PassFinishIdentity
<1>. QED BY <1>1, <1>2, <1>3, <1>4, StepKinds

\* No two generations share an activation, none is ahead of the counter, and no
\* identity of a plugin is ahead of its queue: in every reachable state.
THEOREM IdentityInvariant == Spec => []IdentityInv
<1>1. Init => IdentityInv
  BY InitIdentities
<1>2. HostInv /\ IdentityInv /\ [Next]_vars => IdentityInv'
  BY NextIdentity
<1>. QED BY <1>1, <1>2, HostInvariant, PTL DEF Spec

\* No request that was prepared has the identity of a rebuilding queue: the branch
\* of enqueue_reserved that stores such a request and fails is never taken.
THEOREM RebuildingRefused == Spec => []RebuildingRefuses
<1>1. HostInv /\ IdentityInv => RebuildingRefuses
  <2> SUFFICES ASSUME HostInv, IdentityInv, NEW c \in prepared, queue[c.plugin] # None,
                      queue[c.plugin].rebuilding, SameIdentity(queue[c.plugin], c)
               PROVE  FALSE
    BY DEF RebuildingRefuses
  <2>1. c.plugin \in Plugins
    BY DEF HostInv, RequestsOK, Candidates
  <2>2. Identity(c) \in Identities(c.plugin) /\ Identity(c).gen = c.gen /\ Identity(c).inc = c.inc
    BY PreparedIdentity DEF Identity
  <2>3. c.gen < queue[c.plugin].gen
    BY <2>1, <2>2 DEF IdentityInv, IdentityOK, BehindOK, SameIdentity
  <2>4. c.gen = queue[c.plugin].gen /\ c.gen \in Nat
    BY <2>1, <2>2, IdentityTypes DEF SameIdentity
  <2>. QED BY <2>3, <2>4
<1>. QED BY <1>1, HostInvariant, IdentityInvariant, PTL

\* Without purges no generation of a plugin goes back, and what is rebuilding has
\* its run.
THEOREM GenerationsInvariant ==
  ASSUME "purge" \notin Ops
  PROVE  Spec => [](GenerationsInv /\ PassesInv)
<1>1. Init => GenerationsInv /\ PassesInv
  BY InitIdentities
<1>2. HostInv /\ IdentityInv /\ GenerationsInv /\ PassesInv /\ [Next]_vars
         => GenerationsInv' /\ PassesInv'
  BY NextGenerations
<1>. QED BY <1>1, <1>2, HostInvariant, IdentityInvariant, PTL DEF Spec

\* Without purges the scheduler never refuses an identity that an enable or an
\* install has already made durable.
THEOREM ActivationsAccepted ==
  ASSUME "purge" \notin Ops
  PROVE  Spec => []ActivationNeverRefused
<1>1. HostInv /\ IdentityInv /\ GenerationsInv => ActivationNeverRefused
  <2> SUFFICES ASSUME HostInv, IdentityInv, GenerationsInv, NEW p \in Plugins,
                      op[p] # None, op[p].kind \in {"enable", "update"}
               PROVE  ActivationAccepted(p, op[p])
    BY DEF ActivationNeverRefused
  <2>1. Activating(op[p])
    BY DEF Activating
  <2>2. op[p].gen = config[p].gen + 1 /\ queue[p].gen <= config[p].gen + 1
    BY <2>1 DEF GenerationsInv, GenerationsOK
  <2>3. queue[p] # None => queue[p].inc # op[p].inc
    BY <2>1 DEF IdentityInv, IdentityOK, IncsOK
  <2>4. config[p].gen \in Nat /\ queue[p].gen \in Nat
    BY GenerationsTypes
  <2>. QED BY <2>2, <2>3, <2>4 DEF ActivationAccepted, CanActivate
<1>. QED BY <1>1, HostInvariant, IdentityInvariant, GenerationsInvariant, PTL

\* Without purges a rebuilding queue is in the hands of exactly one run of
\* expire_runtime_timeouts, unless that run gave up.
THEOREM RebuildingHasOneRun ==
  ASSUME "purge" \notin Ops
  PROVE  Spec => []RebuildingHandled
<1>1. PassesInv => RebuildingHandled
  <2> SUFFICES ASSUME PassesInv, NEW p \in Plugins, queue[p].rebuilding, p \notin abandoned
               PROVE  Cardinality(Handling(p)) = 1
    BY DEF RebuildingHandled, Queued
  <2>1. Handling(p) = {w \in Watchers : HandledBy(w, p)}
    BY DEF Handling, HandledBy, Unhandled
  <2>2. PICK w \in Watchers : HandledBy(w, p)
    BY DEF PassesInv
  <2>3. \A v \in Watchers : HandledBy(v, p) => v = w
    BY <2>2 DEF PassesInv
  <2>4. Handling(p) = {w}
    BY <2>1, <2>2, <2>3
  <2>. QED BY <2>4, FS_Singleton
<1>. QED BY <1>1, GenerationsInvariant, PTL

\* Where no uninstall meets a rebuilding queue, the scheduler and the confirmed
\* bundle agree on the identity of every plugin that is not rebuilding.
THEOREM IdentitiesAgree ==
  ASSUME "purge" \notin Ops, "timeout" \notin Ops \/ "uninstall" \notin Ops
  PROVE  Spec => []IdentityAgrees
<1>1. Init => AgreeInv
  BY InitIdentities
<1>2. HostInv /\ IdentityInv /\ GenerationsInv /\ PassesInv /\ AgreeInv /\ [Next]_vars
         => AgreeInv'
  BY NextAgree
<1>3. AgreeInv => IdentityAgrees
  BY DEF AgreeInv, AgreeOK, IdentityAgrees, Queued, Confirmed
<1>. QED BY <1>1, <1>2, <1>3, HostInvariant, IdentityInvariant, GenerationsInvariant, PTL
         DEF Spec

-----------------------------------------------------------------------------
(* Where a request is *)

\* Where request r is: reserved for plugin p, waiting in its queue, executing in
\* its slot, there with the authority of its user action, or in one of the three.
PreparedAt(p, r) == \E c \in prepared : c.plugin = p /\ c.id = r
WaitsAt(p, r) == queue[p] # None /\ queue[p].waiting # None /\ queue[p].waiting.id = r
RunsAt(p, r) == queue[p] # None /\ queue[p].running # None /\ queue[p].running.req.id = r
CurrentAt(p, r) ==
    RunsAt(p, r) /\ queue[p].running.current /\ Live(queue[p].running.req, live)
HeldAt(p, r) == PreparedAt(p, r) \/ WaitsAt(p, r) \/ RunsAt(p, r)
Owed(r) == OwedContent(r) \/ OwedCommand(r) \/ OwedResult(r)

\* A request is in one place at a time, of one plugin, and was given its number.
PreparedOnce == \A c, d \in prepared : c.id = d.id => c = d
PlacedOnce ==
    \A r \in Requests :
        /\ (\E p \in Plugins : HeldAt(p, r)) \/ Unsettled(r) \/ r \in delivered => r < nextRequest
        /\ \A p, x \in Plugins : HeldAt(p, r) /\ HeldAt(x, r) => p = x
        /\ \A p \in Plugins :
              /\ HeldAt(p, r) => ~Unsettled(r) /\ r \notin delivered
              /\ PreparedAt(p, r) => ~WaitsAt(p, r) /\ ~RunsAt(p, r)
              /\ WaitsAt(p, r) => ~RunsAt(p, r)

\* While a command waits for the slot, the request in it has lost its authority.
YieldsOne(q) == q # None /\ q.running # None /\ q.waiting # None => ~q.running.current
SlotsYield == \A p \in Plugins : YieldsOne(queue[p])

PlacesInv == PreparedOnce /\ PlacedOnce /\ SlotsYield

\* A request number that plugin x takes.
Takes(x, p, r) == p = x /\ r = nextRequest /\ nextRequest' = nextRequest + 1

\* How the requests of a plugin move in one step, if x takes the next number: from the
\* reserved to the waiting place to the slot, where authority is lost for good.
AgesAt(x, p, r) ==
    /\ PreparedAt(p, r)' => PreparedAt(p, r) \/ Takes(x, p, r)
    /\ WaitsAt(p, r)' => WaitsAt(p, r) \/ (PreparedAt(p, r) /\ ~PreparedAt(p, r)')
    /\ RunsAt(p, r)' =>
          \/ RunsAt(p, r)
          \/ /\ WaitsAt(p, r) \/ PreparedAt(p, r) \/ Takes(x, p, r)
             /\ ~WaitsAt(p, r)' /\ ~PreparedAt(p, r)' /\ CurrentAt(p, r)'
    /\ RunsAt(p, r) /\ CurrentAt(p, r)' => CurrentAt(p, r)

\* What leaves the slot may be owed an answer; only what is owed one, or completes
\* with authority, is delivered.
Settles(r) ==
    /\ Unsettled(r)' => Unsettled(r) \/ \E p \in Plugins : RunsAt(p, r) /\ ~RunsAt(p, r)'
    /\ Owed(r)' => Owed(r) \/ \E p \in Plugins : CurrentAt(p, r)
    /\ r \in delivered => r \in delivered'
    /\ r \in delivered' =>
          \/ r \in delivered \/ Owed(r)
          \/ \E p \in Plugins : CurrentAt(p, r) /\ ~RunsAt(p, r)'

NumberTakenBy(x) ==
    \/ nextRequest' = nextRequest
    \/ /\ nextRequest' = nextRequest + 1 /\ x \in Plugins
       /\ \A r \in Requests : r = nextRequest => PreparedAt(x, r)' \/ RunsAt(x, r)'

Ages(x) ==
    /\ \A p \in Plugins : \A r \in Requests : AgesAt(x, p, r)
    /\ \A r \in Requests : Settles(r)
    /\ NumberTakenBy(x)

-----------------------------------------------------------------------------
(* What the status of a request says *)

StatusKnown ==
    \A r \in Requests :
        /\ StatusOf(r) \in Lifecycle!Statuses
        /\ StatusOf(r) = "unused" <=> ~(r < nextRequest)
        /\ StatusOf(r) = "delivered" <=> r \in delivered
        /\ StatusOf(r) = "reserved" <=> \E p \in Plugins : PreparedAt(p, r)
        /\ StatusOf(r) = "waiting" <=> \E p \in Plugins : WaitsAt(p, r)
        /\ StatusOf(r) = "current" <=> \E p \in Plugins : CurrentAt(p, r)
        /\ StatusOf(r) = "superseded" <=>
              \E p \in Plugins : RunsAt(p, r) /\ ~CurrentAt(p, r)
        /\ StatusOf(r) = "owed" <=> Owed(r) /\ r \notin delivered
        /\ StatusOf(r) = "void" <=> Unsettled(r) /\ ~Owed(r) /\ r \notin delivered

LEMMA OwedUnsettled == \A r : Owed(r) => Unsettled(r)
  BY DEF Owed, OwedContent, OwedCommand, OwedResult, Unsettled

LEMMA StatusRight == HostInv /\ PlacesInv => StatusKnown
<1> SUFFICES ASSUME HostInv, PlacesInv, NEW r \in Requests
             PROVE  /\ StatusOf(r) \in Lifecycle!Statuses
                    /\ StatusOf(r) = "unused" <=> ~(r < nextRequest)
                    /\ StatusOf(r) = "delivered" <=> r \in delivered
                    /\ StatusOf(r) = "reserved" <=> \E p \in Plugins : PreparedAt(p, r)
                    /\ StatusOf(r) = "waiting" <=> \E p \in Plugins : WaitsAt(p, r)
                    /\ StatusOf(r) = "current" <=> \E p \in Plugins : CurrentAt(p, r)
                    /\ StatusOf(r) = "superseded" <=>
                          \E p \in Plugins : RunsAt(p, r) /\ ~CurrentAt(p, r)
                    /\ StatusOf(r) = "owed" <=> Owed(r) /\ r \notin delivered
                    /\ StatusOf(r) = "void" <=> Unsettled(r) /\ ~Owed(r) /\ r \notin delivered
  BY DEF StatusKnown
<1> DEFINE prep == \E p \in Plugins : PreparedAt(p, r)
           wait == \E p \in Plugins : WaitsAt(p, r)
           run == \E p \in Plugins : RunsAt(p, r)
           cur == \E p \in Plugins : CurrentAt(p, r)
           past == \E p \in Plugins : RunsAt(p, r) /\ ~CurrentAt(p, r)
<1>1. r >= nextRequest <=> ~(r < nextRequest)
  BY HostAssumption DEF HostInv, RequestsOK
<1>2. Located_(r) # {} <=> prep
  BY DEF Located_, PreparedAt, HostInv, RequestsOK, Candidates
<1>3. WaitsId(r) # {} <=> wait
  BY DEF WaitsId, WaitsAt, Queued
<1>4. RunsId(r) # {} <=> run
  BY DEF RunsId, RunsAt, Queued
<1>5. ASSUME run
      PROVE  LET q == queue[CHOOSE p \in RunsId(r) : TRUE]
             IN  /\ Current(q, Ctx(q.running.req), live) <=> cur
                 /\ past <=> ~cur
  <2>1. PICK p \in Plugins : RunsAt(p, r)
    BY <1>5
  <2>2. \A x \in Plugins : RunsAt(x, r) => x = p
    BY <2>1 DEF PlacesInv, PlacedOnce, HeldAt
  <2>3. RunsId(r) = {p}
    BY <2>1, <2>2 DEF RunsId, RunsAt, Queued
  <2>4. (CHOOSE x \in RunsId(r) : TRUE) = p
    BY <2>3
  <2>5. cur <=> CurrentAt(p, r)
    BY <2>1, <2>2 DEF CurrentAt
  <2>6. past <=> ~CurrentAt(p, r)
    BY <2>1, <2>2
  <2>7. queue[p].running # None /\ queue[p].gen = queue[p].running.req.gen
    BY <2>1 DEF RunsAt, HostInv, QueuesOK, Sound, QueueOK, RunningOK, SameIdentity
  <2>8. Current(queue[p], Ctx(queue[p].running.req), live) <=> CurrentAt(p, r)
    BY <2>1, <2>7 DEF Current, CurrentAt, Runs, Ctx
  <2>. QED BY <2>4, <2>5, <2>6, <2>8
<1>6. (past => run) /\ (cur => run)
  BY DEF CurrentAt
<1>7. /\ prep \/ wait \/ run \/ Unsettled(r) \/ r \in delivered => r < nextRequest
      /\ prep => ~wait /\ ~run
      /\ wait => ~run
      /\ prep \/ wait \/ run => ~Unsettled(r) /\ r \notin delivered
  BY DEF PlacesInv, PlacedOnce, HeldAt
<1>8. Owed(r) => Unsettled(r)
  BY OwedUnsettled
<1> DEFINE q == queue[CHOOSE p \in RunsId(r) : TRUE]
<1>9. StatusOf(r) =
        IF r >= nextRequest THEN "unused"
        ELSE IF r \in delivered THEN "delivered"
        ELSE IF prep THEN "reserved"
        ELSE IF wait THEN "waiting"
        ELSE IF run THEN (IF cur THEN "current" ELSE "superseded")
        ELSE IF Owed(r) THEN "owed"
        ELSE IF Unsettled(r) THEN "void"
        ELSE "done"
  BY <1>2, <1>3, <1>4, <1>5 DEF StatusOf, Owed
<1>10. run => (past <=> ~cur)
  BY <1>5
<1>11. cur => run
  BY DEF CurrentAt
<1>12. past => run
  OBVIOUS
<1> HIDE DEF prep, wait, run, cur, past, q
<1>13. Lifecycle!Statuses = {"unused", "reserved", "waiting", "current", "superseded",
                             "owed", "void", "delivered", "done"}
  BY DEF Lifecycle!Statuses
<1>14. /\ StatusOf(r) \in Lifecycle!Statuses
       /\ StatusOf(r) = "unused" <=> ~(r < nextRequest)
       /\ StatusOf(r) = "delivered" <=> r \in delivered
       /\ StatusOf(r) = "reserved" <=> prep
       /\ StatusOf(r) = "waiting" <=> wait
       /\ StatusOf(r) = "current" <=> cur
       /\ StatusOf(r) = "superseded" <=> past
       /\ StatusOf(r) = "owed" <=> Owed(r) /\ r \notin delivered
       /\ StatusOf(r) = "void" <=> Unsettled(r) /\ ~Owed(r) /\ r \notin delivered
  BY <1>1, <1>7, <1>8, <1>9, <1>10, <1>11, <1>12, <1>13
<1>. QED BY <1>14 DEF prep, wait, run, cur, past

-----------------------------------------------------------------------------
(* A step that only ages requests keeps them in one place, and is one of the *)
(* lifecycle                                                                 *)

\* What is held was held by the same plugin, or is new.
LEMMA AgesHeld ==
  ASSUME NEW x, Ages(x), NEW p \in Plugins, NEW r \in Requests, HeldAt(p, r)'
  PROVE  HeldAt(p, r) \/ Takes(x, p, r)
  BY DEF Ages, AgesAt, HeldAt

LEMMA AgesPlaces ==
  ASSUME HostInv, HostInv', PlacesInv, NEW x, Ages(x), PreparedOnce', SlotsYield'
  PROVE  PlacesInv'
<1>1. nextRequest \in Nat /\ nextRequest' \in Nat /\ Requests \subseteq Nat
  BY HostAssumption DEF HostInv, RequestsOK
<1>2. nextRequest' = nextRequest \/ nextRequest' = nextRequest + 1
  BY DEF Ages, NumberTakenBy
<1> SUFFICES ASSUME NEW r \in Requests
             PROVE  /\ (\E p \in Plugins : HeldAt(p, r)') \/ Unsettled(r)' \/ r \in delivered'
                          => r < nextRequest'
                    /\ \A p, y \in Plugins : HeldAt(p, r)' /\ HeldAt(y, r)' => p = y
                    /\ \A p \in Plugins :
                          /\ HeldAt(p, r)' => ~Unsettled(r)' /\ r \notin delivered'
                          /\ PreparedAt(p, r)' => ~WaitsAt(p, r)' /\ ~RunsAt(p, r)'
                          /\ WaitsAt(p, r)' => ~RunsAt(p, r)'
  BY DEF PlacesInv, PlacedOnce
<1>3. /\ (\E p \in Plugins : HeldAt(p, r)) \/ Unsettled(r) \/ r \in delivered => r < nextRequest
      /\ \A p, y \in Plugins : HeldAt(p, r) /\ HeldAt(y, r) => p = y
      /\ \A p \in Plugins :
            /\ HeldAt(p, r) => ~Unsettled(r) /\ r \notin delivered
            /\ PreparedAt(p, r) => ~WaitsAt(p, r) /\ ~RunsAt(p, r)
            /\ WaitsAt(p, r) => ~RunsAt(p, r)
  BY DEF PlacesInv, PlacedOnce
<1>4. \A p \in Plugins : HeldAt(p, r)' => HeldAt(p, r) \/ Takes(x, p, r)
  BY AgesHeld
<1>5. \A p \in Plugins : Takes(x, p, r) => p = x /\ ~(r < nextRequest) /\ r < nextRequest'
  BY <1>1 DEF Takes
<1>6. r < nextRequest => r < nextRequest'
  BY <1>1, <1>2
<1>7. \A p \in Plugins : AgesAt(x, p, r)
  BY DEF Ages
<1>8. Settles(r)
  BY DEF Ages
<1>9. Owed(r) => Unsettled(r)
  BY OwedUnsettled
<1>10. \A p \in Plugins : (CurrentAt(p, r) => RunsAt(p, r)) /\ (RunsAt(p, r) => HeldAt(p, r))
  BY DEF CurrentAt, HeldAt
<1>11. (\E p \in Plugins : HeldAt(p, r)') \/ Unsettled(r)' \/ r \in delivered' => r < nextRequest'
  BY <1>3, <1>4, <1>5, <1>6, <1>8, <1>9, <1>10 DEF Settles
<1>12. \A p, y \in Plugins : HeldAt(p, r)' /\ HeldAt(y, r)' => p = y
  BY <1>3, <1>4, <1>5
<1>13. ASSUME NEW p \in Plugins, HeldAt(p, r)'
       PROVE  ~Unsettled(r)' /\ r \notin delivered'
  <2>1. CASE Takes(x, p, r)
    <3>1. ~Unsettled(r) /\ r \notin delivered /\ \A y \in Plugins : ~HeldAt(y, r)
      BY <1>3, <1>5, <2>1
    <3>. QED BY <1>8, <1>9, <1>10, <3>1 DEF Settles
  <2>2. CASE HeldAt(p, r)
    <3>1. ~Unsettled(r) /\ r \notin delivered /\ ~Owed(r)
      BY <1>3, <1>9, <2>2
    <3>2. \A y \in Plugins : RunsAt(y, r) => y = p
      BY <1>3, <1>10, <2>2
    <3>3. RunsAt(p, r) => RunsAt(p, r)'
      BY <1>3, <1>5, <1>7, <1>13, <2>2 DEF AgesAt, HeldAt
    <3>. QED BY <1>8, <1>10, <3>1, <3>2, <3>3 DEF Settles
  <2>. QED BY <1>4, <1>13, <2>1, <2>2
<1>14. ASSUME NEW p \in Plugins
       PROVE  /\ PreparedAt(p, r)' => ~WaitsAt(p, r)' /\ ~RunsAt(p, r)'
              /\ WaitsAt(p, r)' => ~RunsAt(p, r)'
  <2>1. Takes(x, p, r) => ~HeldAt(p, r)
    BY <1>3, <1>5
  <2>. QED BY <1>3, <1>7, <2>1 DEF AgesAt, HeldAt
<1>. QED BY <1>11, <1>12, <1>13, <1>14

\* The statuses move as the lifecycle has it.
LEMMA AgesStatus ==
  ASSUME HostInv, HostInv', PlacesInv, PlacesInv', StatusKnown, StatusKnown',
         NEW x, Ages(x),
         NEW r \in Requests, StatusOf(r)' # StatusOf(r)
  PROVE  StatusOf(r)' \in Lifecycle!After[StatusOf(r)]
<1>1. nextRequest \in Nat /\ nextRequest' \in Nat /\ Requests \subseteq Nat
  BY HostAssumption DEF HostInv, RequestsOK
<1>2. /\ (\E p \in Plugins : HeldAt(p, r)) \/ Unsettled(r) \/ r \in delivered => r < nextRequest
      /\ \A p, y \in Plugins : HeldAt(p, r) /\ HeldAt(y, r) => p = y
      /\ \A p \in Plugins :
            /\ HeldAt(p, r) => ~Unsettled(r) /\ r \notin delivered
            /\ PreparedAt(p, r) => ~WaitsAt(p, r) /\ ~RunsAt(p, r)
            /\ WaitsAt(p, r) => ~RunsAt(p, r)
  BY DEF PlacesInv, PlacedOnce
<1>3. \A p \in Plugins : AgesAt(x, p, r)
  BY DEF Ages
<1>4. Settles(r) /\ NumberTakenBy(x)
  BY DEF Ages
<1>5. \A p \in Plugins : Takes(x, p, r) => p = x /\ ~(r < nextRequest)
  BY <1>1 DEF Takes
<1>6. r < nextRequest' /\ ~(r < nextRequest) => r = nextRequest /\ nextRequest' = nextRequest + 1
  BY <1>1, <1>4 DEF NumberTakenBy
<1>7. r < nextRequest => r < nextRequest'
  BY <1>1, <1>4 DEF NumberTakenBy
<1> DEFINE s == StatusOf(r)
           t == StatusOf(r)'
<1>8. /\ s \in Lifecycle!Statuses
      /\ s = "unused" <=> ~(r < nextRequest)
      /\ s = "delivered" <=> r \in delivered
      /\ s = "reserved" <=> \E p \in Plugins : PreparedAt(p, r)
      /\ s = "waiting" <=> \E p \in Plugins : WaitsAt(p, r)
      /\ s = "current" <=> \E p \in Plugins : CurrentAt(p, r)
      /\ s = "superseded" <=> \E p \in Plugins : RunsAt(p, r) /\ ~CurrentAt(p, r)
      /\ s = "owed" <=> Owed(r) /\ r \notin delivered
      /\ s = "void" <=> Unsettled(r) /\ ~Owed(r) /\ r \notin delivered
  BY DEF StatusKnown
<1>9. /\ t \in Lifecycle!Statuses
      /\ t = "unused" <=> ~(r < nextRequest')
      /\ t = "delivered" <=> r \in delivered'
      /\ t = "reserved" <=> \E p \in Plugins : PreparedAt(p, r)'
      /\ t = "waiting" <=> \E p \in Plugins : WaitsAt(p, r)'
      /\ t = "current" <=> \E p \in Plugins : CurrentAt(p, r)'
      /\ t = "superseded" <=> \E p \in Plugins : RunsAt(p, r)' /\ ~CurrentAt(p, r)'
      /\ t = "owed" <=> Owed(r)' /\ r \notin delivered'
      /\ t = "void" <=> Unsettled(r)' /\ ~Owed(r)' /\ r \notin delivered'
  BY DEF StatusKnown
<1>10. s # t
  OBVIOUS
<1> HIDE DEF s, t
<1>11. \A p \in Plugins : (CurrentAt(p, r) => RunsAt(p, r)) /\ (CurrentAt(p, r)' => RunsAt(p, r)')
  BY DEF CurrentAt
<1>12. t # "unused"
  BY <1>7, <1>8, <1>9, <1>10
<1>13. t = "reserved" => s = "unused"
  BY <1>3, <1>5, <1>8, <1>9, <1>10 DEF AgesAt
<1>14. t = "waiting" => s = "reserved"
  BY <1>3, <1>8, <1>9, <1>10 DEF AgesAt
<1>15. t = "current" => s \in {"unused", "reserved", "waiting"}
  BY <1>3, <1>5, <1>8, <1>9, <1>10, <1>11 DEF AgesAt
<1>16. t = "superseded" => s = "current"
  BY <1>3, <1>8, <1>9, <1>10, <1>11 DEF AgesAt
<1>17. t = "owed" => s = "current"
  BY <1>4, <1>8, <1>9, <1>10 DEF Settles
<1>18. t = "void" => s \in {"current", "superseded", "owed"}
  BY <1>4, <1>8, <1>9, <1>10 DEF Settles
<1>19. t = "delivered" => s \in {"current", "owed"}
  BY <1>4, <1>8, <1>9, <1>10 DEF Settles
<1>20. t = "done" => s \notin {"unused", "delivered"}
  <2>1. s = "delivered" => t = "delivered"
    BY <1>4, <1>8, <1>9 DEF Settles
  <2>2. ASSUME s = "unused", r < nextRequest'
        PROVE  t # "done"
    <3>1. r = nextRequest /\ nextRequest' = nextRequest + 1 /\ nextRequest' # nextRequest
      BY <1>1, <1>6, <1>8, <2>2
    <3>2. x \in Plugins /\ (PreparedAt(x, r)' \/ RunsAt(x, r)')
      BY <1>4, <3>1 DEF NumberTakenBy
    <3>. QED BY <1>8, <1>9, <3>2
  <2>. QED BY <1>9, <1>10, <2>1, <2>2
<1>21. Lifecycle!Statuses = {"unused", "reserved", "waiting", "current", "superseded",
                             "owed", "void", "delivered", "done"}
  BY DEF Lifecycle!Statuses
<1>22. t \in Lifecycle!After[s]
  BY <1>8, <1>9, <1>10, <1>12, <1>13, <1>14, <1>15, <1>16, <1>17, <1>18, <1>19, <1>20, <1>21
     DEF Lifecycle!After
<1>. QED BY <1>22 DEF s, t

\* Slots and waiting places show the requests that execute and wait.
SlotsKnown == Lifecycle!Placed /\ Lifecycle!Yielding
LEMMA SlotsRight == HostInv /\ PlacesInv => SlotsKnown
<1> SUFFICES ASSUME HostInv, PlacesInv PROVE SlotsKnown
  OBVIOUS
<1> DEFINE executing == [p \in Plugins |-> ExecutingOf(p)]
           waiting == [p \in Plugins |-> WaitingOf(p)]
           status == [r \in Requests |-> StatusOf(r)]
<1>1. StatusKnown
  BY StatusRight
<1>2. \A p \in Plugins : \A r \in Requests :
          /\ executing[p] = r <=> RunsAt(p, r)
          /\ waiting[p] = r <=> WaitsAt(p, r)
  BY OptionAssumption DEF ExecutingOf, WaitingOf, RunsAt, WaitsAt
<1>3. \A p \in Plugins : waiting[p] # None => queue[p] # None /\ queue[p].waiting # None
  BY DEF WaitingOf
<1>4. \A r \in Requests : status[r] = StatusOf(r)
  OBVIOUS
<1>5. \A r \in Requests : /\ StatusOf(r) \in {"current", "superseded"} <=>
                                \E p \in Plugins : RunsAt(p, r)
                          /\ \A p, y \in Plugins : HeldAt(p, r) /\ HeldAt(y, r) => p = y
  BY <1>1 DEF StatusKnown, CurrentAt, PlacesInv, PlacedOnce
<1>6. \A p \in Plugins : \A r \in Requests :
          queue[p] # None /\ queue[p].waiting # None /\ RunsAt(p, r) => StatusOf(r) = "superseded"
  BY <1>1 DEF StatusKnown, CurrentAt, RunsAt, PlacesInv, SlotsYield, YieldsOne
<1> HIDE DEF executing, waiting, status
<1>7. \A r \in Requests :
        /\ status[r] \in {"current", "superseded"} <=> \E p \in Plugins : executing[p] = r
        /\ status[r] = "waiting" <=> \E p \in Plugins : waiting[p] = r
        /\ \A p, q \in Plugins :
              /\ executing[p] = r /\ executing[q] = r => p = q
              /\ waiting[p] = r /\ waiting[q] = r => p = q
  BY <1>1, <1>2, <1>4, <1>5 DEF StatusKnown, HeldAt
<1>8. \A p \in Plugins : \A r \in Requests :
        waiting[p] # None /\ executing[p] = r => status[r] = "superseded"
  BY <1>2, <1>3, <1>4, <1>6
<1>. QED BY <1>7, <1>8 DEF SlotsKnown, Lifecycle!Placed, Lifecycle!Yielding, Lifecycle!Holds,
                          executing, waiting, status

\* What a step that ages requests is for the lifecycle.
LEMMA AgesLifecycle ==
  ASSUME HostInv, HostInv', PlacesInv, PlacesInv', NEW x, Ages(x)
  PROVE  Lifecycle!Next
<1>1. StatusKnown /\ StatusKnown' /\ SlotsKnown'
  <2>1. HostInv /\ PlacesInv => StatusKnown
    BY StatusRight
  <2>2. HostInv' /\ PlacesInv' => StatusKnown'
    BY StatusRight, PTL
  <2>3. HostInv' /\ PlacesInv' => SlotsKnown'
    BY SlotsRight, PTL
  <2>. QED BY <2>1, <2>2, <2>3
<1>2. \A r \in Requests :
          StatusOf(r)' # StatusOf(r) => StatusOf(r)' \in Lifecycle!After[StatusOf(r)]
  BY <1>1, AgesStatus
<1>3. \A r \in Requests : StatusOf(r)' \in Lifecycle!Statuses
  BY <1>1 DEF StatusKnown
<1>4. \A p \in Plugins :
          ExecutingOf(p)' \in Requests \cup {None} /\ WaitingOf(p)' \in Requests \cup {None}
  BY DEF ExecutingOf, WaitingOf, HostInv, QueuesOK, Queues, RunningRequests, Candidates
<1>5. ASSUME NEW r \in Requests, NEW p \in Plugins, NEW y \in Plugins,
             WaitsAt(p, r) \/ RunsAt(p, r), WaitsAt(y, r)' \/ RunsAt(y, r)'
      PROVE  p = y
  <2>1. HeldAt(p, r) /\ HeldAt(y, r)'
    BY <1>5 DEF HeldAt
  <2>2. r < nextRequest /\ nextRequest \in Nat
    BY <2>1 DEF PlacesInv, PlacedOnce, HostInv, RequestsOK
  <2>3. ~Takes(x, y, r)
    BY <2>2 DEF Takes
  <2>4. HeldAt(y, r)
    BY <2>1, <2>3, AgesHeld
  <2>. QED BY <2>1, <2>4 DEF PlacesInv, PlacedOnce
<1> DEFINE executing == [p \in Plugins |-> ExecutingOf(p)]
           waiting == [p \in Plugins |-> WaitingOf(p)]
           status == [r \in Requests |-> StatusOf(r)]
<1>6. /\ \A r \in Requests : status[r] = StatusOf(r) /\ status'[r] = StatusOf(r)'
      /\ status' \in [Requests -> Lifecycle!Statuses]
      /\ executing' \in [Plugins -> Requests \cup {None}]
      /\ waiting' \in [Plugins -> Requests \cup {None}]
  BY <1>3, <1>4
<1>7. \A p \in Plugins : \A r \in Requests :
          /\ executing[p] = r => RunsAt(p, r)
          /\ waiting[p] = r => WaitsAt(p, r)
          /\ executing'[p] = r => RunsAt(p, r)'
          /\ waiting'[p] = r => WaitsAt(p, r)'
  BY OptionAssumption DEF ExecutingOf, WaitingOf, RunsAt, WaitsAt
<1>8. \A r \in Requests : status'[r] # status[r] => status'[r] \in Lifecycle!After[status[r]]
  BY <1>2, <1>6
<1> HIDE DEF executing, waiting, status
<1>9. \A r \in Requests : \A p, q \in Plugins :
        /\ waiting[p] = r \/ executing[p] = r
        /\ waiting'[q] = r \/ executing'[q] = r
        => p = q
  BY <1>5, <1>7
<1>10. \A r \in Requests : Lifecycle!Stays(r)
  BY <1>9 DEF Lifecycle!Stays, Lifecycle!Holds, executing, waiting
<1>. QED BY <1>1, <1>6, <1>8, <1>10 DEF Lifecycle!Next, SlotsKnown, executing, waiting, status

-----------------------------------------------------------------------------
(* What a queue serves *)

\* Of a queue that moves: the slot goes on, without new authority, or takes the waiting
\* request.
SlotsServe(q, new) ==
    /\ new.waiting # None => q.waiting # None /\ new.waiting.id = q.waiting.id
    /\ new.running # None =>
          \/ /\ q.running # None /\ new.running.req = q.running.req
             /\ new.running.current => q.running.current
          \/ /\ q.waiting # None /\ new.running.req.id = q.waiting.id
             /\ new.running.req.kind = "command" /\ new.running.current
             /\ new.waiting = None
TicketAges(q, new) ==
    new.ticket # None =>
        /\ q.ticket # None /\ new.ticket.req = q.ticket.req
        /\ new.ticket.reason = "none" => q.ticket.reason = "none"
EmptyQueue(q) == q.running = None /\ q.waiting = None /\ q.ticket = None
Serves(q, new) ==
    new # None => EmptyQueue(new) \/ (q # None /\ SlotsServe(q, new) /\ TicketAges(q, new))

LEMMA SelfServes == \A q : Serves(q, q)
  BY DEF Serves, SlotsServe, TicketAges

LEMMA ServesServes ==
  ASSUME NEW q, NEW m, NEW new, Serves(q, m), Serves(m, new), m = None => new = None,
         new # None => new.running = None \/ new.running = m.running
  PROVE  Serves(q, new)
<1> SUFFICES ASSUME new # None, ~EmptyQueue(new)
             PROVE  q # None /\ SlotsServe(q, new) /\ TicketAges(q, new)
  BY DEF Serves
<1>1. m # None /\ SlotsServe(m, new) /\ TicketAges(m, new)
  BY DEF Serves
<1>2. ~EmptyQueue(m)
  BY <1>1 DEF EmptyQueue, SlotsServe, TicketAges
<1>3. q # None /\ SlotsServe(q, m) /\ TicketAges(q, m)
  BY <1>1, <1>2 DEF Serves
<1>4. SlotsServe(q, new)
  BY <1>1, <1>3 DEF SlotsServe
<1>5. TicketAges(q, new)
  BY <1>1, <1>3 DEF TicketAges
<1>. QED BY <1>3, <1>4, <1>5

LEMMA NewServes ==
  ASSUME NEW q, NEW gen, NEW inc, NEW pub
  PROVE  Serves(q, NewQueue(gen, inc, pub))
  BY DEF Serves, EmptyQueue, NewQueue

\* A queue that serves still has the waiting request yield.
LEMMA ServesYields ==
  ASSUME NEW q, NEW new, Serves(q, new), YieldsOne(q)
  PROVE  YieldsOne(new)
  BY DEF Serves, SlotsServe, EmptyQueue, YieldsOne

LEMMA DispatchWaitingServes ==
  ASSUME NEW p, NEW q \in Queues, Fits(p, q), q.running = None
  PROVE  SlotsServe(q, DispatchWaiting(q)) /\ DispatchWaiting(q).ticket = q.ticket
<1>1. CASE q.waiting = None \/ q.rebuilding
  BY <1>1 DEF DispatchWaiting, SlotsServe
<1>2. CASE q.waiting # None /\ ~q.rebuilding
  <2> DEFINE r == [req |-> q.waiting, current |-> TRUE, retirement |-> "none"]
             free == [q EXCEPT !.waiting = None]
             e == [free EXCEPT !.running = r]
  <2>1. DispatchWaiting(q) = e
    BY <1>2, DispatchLosesNothing DEF Start
  <2>2. e.running = r /\ e.waiting = None /\ e.ticket = q.ticket
    BY DEF Queues
  <2>3. r.req = q.waiting /\ r.current
    OBVIOUS
  <2>4. q.waiting.kind = "command"
    BY <1>2 DEF Fits
  <2> HIDE DEF e, r
  <2>5. SlotsServe(q, e)
    BY <1>2, <2>2, <2>3, <2>4 DEF SlotsServe
  <2>. QED BY <2>1, <2>2, <2>5
<1>. QED BY <1>1, <1>2

\* What a retired request and an aged ticket are.
LEMMA RetiredPast ==
  ASSUME NEW r \in RunningRequests, NEW reason \in Reasons
  PROVE  ~Retired(r, reason).current /\ Retired(r, reason).req = r.req
  BY DEF Retired, RunningRequests
LEMMA TicketReason ==
  ASSUME NEW t \in Tickets, NEW reason \in Reasons
  PROVE  [t EXCEPT !.reason = reason].reason = reason
  BY DEF Tickets

LEMMA RetireSlotServes ==
  ASSUME NEW p, NEW q, Sound(p, q), q.running # None, NEW reason \in Reasons
  PROVE  Serves(q, [q EXCEPT !.running = Retired(q.running, reason)])
<1> DEFINE r == Retired(q.running, reason)
           e == [q EXCEPT !.running = r]
<1>1. q \in Queues /\ q # None
  BY SoundThere
<1>2. r.req = q.running.req /\ ~r.current
  BY <1>1, RetiredPast DEF Queues
<1> HIDE DEF r
<1>3. e.running = r /\ e.waiting = q.waiting /\ e.ticket = q.ticket
  BY <1>1 DEF Queues
<1> HIDE DEF e
<1>4. SlotsServe(q, e) /\ TicketAges(q, e)
  BY <1>2, <1>3 DEF SlotsServe, TicketAges
<1>. QED BY <1>1, <1>4 DEF Serves, e, r

\* complete(): the slot is freed for the waiting request, and a content or result action
\* leaves its ticket.
LEMMA CompleteServes ==
  ASSUME NEW p, NEW q, NEW tokens, Sound(p, q), q.running # None
  PROVE  LET r == q.running
             new == Complete(q, tokens)
         IN  /\ new.waiting # None => q.waiting # None /\ new.waiting.id = q.waiting.id
             /\ new.running # None =>
                   /\ q.waiting # None /\ new.running.req.id = q.waiting.id
                   /\ new.running.req.kind = "command" /\ new.running.current
                   /\ new.waiting = None
             /\ new.ticket # None =>
                   \/ new.ticket = q.ticket
                   \/ /\ r.req.kind # "command" /\ new.ticket.req = r.req
                      /\ new.ticket.reason = "none" => r.current /\ Live(r.req, tokens)
<1> DEFINE r == q.running
           ticket == IF r.req.kind = "command" THEN q.ticket
                     ELSE [req |-> r.req,
                           reason |-> IF Live(r.req, tokens) THEN r.retirement ELSE "expired"]
           e == [q EXCEPT !.running = None, !.ticket = ticket]
           d == DispatchWaiting(e)
<1>1. q \in Queues /\ q # None /\ r \in RunningRequests
  BY SoundThere DEF Queues
<1>2. ticket \in Tickets \cup {None}
  <2>1. CASE r.req.kind = "command"
    BY <1>1, <2>1 DEF Queues
  <2>2. CASE r.req.kind # "command"
    BY <1>1, <2>2 DEF RunningRequests, Tickets, Reasons
  <2>. QED BY <2>1, <2>2
<1>3. \/ ticket = q.ticket
      \/ /\ r.req.kind # "command" /\ ticket.req = r.req
         /\ ticket.reason = "none" => r.current /\ Live(r.req, tokens)
  <2>1. r.req.kind # "command" /\ r.retirement = "none" => r.current
    BY DEF Sound, QueueOK, RunningOK
  <2>. QED BY <2>1
<1>4. Complete(q, tokens) = d
  BY DEF Complete
<1> HIDE DEF ticket
<1>5. /\ e \in Queues /\ e.running = None /\ e.ticket = ticket /\ e.waiting = q.waiting
      /\ e.gen = q.gen /\ e.inc = q.inc
  BY <1>1, <1>2 DEF Queues
<1> HIDE DEF e
<1>6. Fits(p, e)
  BY <1>5 DEF Sound, QueueOK, WaitingOK, Fits, SameIdentity
<1>7. SlotsServe(e, d) /\ d.ticket = ticket
  BY <1>5, <1>6, DispatchWaitingServes
<1> HIDE DEF d
<1>. QED BY <1>3, <1>4, <1>5, <1>7 DEF SlotsServe

LEMMA TakeTicketServes ==
  ASSUME NEW p, NEW q, Sound(p, q)
  PROVE  Serves(q, TakeTicket(q)) /\ TakeTicket(q).ticket = None
<1> DEFINE e == TakeTicket(q)
<1>1. q \in Queues /\ q # None
  BY SoundThere
<1>2. e.running = q.running /\ e.ticket = None /\ e.waiting = q.waiting
  BY <1>1 DEF Queues, TakeTicket
<1> HIDE DEF e
<1>3. SlotsServe(q, e) /\ TicketAges(q, e)
  BY <1>2 DEF SlotsServe, TicketAges
<1>. QED BY <1>1, <1>2, <1>3 DEF e, Serves

LEMMA RetireContextServes ==
  ASSUME NEW p, NEW q, NEW ctx, Sound(p, q)
  PROVE  Serves(q, RetireContext(q, ctx))
<1> DEFINE m == RetireRunning(q, ctx)
           e == RetireTicket(m, ctx)
<1>1. Sound(p, m) /\ Serves(q, m)
  <2>1. CASE Runs(q, ctx)
    BY <2>1, RetireSlotServes, RetireSlotSound DEF RetireRunning, Runs, Reasons
  <2>2. CASE ~Runs(q, ctx)
    BY <2>2, SelfServes DEF RetireRunning
  <2>. QED BY <2>1, <2>2
<1> HIDE DEF m
<1>2. Serves(m, e) /\ e.running = m.running
  <2>1. CASE Owes(m, ctx)
    <3> DEFINE t == [m.ticket EXCEPT !.reason = "expired"]
               n == [m EXCEPT !.ticket = t]
    <3>1. m \in Queues /\ m # None /\ m.ticket \in Tickets
      BY <1>1, <2>1, SoundThere DEF Queues, Owes
    <3>2. t.req = m.ticket.req /\ t.reason = "expired"
      BY <3>1, TicketFacts, TicketReason DEF Reasons
    <3>3. e = n
      BY <2>1 DEF RetireTicket
    <3> HIDE DEF t
    <3>4. n.running = m.running /\ n.ticket = t /\ n.waiting = m.waiting
      BY <3>1 DEF Queues
    <3> HIDE DEF n, e
    <3>5. SlotsServe(m, n) /\ TicketAges(m, n)
      BY <2>1, <3>2, <3>4 DEF SlotsServe, TicketAges, Owes
    <3>. QED BY <3>1, <3>3, <3>4, <3>5 DEF Serves
  <2>2. CASE ~Owes(m, ctx)
    BY <2>2, SelfServes DEF RetireTicket
  <2>. QED BY <2>1, <2>2
<1>3. RetireContext(q, ctx) = e /\ m # None
  BY <1>1, SoundThere DEF RetireContext, m
<1> HIDE DEF e
<1>. QED BY <1>1, <1>2, <1>3, ServesServes

LEMMA PublicationServes ==
  ASSUME NEW p, NEW q, Sound(p, q), NEW fresh \in Tokens
  PROVE  /\ Serves(q, [q EXCEPT !.pub = fresh])
         /\ [q EXCEPT !.pub = fresh].running = q.running
<1> DEFINE e == [q EXCEPT !.pub = fresh]
<1>1. q \in Queues /\ q # None
  BY SoundThere
<1>2. e.running = q.running /\ e.ticket = q.ticket /\ e.waiting = q.waiting
  BY <1>1 DEF Queues
<1> HIDE DEF e
<1>. QED BY <1>1, <1>2 DEF e, Serves, SlotsServe, TicketAges

LEMMA RetireRequestServes ==
  ASSUME NEW p, NEW q, NEW ctx, Sound(p, q), NEW fresh \in Tokens
  PROVE  Serves(q, RetireRequest(q, ctx, fresh))
<1> DEFINE m == RetireContext(q, ctx)
<1>1. Sound(p, m) /\ Serves(q, m) /\ m # None
  BY RetireContextSound, RetireContextServes, SoundThere
<1> HIDE DEF m
<1>2. Serves(q, [m EXCEPT !.pub = fresh])
  BY <1>1, PublicationServes, ServesServes
<1>. QED BY <1>2, SelfServes DEF RetireRequest, m

LEMMA CancelServes ==
  ASSUME NEW p, NEW q, NEW ctx, Sound(p, q)
  PROVE  Serves(q, Cancel(q, ctx))
<1>0. q \in Queues /\ q # None
  BY SoundThere
<1>1. CASE Runs(q, ctx) /\ q.running.req.kind = "result"
  <2>1. Cancel(q, ctx) = [q EXCEPT !.running = Retired(q.running, "cancelled")]
    BY <1>1 DEF Cancel
  <2>. QED BY <1>1, <2>1, RetireSlotServes DEF Runs, Reasons
<1>2. CASE Runs(q, ctx) /\ q.running.req.kind # "result"
  <2> DEFINE e == [q EXCEPT !.running = None]
             d == DispatchWaiting(e)
  <2>1. /\ e \in Queues /\ e.running = None /\ e.ticket = q.ticket /\ e.waiting = q.waiting
        /\ e.gen = q.gen /\ e.inc = q.inc
    BY <1>0 DEF Queues
  <2>2. Cancel(q, ctx) = d
    BY <1>2 DEF Cancel
  <2> HIDE DEF e
  <2>3. Fits(p, e)
    BY <1>2, <2>1 DEF Sound, QueueOK, WaitingOK, Fits, SameIdentity
  <2>4. SlotsServe(e, d) /\ d.ticket = e.ticket
    BY <2>1, <2>3, DispatchWaitingServes
  <2> HIDE DEF d
  <2>5. SlotsServe(q, d) /\ TicketAges(q, d)
    BY <2>1, <2>4 DEF SlotsServe, TicketAges
  <2>. QED BY <1>0, <2>2, <2>5 DEF Serves
<1>3. CASE ~Runs(q, ctx) /\ Waits(q, ctx)
  <2> DEFINE e == [q EXCEPT !.waiting = None]
  <2>1. e.running = q.running /\ e.ticket = q.ticket /\ e.waiting = None
    BY <1>0 DEF Queues
  <2>2. Cancel(q, ctx) = e
    BY <1>3 DEF Cancel
  <2> HIDE DEF e
  <2>. QED BY <1>0, <2>1, <2>2 DEF Serves, SlotsServe, TicketAges
<1>4. CASE ~Runs(q, ctx) /\ ~Waits(q, ctx)
  BY <1>4, SelfServes DEF Cancel
<1>. QED BY <1>1, <1>2, <1>3, <1>4

LEMMA ExpireServes ==
  ASSUME NEW p, NEW q, Sound(p, q), q.running # None
  PROVE  Serves(q, ExpireRunning(q))
<1> DEFINE free == [q EXCEPT !.running = None]
           e == ExpireRunning(q)
<1>1. q \in Queues /\ q # None
  BY SoundThere
<1>2. CASE q.waiting = None
  <2>1. e.running = None /\ e.waiting = None /\ e.ticket = q.ticket
    BY <1>1, <1>2 DEF Queues, ExpireRunning, Rebind
  <2> HIDE DEF e
  <2>. QED BY <1>1, <2>1 DEF e, Serves, SlotsServe, TicketAges
<1>3. CASE q.waiting # None
  <2> DEFINE new == [q.waiting EXCEPT !.gen = q.gen + 1]
             kept == Remember(Forget(q.issued, Ctx(q.waiting)), Ctx(new))
             m == [free EXCEPT !.waiting = new, !.issued = kept]
  <2>1. Rebind(free, q.gen + 1) = m
    <3>1. free.waiting = q.waiting /\ free.issued = q.issued
      BY <1>1 DEF Queues
    <3> HIDE DEF free
    <3>. QED BY <1>3, <3>1 DEF Rebind
  <2>2. new.id = q.waiting.id
    BY <1>1, <1>3 DEF Queues, Candidates
  <2> HIDE DEF new, kept
  <2>3. e.running = None /\ e.waiting = new /\ e.ticket = q.ticket
    BY <1>1, <2>1 DEF Queues, ExpireRunning
  <2> HIDE DEF e
  <2>4. SlotsServe(q, e) /\ TicketAges(q, e)
    BY <1>3, <2>2, <2>3 DEF SlotsServe, TicketAges
  <2>. QED BY <1>1, <2>4 DEF e, Serves
<1>. QED BY <1>2, <1>3

LEMMA ReplacedServes ==
  ASSUME NEW p, NEW q, NEW gen, Sound(p, q), CanReplace(q, gen),
         NEW inc \in Nat, NEW fresh \in Tokens
  PROVE  Serves(q, RuntimeReplaced(q, inc, fresh))
<1> DEFINE w == IF q.waiting = None THEN None ELSE [q.waiting EXCEPT !.inc = inc]
           e == [q EXCEPT !.inc = inc, !.pub = fresh, !.rebuilding = FALSE, !.waiting = w]
           d == DispatchWaiting(e)
<1>1. q \in Queues /\ q # None
  BY SoundThere
<1>2. /\ w \in Candidates \cup {None}
      /\ w # None => /\ w.gen = q.waiting.gen /\ w.inc = inc /\ w.id = q.waiting.id
                     /\ w.kind = q.waiting.kind /\ w.plugin = q.waiting.plugin
                     /\ q.waiting # None
  BY <1>1 DEF Queues, Candidates
<1>3. RuntimeReplaced(q, inc, fresh) = d
  BY DEF RuntimeReplaced
<1> HIDE DEF w
<1>4. /\ e \in Queues /\ e.running = None /\ e.waiting = w /\ e.ticket = q.ticket
      /\ e.gen = q.gen /\ e.inc = inc
  BY <1>1, <1>2 DEF Queues, CanReplace
<1> HIDE DEF e
<1>5. Fits(p, e)
  BY <1>2, <1>4 DEF Sound, QueueOK, WaitingOK, Fits, SameIdentity
<1>6. SlotsServe(e, d) /\ d.ticket = e.ticket
  BY <1>4, <1>5, DispatchWaitingServes
<1> HIDE DEF d
<1>7. SlotsServe(q, d) /\ TicketAges(q, d)
  BY <1>2, <1>4, <1>6 DEF SlotsServe, TicketAges
<1>. QED BY <1>1, <1>3, <1>7 DEF Serves

LEMMA RetirePluginServes ==
  ASSUME NEW p, NEW q, Sound(p, q), NEW fresh \in Tokens
  PROVE  Serves(q, RetirePlugin(q, fresh))
<1> DEFINE t == IF q.ticket = None THEN None ELSE [q.ticket EXCEPT !.reason = "expired"]
           r == IF q.running = None THEN None ELSE Retired(q.running, "expired")
           e == [q EXCEPT !.pub = fresh, !.ticket = t, !.running = r, !.waiting = None]
<1>1. q \in Queues /\ q # None
  BY SoundThere
<1>2. t # None => q.ticket # None /\ t.req = q.ticket.req /\ t.reason = "expired"
  BY <1>1, TicketFacts, TicketReason DEF Queues, Reasons
<1>3. r # None => q.running # None /\ r.req = q.running.req /\ ~r.current
  BY <1>1, RetiredPast DEF Queues, Reasons
<1>4. RetirePlugin(q, fresh) = e
  BY DEF RetirePlugin
<1> HIDE DEF t, r
<1>5. e.running = r /\ e.ticket = t /\ e.waiting = None
  BY <1>1 DEF Queues
<1> HIDE DEF e
<1>6. SlotsServe(q, e) /\ TicketAges(q, e)
  BY <1>2, <1>3, <1>5 DEF SlotsServe, TicketAges
<1>. QED BY <1>1, <1>4, <1>6 DEF Serves

LEMMA InvalidateServes ==
  ASSUME NEW p, NEW q, Sound(p, q), NEW fresh \in Tokens
  PROVE  Serves(q, Invalidate(q, fresh)) /\ Invalidate(q, fresh).running = None
<1> DEFINE e == Invalidate(q, fresh)
<1>1. q \in Queues /\ q # None
  BY SoundThere
<1>2. e.running = None /\ e.waiting = None /\ e.ticket = q.ticket
  BY <1>1 DEF Queues, Invalidate
<1> HIDE DEF e
<1>. QED BY <1>1, <1>2 DEF e, Serves, SlotsServe, TicketAges

LEMMA ActivateServes ==
  ASSUME NEW p, NEW q, Sound(p, q), NEW gen \in Nat, NEW inc \in Nat, NEW fresh \in Tokens
  PROVE  Serves(q, Activate(q, gen, inc, fresh)) /\ Activate(q, gen, inc, fresh).running = None
<1> DEFINE e == Activate(q, gen, inc, fresh)
<1>1. q \in Queues /\ q # None
  BY SoundThere
<1>2. e.running = None /\ e.waiting = None /\ e.ticket = q.ticket
  BY <1>1 DEF Queues, Activate, Invalidate
<1> HIDE DEF e
<1>. QED BY <1>1, <1>2 DEF e, Serves, SlotsServe, TicketAges

\* What is there, retired or invalidated.
LEMMA RetireIfAnyServes ==
  ASSUME NEW p, NEW q, q # None => Sound(p, q), NEW fresh \in Tokens
  PROVE  Serves(q, RetireIfAny(q, fresh))
  BY SelfServes, RetirePluginServes DEF RetireIfAny
LEMMA InvalidateIfAnyServes ==
  ASSUME NEW p, NEW q, q # None => Sound(p, q), NEW fresh \in Tokens
  PROVE  Serves(q, InvalidateIfAny(q, fresh))
  BY SelfServes, InvalidateServes DEF InvalidateIfAny
LEMMA RetireInvalidateServes ==
  ASSUME NEW p, NEW q, q # None => Sound(p, q), NEW fresh \in Tokens
  PROVE  Serves(q, InvalidateIfAny(RetireIfAny(q, fresh), fresh))
<1> DEFINE m == RetireIfAny(q, fresh)
<1>1. (m # None => Sound(p, m)) /\ Serves(q, m)
  BY RetireIfAnySound, RetireIfAnyServes
<1> HIDE DEF m
<1>2. /\ Serves(m, InvalidateIfAny(m, fresh)) /\ (m = None => InvalidateIfAny(m, fresh) = None)
      /\ m # None => InvalidateIfAny(m, fresh).running = None
  BY <1>1, InvalidateIfAnyServes, InvalidateServes DEF InvalidateIfAny
<1>. QED BY <1>1, <1>2, ServesServes DEF m

-----------------------------------------------------------------------------
(* Admission *)

\* Of a queue that admits c: c waits, or takes the slot; a request that it finds in the
\* slot loses its authority.
Admits(q, new, c) ==
    /\ new.waiting # None =>
          \/ new.waiting.id = c.id /\ c.kind = "command"
          \/ q.waiting # None /\ new.waiting.id = q.waiting.id
    /\ new.running # None =>
          \/ /\ q.running # None /\ new.running.req = q.running.req
             /\ new.running.current => q.running.current
          \/ new.running.req = c /\ new.running.current /\ new.waiting = None
    /\ new.waiting # None /\ new.running # None => ~new.running.current
    /\ TicketAges(q, new)

LEMMA SupersededPast ==
  ASSUME NEW r \in RunningRequests
  PROVE  ~Superseded(r).current
  BY SupersededFacts

LEMMA EnqueueAdmits ==
  ASSUME NEW p, NEW q, Sound(p, q), NEW c \in Candidates, c.plugin = p, Accepts(q, c)
  PROVE  /\ Admits(q, Enqueue(q, c), c)
         /\ c.kind = "content" => /\ Enqueue(q, c).running # None
                                  /\ Enqueue(q, c).running.req = c
<1> DEFINE ticket == IF c.kind # "command" THEN None
                     ELSE IF PendingTicket(q) THEN [q.ticket EXCEPT !.reason = "cancelled"]
                     ELSE q.ticket
           known == [q EXCEPT !.ticket = ticket, !.issued = Remember(@, Ctx(c))]
           e == Enqueue(q, c)
<1>1. q \in Queues /\ q # None /\ e \in Queues
  BY EnqueueSound, SoundThere
<1>2. ticket # None => /\ q.ticket # None /\ ticket.req = q.ticket.req
                       /\ ticket.reason = "none" => q.ticket.reason = "none"
  BY <1>1, TicketFacts, TicketReason DEF PendingTicket, Queues, Reasons
<1> HIDE DEF ticket
<1>3. /\ known.running = q.running /\ known.waiting = q.waiting /\ known.ticket = ticket
      /\ known.rebuilding = q.rebuilding /\ known.gen = q.gen /\ known.inc = q.inc
  BY <1>1 DEF Queues
<1> DEFINE kept == [known EXCEPT !.waiting = c]
           busy == [known EXCEPT !.waiting = c, !.running = Superseded(known.running)]
           started == Start(known, c)
<1>4. /\ kept.ticket = ticket /\ kept.waiting = c /\ kept.running = q.running
      /\ busy.ticket = ticket /\ busy.waiting = c /\ busy.running = Superseded(q.running)
  BY <1>1 DEF Queues
<1>5. /\ started.ticket = ticket /\ started.waiting = q.waiting
      /\ started.running.req = c /\ started.running.current
      /\ started.running \in RunningRequests
  BY <1>1 DEF Queues, Start, RunningRequests, Reasons
<1>6. c.kind # "result" /\ (c.kind # "command" => SlotsFree(q)) /\ SameIdentity(q, c)
      /\ c.kind \in {"command", "content", "result"}
  BY DEF Accepts, Candidates, Kinds
<1>7. q.waiting # None => q.running # None \/ q.rebuilding
  BY DEF Sound, QueueOK, WaitingOK
<1>8. q.running # None => ~q.rebuilding
  BY DEF Sound, QueueOK, RunningOK
<1>9. /\ q.rebuilding => e = kept
      /\ ~q.rebuilding /\ q.running # None => e = busy
      /\ ~q.rebuilding /\ q.running = None => e = Dispatch(known, c)
  BY <1>1 DEF Enqueue, Queues, ticket
<1>10. Dispatch(known, c) = IF q.running = None /\ ~q.rebuilding THEN started ELSE known
  BY <1>3, <1>6 DEF Dispatch, CanDispatch, SameIdentity
<1>11. q.running # None => /\ Superseded(q.running).req = q.running.req
                           /\ ~Superseded(q.running).current
  BY <1>1, SupersededFacts, SupersededPast DEF Queues
<1>12. None \notin RunningRequests /\ None \notin Candidates
  BY NoneAssumption
<1> HIDE DEF known, e, kept, busy, started
<1>13. CASE q.rebuilding
  BY <1>2, <1>4, <1>6, <1>8, <1>9, <1>13 DEF Admits, TicketAges, SlotsFree, e
<1>14. CASE ~q.rebuilding /\ q.running # None
  BY <1>2, <1>4, <1>6, <1>9, <1>11, <1>14 DEF Admits, TicketAges, SlotsFree, e
<1>15. CASE ~q.rebuilding /\ q.running = None
  <2>1. e = started /\ started.running # None /\ q.waiting = None
    <3>1. e = started /\ q.waiting = None
      BY <1>7, <1>9, <1>10, <1>15
    <3>2. started.running # None
      BY <1>5, <1>12
    <3>. QED BY <3>1, <3>2
  <2>. QED BY <1>2, <1>5, <2>1 DEF Admits, TicketAges, e
<1>. QED BY <1>13, <1>14, <1>15

LEMMA AdmitResultAdmits ==
  ASSUME NEW p, NEW q, Sound(p, q), NEW c \in Candidates, c.plugin = p, AdmitsResult(q, c)
  PROVE  Admits(q, AdmitResult(q, c), c)
<1> DEFINE e == AdmitResult(q, c)
<1>1. q \in Queues /\ q # None
  BY SoundThere
<1>2. /\ e.running.req = c /\ e.running.current /\ e.waiting = q.waiting /\ e.ticket = None
  BY <1>1 DEF AdmitResult, Start, Queues
<1>3. q.waiting = None
  BY DEF AdmitsResult, SlotsFree
<1> HIDE DEF e
<1>. QED BY <1>2, <1>3 DEF Admits, TicketAges, e

-----------------------------------------------------------------------------
(* Steps in which requests only age *)

\* Nothing that is referred to comes back to life.
NoRevival == \A t \in Referenced : t \in live' => t \in live
QueuesServe == \A x \in Plugins : Serves(queue[x], queue'[x])
\* Queues serve, and requests and answers leave; what is delivered was owed.
Serving ==
    /\ NoRevival /\ QueuesServe /\ UNCHANGED nextRequest
    /\ prepared' \subseteq prepared /\ answers' \subseteq answers /\ finishing' \subseteq finishing
    /\ \A r \in Requests : /\ r \in delivered => r \in delivered'
                           /\ r \in delivered' => r \in delivered \/ Owed(r)
\* Requests age, and stay where one request may be.
Aging == \E x : Ages(x) /\ PreparedOnce' /\ SlotsYield'

\* No request that executes or completed gets its authority back.
LEMMA LiveAgain ==
  ASSUME HostInv, TokensInv, NoRevival
  PROVE  /\ \A p \in Plugins : queue[p] # None /\ queue[p].running # None =>
               (Live(queue[p].running.req, live') => Live(queue[p].running.req, live))
         /\ \A f \in finishing : f.req.lease \in live' => f.req.lease \in live
         /\ \A a \in answers : a.pub \in live' => a.pub \in live
<1>1. \A c \in ResultsHeld : c.pub \in Referenced /\ c.lease \in Referenced
  BY ReferencedFacts
<1>2. ASSUME NEW p \in Plugins, queue[p] # None, queue[p].running # None,
             queue[p].running.req.kind = "result"
      PROVE  queue[p].running.req \in ResultsHeld
  BY <1>2 DEF ResultsHeld, ResultsIn, RunsIn
<1>3. \A f \in finishing : f.req \in ResultsHeld
  BY DEF TokensInv, ClaimsOK, ResultsHeld
<1>4. \A a \in answers : a.pub \in Referenced
  BY ReferencedFacts
<1>. QED BY <1>1, <1>2, <1>3, <1>4 DEF NoRevival, Live

LEMMA ServingAging ==
  ASSUME HostInv, TokensInv, PlacesInv, Serving
  PROVE  Aging
<1>1. /\ \A p \in Plugins : queue[p] # None /\ queue[p].running # None =>
            (Live(queue[p].running.req, live') => Live(queue[p].running.req, live))
      /\ \A f \in finishing : f.req.lease \in live' => f.req.lease \in live
      /\ \A a \in answers : a.pub \in live' => a.pub \in live
  BY LiveAgain DEF Serving
<1>2. PreparedOnce'
  BY DEF Serving, PreparedOnce, PlacesInv
<1>3. SlotsYield'
  BY ServesYields DEF Serving, QueuesServe, SlotsYield, PlacesInv
<1>4. ASSUME NEW p \in Plugins, NEW r \in Requests
      PROVE  AgesAt(0, p, r)
  <2>1. Serves(queue[p], queue'[p])
    BY DEF Serving, QueuesServe
  <2>2. PreparedAt(p, r)' => PreparedAt(p, r)
    BY DEF Serving, PreparedAt
  <2>3. WaitsAt(p, r)' => WaitsAt(p, r)
    BY <2>1 DEF Serves, SlotsServe, EmptyQueue, WaitsAt
  <2>4. WaitsAt(p, r) => ~PreparedAt(p, r)
    BY DEF PlacesInv, PlacedOnce
  <2>5. ASSUME RunsAt(p, r)', ~RunsAt(p, r)
        PROVE  WaitsAt(p, r) /\ ~WaitsAt(p, r)' /\ CurrentAt(p, r)'
    <3>1. /\ queue[p] # None /\ queue'[p] # None /\ queue'[p].running # None
          /\ queue'[p].running.req.id = r
          /\ queue[p].waiting # None /\ queue[p].waiting.id = r
          /\ queue'[p].running.req.kind = "command" /\ queue'[p].running.current
          /\ queue'[p].waiting = None
      BY <2>1, <2>5 DEF Serves, SlotsServe, EmptyQueue, RunsAt
    <3>. QED BY <3>1 DEF WaitsAt, CurrentAt, RunsAt, Live
  <2>6. ASSUME RunsAt(p, r), CurrentAt(p, r)'
        PROVE  CurrentAt(p, r)
    <3>1. ~WaitsAt(p, r)
      BY <2>6 DEF PlacesInv, PlacedOnce
    <3>2. /\ queue[p] # None /\ queue[p].running # None
          /\ queue'[p].running.req = queue[p].running.req
          /\ queue[p].running.current /\ Live(queue[p].running.req, live')
      BY <2>1, <2>6, <3>1 DEF Serves, SlotsServe, EmptyQueue, RunsAt, CurrentAt, WaitsAt
    <3>. QED BY <1>1, <2>6, <3>2 DEF CurrentAt
  <2>. QED BY <2>2, <2>3, <2>4, <2>5, <2>6 DEF AgesAt
<1>5. ASSUME NEW r \in Requests
      PROVE  Settles(r)
  <2>1. ASSUME NEW p \in OwesId(r)'
        PROVE  /\ p \in OwesId(r) /\ queue'[p].ticket.req = queue[p].ticket.req
               /\ queue'[p].ticket.reason = "none" => queue[p].ticket.reason = "none"
    BY <2>1 DEF OwesId, Queued, Serving, QueuesServe, Serves, TicketAges, EmptyQueue
  <2>2. Unsettled(r)' => Unsettled(r)
    BY <2>1 DEF Unsettled, Serving
  <2>3. OwedContent(r)' => OwedContent(r)
    BY <2>1 DEF OwedContent
  <2>4. OwedCommand(r)' => OwedCommand(r)
    BY <1>1 DEF OwedCommand, Serving
  <2>5. OwedResult(r)' => OwedResult(r)
    BY <1>1, <2>1 DEF OwedResult, Serving
  <2>. QED BY <2>2, <2>3, <2>4, <2>5 DEF Settles, Owed, Serving
<1>6. NumberTakenBy(0)
  BY DEF Serving, NumberTakenBy
<1>7. Ages(0)
  BY <1>4, <1>5, <1>6 DEF Ages
<1>. QED BY <1>2, <1>3, <1>7 DEF Aging

-----------------------------------------------------------------------------
(* Requests that arrive *)

LEMMA ReserveAging ==
  ASSUME HostInv, TokensInv, PlacesInv, NEW c, c.plugin \in Plugins, c.id = nextRequest,
         prepared' = prepared \cup {c}, nextRequest' = nextRequest + 1,
         UNCHANGED <<scheduler, service>>
  PROVE  Aging
<1> DEFINE x == c.plugin
<1>1. nextRequest \in Nat /\ Requests \subseteq Nat
  BY HostAssumption DEF HostInv, RequestsOK
<1>2. \A d \in prepared : d.id # nextRequest
  <2> SUFFICES ASSUME NEW d \in prepared, d.id = nextRequest PROVE FALSE
    OBVIOUS
  <2>1. d.plugin \in Plugins /\ d.id \in Requests /\ PreparedAt(d.plugin, d.id)
    BY DEF PreparedAt, HostInv, RequestsOK, Candidates
  <2>2. nextRequest < nextRequest
    BY <2>1 DEF PlacesInv, PlacedOnce, HeldAt
  <2>. QED BY <1>1, <2>2
<1>3. PreparedOnce'
  BY <1>2 DEF PlacesInv, PreparedOnce
<1>4. SlotsYield'
  BY DEF PlacesInv, SlotsYield, scheduler
<1>5. ASSUME NEW p \in Plugins, NEW r \in Requests
      PROVE  AgesAt(x, p, r)
  <2>1. PreparedAt(p, r)' => PreparedAt(p, r) \/ Takes(x, p, r)
    BY DEF PreparedAt, Takes
  <2>2. /\ WaitsAt(p, r)' <=> WaitsAt(p, r)
        /\ RunsAt(p, r)' <=> RunsAt(p, r)
        /\ CurrentAt(p, r)' <=> CurrentAt(p, r)
    BY DEF WaitsAt, RunsAt, CurrentAt, scheduler
  <2>. QED BY <2>1, <2>2 DEF AgesAt
<1>6. \A r \in Requests : Settles(r)
  BY DEF Settles, Unsettled, Owed, OwedContent, OwedCommand, OwedResult, OwesId, Queued,
         scheduler, service
<1>7. NumberTakenBy(x)
  BY DEF NumberTakenBy, PreparedAt
<1>8. Ages(x)
  BY <1>5, <1>6, <1>7 DEF Ages
<1>. QED BY <1>3, <1>4, <1>8 DEF Aging

\* A prepared request, or a content action under the next number, is admitted to queue
\* q of plugin p: the one found, or a new one.
FromPrepared(c) == c \in prepared /\ prepared' = prepared \ {c} /\ UNCHANGED nextRequest
FromNumber(c, new) ==
    /\ c.id = nextRequest /\ c.kind # "command" /\ nextRequest' = nextRequest + 1
    /\ UNCHANGED prepared
    /\ new.running # None /\ new.running.req = c

\* What has the next number is nowhere yet, and what is prepared is nowhere else.
LEMMA ArrivesNew ==
  ASSUME HostInv, PlacesInv, NEW c \in Candidates, c \in prepared \/ c.id = nextRequest
  PROVE  /\ c.plugin \in Plugins /\ c.id \in Requests
         /\ ~WaitsAt(c.plugin, c.id) /\ ~RunsAt(c.plugin, c.id)
         /\ c \in prepared => PreparedAt(c.plugin, c.id)
         /\ \A d \in prepared : d.id = c.id => d = c
<1>1. c.plugin \in Plugins /\ c.id \in Requests
  BY DEF Candidates
<1>2. nextRequest \in Nat /\ Requests \subseteq Nat
  BY HostAssumption DEF HostInv, RequestsOK
<1>3. \A d \in prepared : d.plugin \in Plugins /\ d.id \in Requests /\ PreparedAt(d.plugin, d.id)
  BY DEF PreparedAt, HostInv, RequestsOK, Candidates
<1>4. CASE c \in prepared
  BY <1>1, <1>3, <1>4 DEF PlacesInv, PlacedOnce, PreparedOnce
<1>5. CASE c.id = nextRequest
  <2>1. ~(c.id < nextRequest)
    BY <1>2, <1>5
  <2>2. \A p \in Plugins : ~HeldAt(p, c.id)
    BY <1>1, <2>1 DEF PlacesInv, PlacedOnce
  <2>3. \A d \in prepared : d.id # c.id
    BY <1>3, <2>2 DEF HeldAt
  <2>. QED BY <1>1, <1>3, <2>2, <2>3 DEF HeldAt
<1>. QED BY <1>4, <1>5

LEMMA AdmitAging ==
  ASSUME HostInv, TokensInv, PlacesInv, NoRevival,
         NEW c \in Candidates, NEW p, p = c.plugin, NEW q, NEW new, new # None,
         q = queue[p] \/ (queue[p] = None /\ EmptyQueue(q)), Admits(q, new, c),
         \A x \in Plugins : queue'[x] = IF x = p THEN new ELSE queue[x],
         Live(c, live'), UNCHANGED <<answers, finishing, delivered>>,
         FromPrepared(c) \/ FromNumber(c, new), q # None
  PROVE  Aging
<1>1. /\ \A x \in Plugins : queue[x] # None /\ queue[x].running # None =>
            (Live(queue[x].running.req, live') => Live(queue[x].running.req, live))
      /\ \A f \in finishing : f.req.lease \in live' => f.req.lease \in live
      /\ \A a \in answers : a.pub \in live' => a.pub \in live
  BY LiveAgain
<1>2. /\ p \in Plugins /\ c.id \in Requests
      /\ ~WaitsAt(p, c.id) /\ ~RunsAt(p, c.id)
      /\ c \in prepared => PreparedAt(p, c.id)
      /\ \A d \in prepared : d.id = c.id => d = c
  BY ArrivesNew DEF FromPrepared, FromNumber
<1>3. /\ prepared' \subseteq prepared
      /\ \A x : ~PreparedAt(x, c.id)'
      /\ PreparedAt(p, c.id) \/ Takes(p, p, c.id)
      /\ c.kind = "command" => PreparedAt(p, c.id)
  <2>1. CASE FromPrepared(c)
    BY <1>2, <2>1 DEF FromPrepared, PreparedAt
  <2>2. CASE FromNumber(c, new)
    <3>1. c \notin prepared
      <4>1. nextRequest \in Nat
        BY DEF HostInv, RequestsOK
      <4>2. c \in prepared => c.id < nextRequest
        BY <1>2 DEF PlacesInv, PlacedOnce, HeldAt
      <4>. QED BY <2>2, <4>1, <4>2 DEF FromNumber
    <3>2. \A x : ~PreparedAt(x, c.id)
      BY <1>2, <3>1 DEF PreparedAt
    <3>3. \A x : PreparedAt(x, c.id)' <=> PreparedAt(x, c.id)
      BY <2>2 DEF FromNumber, PreparedAt
    <3>. QED BY <2>2, <3>2, <3>3 DEF FromNumber, Takes
  <2>. QED BY <2>1, <2>2
<1>4. PreparedOnce'
  BY <1>3 DEF PreparedOnce, PlacesInv
<1>5. SlotsYield'
  BY DEF SlotsYield, YieldsOne, PlacesInv, Admits
<1>6. ASSUME NEW r \in Requests
      PROVE  AgesAt(p, p, r)
  <2>1. PreparedAt(p, r)' => PreparedAt(p, r)
    BY <1>3 DEF PreparedAt
  <2>2. queue'[p] = new
    BY <1>2
  <2>3. WaitsAt(p, r)' => WaitsAt(p, r) \/ (r = c.id /\ c.kind = "command")
    BY <2>2 DEF WaitsAt, Admits, EmptyQueue
  <2>4. ASSUME RunsAt(p, r)'
        PROVE  \/ /\ queue[p] # None /\ queue[p].running # None
                  /\ queue[p].running.req = queue'[p].running.req
                  /\ queue'[p].running.current => queue[p].running.current
               \/ r = c.id /\ ~WaitsAt(p, r)' /\ CurrentAt(p, r)'
    <3>1. new.running # None /\ new.running.req.id = r
      BY <2>2, <2>4 DEF RunsAt
    <3>2. CASE /\ q.running # None /\ new.running.req = q.running.req
               /\ new.running.current => q.running.current
      BY <2>2, <3>2 DEF EmptyQueue
    <3>3. CASE new.running.req = c /\ new.running.current /\ new.waiting = None
      BY <2>2, <2>4, <3>1, <3>3 DEF WaitsAt, CurrentAt
    <3>. QED BY <3>1, <3>2, <3>3 DEF Admits
  <2>5. RunsAt(p, r) /\ CurrentAt(p, r)' => CurrentAt(p, r)
    BY <1>1, <1>2, <2>4 DEF CurrentAt, RunsAt
  <2>6. RunsAt(p, r)' =>
          \/ RunsAt(p, r)
          \/ r = c.id /\ ~WaitsAt(p, r)' /\ CurrentAt(p, r)'
    BY <2>4 DEF RunsAt
  <2>. QED BY <1>3, <2>1, <2>3, <2>5, <2>6 DEF AgesAt
<1>7. ASSUME NEW x \in Plugins, x # p, NEW r \in Requests
      PROVE  AgesAt(p, x, r)
  <2>1. PreparedAt(x, r)' => PreparedAt(x, r)
    BY <1>3 DEF PreparedAt
  <2>2. queue'[x] = queue[x]
    BY <1>7
  <2>3. (WaitsAt(x, r)' <=> WaitsAt(x, r)) /\ (RunsAt(x, r)' <=> RunsAt(x, r))
    BY <2>2 DEF WaitsAt, RunsAt
  <2>4. CurrentAt(x, r)' => CurrentAt(x, r)
    BY <1>1, <2>2, <2>3 DEF CurrentAt, RunsAt
  <2>. QED BY <2>1, <2>3, <2>4 DEF AgesAt
<1>8. ASSUME NEW r \in Requests
      PROVE  Settles(r)
  <2>1. ASSUME NEW x \in OwesId(r)'
        PROVE  /\ x \in OwesId(r) /\ queue'[x].ticket.req = queue[x].ticket.req
               /\ queue'[x].ticket.reason = "none" => queue[x].ticket.reason = "none"
    BY <2>1 DEF OwesId, Queued, Admits, TicketAges, EmptyQueue
  <2>2. Unsettled(r)' => Unsettled(r)
    BY <2>1 DEF Unsettled
  <2>3. OwedContent(r)' => OwedContent(r)
    BY <2>1 DEF OwedContent
  <2>4. OwedCommand(r)' => OwedCommand(r)
    BY <1>1 DEF OwedCommand
  <2>5. OwedResult(r)' => OwedResult(r)
    BY <1>1, <2>1 DEF OwedResult
  <2>. QED BY <2>2, <2>3, <2>4, <2>5 DEF Settles, Owed
<1>9. NumberTakenBy(p)
  <2>2. ASSUME FromNumber(c, new), NEW r \in Requests, r = nextRequest
        PROVE  RunsAt(p, r)'
    BY <1>2, <2>2 DEF FromNumber, RunsAt
  <2>. QED BY <1>2, <2>2 DEF FromNumber, FromPrepared, NumberTakenBy
<1>10. Ages(p)
  BY <1>6, <1>7, <1>8, <1>9 DEF Ages
<1>. QED BY <1>4, <1>5, <1>10 DEF Aging
-----------------------------------------------------------------------------
(* Steps that only let requests age *)

\* A queue moves; requests and answers stay or leave.
LEMMA CalmServing ==
  ASSUME HostInv, NEW p \in Plugins, NEW new, SetQueue(p, new),
         Moves(queue[p], new, Fresh), Serves(queue[p], new), UNCHANGED nextRequest,
         prepared' \subseteq prepared, answers' \subseteq answers, finishing' \subseteq finishing,
         \A r \in Requests : /\ r \in delivered => r \in delivered'
                             /\ r \in delivered' => r \in delivered \/ Owed(r)
  PROVE  Serving
<1>1. queue \in [Plugins -> Queues \cup {None}]
  BY DEF HostInv, QueuesOK
<1>2. \A x \in Plugins : queue'[x] = IF x = p THEN new ELSE queue[x]
  BY <1>1 DEF SetQueue
<1>3. QueuesServe
  BY <1>2, SelfServes DEF QueuesServe
<1>4. NoRevival
  BY SetQueueKept DEF Moves, Kept, NoRevival
<1>. QED BY <1>3, <1>4 DEF Serving

\* One queue moves and the answers are as they were.
LEMMA CalmAging ==
  ASSUME HostInv, TokensInv, PlacesInv, NEW p \in Plugins, NEW new, SetQueue(p, new),
         Moves(queue[p], new, Fresh), Serves(queue[p], new),
         UNCHANGED <<nextRequest, prepared, service>>
  PROVE  Aging
  BY CalmServing, ServingAging DEF service

\* No queue changes and nothing comes to life.
LEMMA StillAging ==
  ASSUME HostInv, TokensInv, PlacesInv, UNCHANGED <<queue, nextRequest>>,
         live' \subseteq live, prepared' \subseteq prepared,
         UNCHANGED <<answers, finishing, delivered>>
  PROVE  Aging
<1>1. Serving
  BY SelfServes DEF Serving, NoRevival, QueuesServe
<1>. QED BY <1>1, ServingAging

LEMMA AsideAging ==
  ASSUME HostInv, TokensInv, PlacesInv, UNCHANGED <<scheduler, nextRequest, service>>,
         prepared' \subseteq prepared
  PROVE  Aging
  BY StillAging DEF scheduler, service

LEMMA AbortUnboundAging ==
  ASSUME HostInv, TokensInv, PlacesInv, NEW p \in Plugins, AbortUnbound(p)
  PROVE  Aging
<1> DEFINE new == Cancel(queue[p], Ctx(queue[p].running.req))
<1>1. queue[p] # None
  BY DEF AbortUnbound, Unbound
<1>2. Moves(queue[p], new, Fresh) /\ Serves(queue[p], new)
  BY <1>1, ThereSound, CancelSound, CancelMoves, CancelServes, SameSoundMoves
<1>3. SetQueue(p, new) /\ UNCHANGED <<nextRequest, prepared, service>>
  BY DEF AbortUnbound
<1>. QED BY <1>2, <1>3, CalmAging

LEMMA SettleContentAging ==
  ASSUME HostInv, TokensInv, PlacesInv, NEW p \in Plugins, SettleContent(p)
  PROVE  Aging
<1> DEFINE new == TakeTicket(queue[p])
<1>1. queue[p] # None /\ queue[p].ticket # None /\ queue[p].ticket.req.kind = "content"
  BY DEF SettleContent
<1>2. Moves(queue[p], new, Fresh) /\ Serves(queue[p], new)
  BY <1>1, ThereSound, TakeTicketSound, TakeTicketMoves, TakeTicketServes, SameSoundMoves
<1>3. /\ SetQueue(p, new) /\ UNCHANGED <<nextRequest, prepared, answers, finishing>>
      /\ \/ UNCHANGED delivered
         \/ /\ queue[p].ticket.reason = "none"
            /\ delivered' = delivered \cup {queue[p].ticket.req.id}
  BY DEF SettleContent
<1>4. queue[p].ticket.reason = "none" => Owed(queue[p].ticket.req.id)
  BY <1>1 DEF Owed, OwedContent, OwesId, Queued
<1> HIDE DEF new
<1>5. Serving
  BY <1>2, <1>3, <1>4, CalmServing
<1>. QED BY <1>5, ServingAging

LEMMA RetireContentAging ==
  ASSUME HostInv, TokensInv, PlacesInv, NEW p \in Plugins, RetireContent(p)
  PROVE  Aging
<1>1. PICK ctx : SetQueue(p, RetireContext(queue[p], ctx))
  BY DEF RetireContent
<1>2. Moves(queue[p], RetireContext(queue[p], ctx), Fresh)
  BY ThereSound, RetireContextSound, RetireContextMoves, SameSoundMoves DEF RetireContent
<1>3. Serves(queue[p], RetireContext(queue[p], ctx))
  BY ThereSound, RetireContextServes DEF RetireContent
<1>. QED BY <1>1, <1>2, <1>3, CalmAging DEF RetireContent

LEMMA CancelRequestAging ==
  ASSUME HostInv, TokensInv, PlacesInv, NEW p \in Plugins, CancelRequest(p)
  PROVE  Aging
<1>1. PICK ctx : SetQueue(p, Cancel(queue[p], ctx))
  BY DEF CancelRequest
<1>2. Moves(queue[p], Cancel(queue[p], ctx), Fresh)
  BY ThereSound, CancelSound, CancelMoves, SameSoundMoves DEF CancelRequest
<1>3. Serves(queue[p], Cancel(queue[p], ctx))
  BY ThereSound, CancelServes DEF CancelRequest
<1>. QED BY <1>1, <1>2, <1>3, CalmAging DEF CancelRequest

LEMMA RetireServiceAging ==
  ASSUME HostInv, TokensInv, PlacesInv, NEW p \in Plugins, RetireService(p)
  PROVE  Aging
<1>1. Sound(p, queue[p])
  BY ThereSound DEF RetireService
<1>2. CASE \E ctx \in HeldContexts(queue[p]) : SetQueue(p, RetireRequest(queue[p], ctx, Fresh))
  <2>1. PICK ctx : SetQueue(p, RetireRequest(queue[p], ctx, Fresh))
    BY <1>2
  <2>2. /\ Moves(queue[p], RetireRequest(queue[p], ctx, Fresh), Fresh)
        /\ Serves(queue[p], RetireRequest(queue[p], ctx, Fresh))
    BY <1>1, <2>1, SetQueueFresh, RetireRequestMoves, RetireRequestServes
  <2>. QED BY <2>1, <2>2, CalmAging DEF RetireService
<1>3. CASE SetQueue(p, [queue[p] EXCEPT !.pub = Fresh])
  <2>1. Moves(queue[p], [queue[p] EXCEPT !.pub = Fresh], Fresh)
    BY <1>1, <1>3, SetQueueFresh, PublicationMoves, PublicationSound, FreshMoves
  <2>2. Serves(queue[p], [queue[p] EXCEPT !.pub = Fresh])
    BY <1>1, <1>3, SetQueueFresh, PublicationServes
  <2>. QED BY <1>3, <2>1, <2>2, CalmAging DEF RetireService
<1>. QED BY <1>2, <1>3 DEF RetireService

LEMMA RecoverRuntimeAging ==
  ASSUME HostInv, TokensInv, PlacesInv, NEW c \in prepared, RecoverRuntime(c)
  PROVE  Aging
<1>1. prepared' \subseteq prepared /\ UNCHANGED <<scheduler, nextRequest, service>>
  BY DEF RecoverRuntime
<1>. QED BY <1>1, AsideAging
-----------------------------------------------------------------------------
(* Management and timeouts only let requests age *)

LEMMA BeginUninstallAging ==
  ASSUME HostInv, TokensInv, PlacesInv, NEW p \in Plugins, NEW kind, BeginUninstall(p, kind)
  PROVE  Aging
<1> DEFINE new == IF kind = "purge" THEN None
                  ELSE InvalidateIfAny(RetireIfAny(queue[p], Fresh), Fresh)
<1>1. SetQueue(p, new) /\ UNCHANGED <<nextRequest, prepared, service>>
  BY DEF BeginUninstall
<1>2. Moves(queue[p], new, Fresh) /\ Serves(queue[p], new)
  <2>1. CASE kind = "purge"
    BY <2>1, NoneHolds DEF Moves, Exchanged, Serves
  <2>2. CASE kind # "purge"
    BY <1>1, <2>2, ThereSound, SetQueueFresh, RetireInvalidateMoves, RetireInvalidateServes
  <2>. QED BY <2>1, <2>2
<1> HIDE DEF new
<1>. QED BY <1>1, <1>2, CalmAging

LEMMA CommitChangeAging ==
  ASSUME HostInv, TokensInv, PlacesInv, NEW p \in Plugins, CommitChange(p)
  PROVE  Aging
<1>1. /\ Moves(queue[p], RetireIfAny(queue[p], Fresh), Fresh)
      /\ Serves(queue[p], RetireIfAny(queue[p], Fresh))
  BY ThereSound, SetQueueFresh, RetireIfAnyMoves, RetireIfAnyServes DEF CommitChange
<1>. QED BY <1>1, CalmAging DEF CommitChange

LEMMA CommitDisableAging ==
  ASSUME HostInv, TokensInv, PlacesInv, NEW p \in Plugins, CommitDisable(p)
  PROVE  Aging
<1> DEFINE new == InvalidateIfAny(RetireIfAny(queue[p], Fresh), Fresh)
<1>1. SetQueue(p, new) /\ UNCHANGED <<nextRequest, prepared, service>>
  BY DEF CommitDisable
<1>2. Moves(queue[p], new, Fresh) /\ Serves(queue[p], new)
  BY <1>1, ThereSound, SetQueueFresh, RetireInvalidateMoves, RetireInvalidateServes
<1> HIDE DEF new
<1>. QED BY <1>1, <1>2, CalmAging

LEMMA PublishFaultAging ==
  ASSUME HostInv, TokensInv, PlacesInv, NEW p \in Plugins, PublishFault(p)
  PROVE  Aging
<1>1. /\ Moves(queue[p], InvalidateIfAny(queue[p], Fresh), Fresh)
      /\ Serves(queue[p], InvalidateIfAny(queue[p], Fresh))
  BY ThereSound, SetQueueFresh, InvalidateIfAnyMoves, InvalidateIfAnyServes DEF PublishFault
<1>. QED BY <1>1, CalmAging DEF PublishFault

LEMMA CommitActivationAging ==
  ASSUME HostInv, TokensInv, PlacesInv, NEW p \in Plugins, CommitActivation(p)
  PROVE  Aging
<1> DEFINE o == op[p]
           q == RetireIfAny(queue[p], Fresh)
           new == IF q = None THEN NewQueue(o.gen, o.inc, Fresh)
                  ELSE Activate(q, o.gen, o.inc, Fresh)
<1>1. /\ SetQueue(p, new) \/ SetQueue(p, q)
      /\ UNCHANGED <<nextRequest, prepared, service>>
  BY DEF CommitActivation
<1>2. Fresh \in Tokens
  BY <1>1, SetQueueFresh
<1>3. /\ Moves(queue[p], q, Fresh) /\ (q # None => Sound(p, q))
      /\ Serves(queue[p], q)
  BY <1>2, ThereSound, RetireIfAnyMoves, RetireIfAnySound, RetireIfAnyServes
<1>4. o.gen \in Nat /\ o.inc \in Nat
  BY DEF CommitActivation, HostInv, ManagerOK, Operations
<1> HIDE DEF q
<1>5. Moves(queue[p], new, Fresh) /\ Serves(queue[p], new)
  <2>1. CASE q = None
    <3>1. Sound(p, new) /\ new.pub = Fresh
      BY <1>2, <1>4, <2>1, NewQueueSound DEF NewQueue
    <3>2. Holds(queue[p], new) /\ Serves(queue[p], new)
      BY <2>1, NewHolds, NewServes
    <3>. QED BY <3>1, <3>2, FreshMoves
  <2>2. CASE q # None
    <3>1. Sound(p, new) /\ new.pub = Fresh /\ Holds(q, new)
      BY <1>2, <1>3, <1>4, <2>2, ActivateMoves, ActivateSound
    <3>2. Holds(queue[p], new)
      BY <1>3, <3>1 DEF Moves, Holds
    <3>3. Serves(q, new) /\ new.running = None
      BY <1>2, <1>3, <1>4, <2>2, ActivateServes
    <3>4. Serves(queue[p], new)
      BY <1>3, <2>2, <3>3, ServesServes
    <3>. QED BY <3>1, <3>2, <3>4, FreshMoves
  <2>. QED BY <2>1, <2>2
<1> HIDE DEF new, o
<1>. QED BY <1>1, <1>3, <1>5, CalmAging

LEMMA UnknownOutcomeAging ==
  ASSUME HostInv, TokensInv, PlacesInv, NEW p \in Plugins, UnknownOutcome(p)
  PROVE  Aging
<1> DEFINE new == RetireIfAny(queue[p], Fresh)
<1>1. /\ SetQueue(p, new) \/ UNCHANGED scheduler
      /\ UNCHANGED <<nextRequest, prepared, service>>
  BY DEF UnknownOutcome
<1>2. CASE SetQueue(p, new)
  <2>1. Moves(queue[p], new, Fresh) /\ Serves(queue[p], new)
    BY <1>2, ThereSound, SetQueueFresh, RetireIfAnyMoves, RetireIfAnyServes
  <2>. QED BY <1>1, <1>2, <2>1, CalmAging
<1>. QED BY <1>1, <1>2, AsideAging

LEMMA ReactivateAbortedAging ==
  ASSUME HostInv, TokensInv, PlacesInv, NEW p \in Plugins, ReactivateAborted(p)
  PROVE  Aging
<1> DEFINE gen == aborted[p].gen
           new == IF queue[p] = None THEN NewQueue(gen, nextInc, Fresh)
                  ELSE Activate(queue[p], gen, nextInc, Fresh)
<1>1. /\ SetQueue(p, new) \/ UNCHANGED scheduler
      /\ UNCHANGED <<nextRequest, prepared, service>>
  BY DEF ReactivateAborted
<1>2. gen \in Nat /\ nextInc \in Nat
  BY DEF ReactivateAborted, HostInv, ManagerOK, Bundles
<1> HIDE DEF gen
<1>3. CASE SetQueue(p, new)
  <2>1. Fresh \in Tokens
    BY <1>3, SetQueueFresh
  <2>2. Sound(p, new) /\ new.pub = Fresh /\ Holds(queue[p], new) /\ Serves(queue[p], new)
    <3>1. CASE queue[p] = None
      BY <1>2, <2>1, <3>1, NewQueueSound, NewHolds, NewServes DEF NewQueue
    <3>2. CASE queue[p] # None
      BY <1>2, <2>1, <3>2, ThereSound, ActivateMoves, ActivateSound, ActivateServes
    <3>. QED BY <3>1, <3>2
  <2>3. Moves(queue[p], new, Fresh)
    BY <2>2, FreshMoves
  <2> HIDE DEF new
  <2>. QED BY <1>1, <1>3, <2>2, <2>3, CalmAging
<1>. QED BY <1>1, <1>3, AsideAging

LEMMA PassFinishAging ==
  ASSUME HostInv, TokensInv, PlacesInv, NEW w \in Watchers, PassFinish(w)
  PROVE  Aging
<1> DEFINE p == pass[w].cur.plugin
           new == RuntimeReplaced(queue[p], pass[w].inc, Fresh)
<1>1. /\ \/ queue[p] # None /\ CanReplace(queue[p], pass[w].gen) /\ SetQueue(p, new)
         \/ UNCHANGED scheduler
      /\ UNCHANGED <<nextRequest, prepared, service>>
  BY DEF PassFinish
<1>2. p \in Plugins /\ pass[w].inc \in Nat
  BY BusyRun DEF PassFinish, HostInv
<1>3. CASE queue[p] # None /\ CanReplace(queue[p], pass[w].gen) /\ SetQueue(p, new)
  <2>1. Moves(queue[p], new, Fresh) /\ Serves(queue[p], new)
    BY <1>2, <1>3, ThereSound, SetQueueFresh, ReplacedMoves, ReplacedServes
  <2> HIDE DEF p, new
  <2>. QED BY <1>1, <1>2, <1>3, <2>1, CalmAging
<1>. QED BY <1>1, <1>3, AsideAging

LEMMA PassCommitFaultAging ==
  ASSUME HostInv, TokensInv, PlacesInv, NEW w \in Watchers, PassCommitFault(w)
  PROVE  Aging
<1>1. pass[w].cur.plugin \in Plugins
  BY BusyRun DEF PassCommitFault, HostInv
<1>. QED BY <1>1, PublishFaultAging DEF PassCommitFault

LEMMA ExpireAging ==
  ASSUME HostInv, TokensInv, PlacesInv, NEW w \in Watchers, Expire(w)
  PROVE  Aging
<1>1. PICK due \in SUBSET {p \in Plugins : queue[p] # None /\ queue[p].running # None} :
        /\ queue' = [p \in Plugins |-> IF p \in due THEN ExpireRunning(queue[p]) ELSE queue[p]]
        /\ live' = live \ {queue[p].pub : p \in due}
  BY DEF Expire
<1>2. \A p \in due : Serves(queue[p], ExpireRunning(queue[p]))
  BY ThereSound, ExpireServes
<1>3. QueuesServe
  BY <1>1, <1>2, SelfServes DEF QueuesServe
<1>4. Serving
  BY <1>1, <1>3 DEF Serving, NoRevival, service, Expire
<1>. QED BY <1>4, ServingAging

-----------------------------------------------------------------------------
(* Answers *)

\* A new lease is nothing that is referred to.
LEMMA ShowRevivesNone ==
  ASSUME TokensLeft, live' = (live \ OldLease) \cup {Fresh}
  PROVE  NoRevival
  BY FreshNew DEF NoRevival

LEMMA PublishAnswerAging ==
  ASSUME HostInv, TokensInv, PlacesInv, NEW a \in answers, PublishAnswer(a)
  PROVE  Aging
<1>1. /\ UNCHANGED <<queue, nextRequest, prepared, finishing>> /\ answers' \subseteq answers
      /\ \/ UNCHANGED <<live, delivered>>
         \/ /\ ResultOwner(a.plugin, a) /\ TokensLeft
            /\ live' = (live \ OldLease) \cup {Fresh} /\ delivered' = delivered \cup {a.id}
  BY DEF PublishAnswer, Show
<1>2. QueuesServe
  BY <1>1, SelfServes DEF QueuesServe
<1>3. CASE UNCHANGED <<live, delivered>>
  <2>1. Serving
    BY <1>1, <1>2, <1>3 DEF Serving, NoRevival
  <2>. QED BY <2>1, ServingAging
<1>4. CASE /\ ResultOwner(a.plugin, a) /\ TokensLeft
           /\ live' = (live \ OldLease) \cup {Fresh} /\ delivered' = delivered \cup {a.id}
  <2>1. Owed(a.id)
    BY <1>4 DEF Owed, OwedCommand, ResultOwner, PublicationCurrent
  <2>2. NoRevival
    BY <1>4, ShowRevivesNone
  <2>3. Serving
    BY <1>1, <1>2, <1>4, <2>1, <2>2 DEF Serving
  <2>. QED BY <2>3, ServingAging
<1>. QED BY <1>1, <1>3, <1>4

LEMMA FinishResultActionAging ==
  ASSUME HostInv, TokensInv, PlacesInv, NEW f \in finishing, FinishResultAction(f)
  PROVE  Aging
<1> DEFINE p == f.req.plugin
<1>1. p \in Plugins
  BY HeldTypes DEF TokensInv, ClaimsOK, ResultsHeld
<1>2. QueuesServe
  <2>1. CASE queue' = queue
    BY <2>1, SelfServes DEF QueuesServe
  <2>2. CASE queue[p] # None /\ queue' = [queue EXCEPT ![p] = TakeTicket(queue[p])]
    <3>1. Serves(queue[p], TakeTicket(queue[p]))
      BY <1>1, <2>2, ThereSound, TakeTicketServes
    <3>2. \A x \in Plugins : queue'[x] = IF x = p THEN TakeTicket(queue[p]) ELSE queue[x]
      BY <2>2 DEF HostInv, QueuesOK
    <3> HIDE DEF p
    <3>. QED BY <3>1, <3>2, SelfServes DEF QueuesServe
  <2>3. queue \in [Plugins -> Queues \cup {None}]
    BY DEF HostInv, QueuesOK
  <2>. QED BY <1>1, <2>1, <2>2, <2>3 DEF FinishResultAction
<1>3. /\ finishing' \subseteq finishing /\ UNCHANGED <<nextRequest, prepared, answers>>
      /\ \/ UNCHANGED <<live, delivered>>
         \/ /\ Publishable(f) /\ TokensLeft
            /\ live' = (live \ OldLease) \cup {Fresh} /\ delivered' = delivered \cup {f.req.id}
  BY DEF FinishResultAction, Show
<1>4. CASE UNCHANGED <<live, delivered>>
  <2>1. Serving
    BY <1>2, <1>3, <1>4 DEF Serving, NoRevival
  <2>. QED BY <2>1, ServingAging
<1>5. CASE /\ Publishable(f) /\ TokensLeft
           /\ live' = (live \ OldLease) \cup {Fresh} /\ delivered' = delivered \cup {f.req.id}
  <2>1. Owed(f.req.id)
    <3>1. /\ f.accepted /\ f.req.lease \in live /\ queue[p] # None
          /\ Owes(queue[p], Ctx(f.req)) /\ queue[p].ticket.reason = "none"
      BY <1>5 DEF Publishable, TicketOwed
    <3>2. queue[p].ticket # None /\ queue[p].ticket.req.id = f.req.id
      BY <3>1 DEF Owes, Ctx
    <3>. QED BY <1>1, <3>1, <3>2 DEF Owed, OwedResult, OwesId, Queued
  <2>2. NoRevival
    BY <1>5, ShowRevivesNone
  <2>3. Serving
    BY <1>2, <1>3, <1>5, <2>1, <2>2 DEF Serving
  <2>. QED BY <2>3, ServingAging
<1>. QED BY <1>3, <1>4, <1>5
-----------------------------------------------------------------------------
(* Requests that are admitted *)

LEMMA PrepareAging ==
  ASSUME HostInv, TokensInv, PlacesInv, NEW p \in Plugins, Prepare(p)
  PROVE  Aging
<1> DEFINE c == NewCandidate(p, "command", bundle[p], None)
<1>1. /\ nextRequest' = nextRequest + 1 /\ prepared' = prepared \cup {c}
      /\ UNCHANGED <<scheduler, service>>
  BY DEF Prepare
<1>2. c.plugin = p /\ c.id = nextRequest
  BY DEF NewCandidate
<1> HIDE DEF c
<1>. QED BY <1>1, <1>2, ReserveAging

LEMMA ReserveResultAging ==
  ASSUME HostInv, TokensInv, PlacesInv, ReserveResult
  PROVE  Aging
<1> DEFINE c == NewCandidate(results.plugin, "result", results, results.lease)
<1>1. /\ results # None /\ nextRequest' = nextRequest + 1 /\ prepared' = prepared \cup {c}
      /\ UNCHANGED <<scheduler, service>>
  BY DEF ReserveResult
<1>2. c.plugin \in Plugins /\ c.id = nextRequest
  BY <1>1, HeldTypes DEF NewCandidate
<1> HIDE DEF c
<1>. QED BY <1>1, <1>2, ReserveAging

\* A command or content action joins the queue it finds or makes.
LEMMA EnqueueAging ==
  ASSUME HostInv, TokensInv, PlacesInv, NEW c \in Candidates, NEW p \in Plugins, c.plugin = p,
         NEW q, q = (IF queue[p] = None THEN NewQueue(c.gen, c.inc, Fresh) ELSE queue[p]),
         Accepts(q, c), SetQueue(p, Enqueue(q, c)), UNCHANGED <<answers, finishing, delivered>>,
         \/ FromPrepared(c)
         \/ /\ c.id = nextRequest /\ c.kind = "content" /\ nextRequest' = nextRequest + 1
            /\ UNCHANGED prepared
  PROVE  Aging
<1> DEFINE new == Enqueue(q, c)
<1>1. Fresh \in Tokens /\ c.gen \in Nat /\ c.inc \in Nat
  BY SetQueueFresh DEF Candidates
<1>2. Sound(p, q)
  BY <1>1, FoundSound DEF HostInv
<1>3. q # None /\ new # None
  BY <1>2, EnqueueSound, SoundThere
<1>4. Exchanged(queue[p], new, Fresh)
  BY EnqueuedFacts
<1>5. /\ Admits(q, new, c)
      /\ c.kind = "content" => new.running # None /\ new.running.req = c
  BY <1>2, EnqueueAdmits
<1>6. \A x \in Plugins : queue'[x] = IF x = p THEN new ELSE queue[x]
  BY DEF SetQueue, HostInv, QueuesOK
<1>7. q = queue[p] \/ (queue[p] = None /\ EmptyQueue(q))
  BY DEF NewQueue, EmptyQueue
<1>8. Live(c, live')
  BY DEF Live, Accepts
<1> HIDE DEF new
<1>9. NoRevival
  BY <1>4, SetQueueKept DEF Kept, NoRevival, new
<1>10. FromPrepared(c) \/ FromNumber(c, new)
  BY <1>5 DEF FromNumber
<1>. QED BY <1>3, <1>5, <1>6, <1>7, <1>8, <1>9, <1>10, AdmitAging

LEMMA SubmitAging ==
  ASSUME HostInv, TokensInv, PlacesInv, NEW c \in prepared, Submit(c)
  PROVE  Aging
<1> DEFINE p == c.plugin
           q == IF queue[p] = None THEN NewQueue(c.gen, c.inc, Fresh) ELSE queue[p]
<1>1. c \in Candidates /\ p \in Plugins
  BY DEF HostInv, RequestsOK, Candidates
<1>2. /\ prepared' = prepared \ {c} /\ UNCHANGED <<nextRequest, service>>
      /\ \/ Accepts(q, c) /\ SetQueue(p, Enqueue(q, c))
         \/ UNCHANGED scheduler
  BY DEF Submit
<1>3. CASE UNCHANGED scheduler
  BY <1>2, <1>3, AsideAging
<1>4. CASE Accepts(q, c) /\ SetQueue(p, Enqueue(q, c))
  BY <1>1, <1>2, <1>4, EnqueueAging DEF FromPrepared, service
<1>. QED BY <1>2, <1>3, <1>4

LEMMA ContentActionAging ==
  ASSUME HostInv, TokensInv, PlacesInv, NEW p \in Plugins, ContentAction(p)
  PROVE  Aging
<1> DEFINE c == NewCandidate(p, "content", bundle[p], None)
           q == IF queue[p] = None THEN NewQueue(c.gen, c.inc, Fresh) ELSE queue[p]
<1>1. /\ Accepts(q, c) /\ SetQueue(p, Enqueue(q, c)) /\ nextRequest' = nextRequest + 1
      /\ nextRequest \in Requests
      /\ UNCHANGED <<prepared, service>>
  BY DEF ContentAction
<1>2. c \in Candidates /\ c.plugin = p /\ c.kind = "content" /\ c.id = nextRequest
  <2>1. bundle[p] \in Bundles
    BY DEF ContentAction, Confirmed, HostInv, ManagerOK
  <2>. QED BY <1>1, <2>1, NewCandidateType DEF Bundles, Kinds, NewCandidate
<1> HIDE DEF c
<1>. QED BY <1>1, <1>2, EnqueueAging DEF service

LEMMA AdmitResultActionAging ==
  ASSUME HostInv, TokensInv, PlacesInv, NEW c \in prepared, AdmitResultAction(c)
  PROVE  Aging
<1> DEFINE p == c.plugin
           new == AdmitResult(queue[p], c)
<1>1. c \in Candidates /\ p \in Plugins
  BY DEF HostInv, RequestsOK, Candidates
<1>2. /\ prepared' = prepared \ {c} /\ UNCHANGED <<nextRequest, answers, finishing, delivered>>
  BY DEF AdmitResultAction
<1>3. CASE UNCHANGED scheduler
  BY <1>2, <1>3, StillAging DEF scheduler
<1>4. CASE /\ queue[p] # None /\ AdmitsResult(queue[p], c) /\ Live(c, live) /\ SetQueue(p, new)
  <2>1. Sound(p, queue[p])
    BY <1>1, <1>4, ThereSound
  <2>2. Same(queue[p], new)
    BY <1>1, <1>4, <2>1, AdmitResultMoves
  <2>3. new # None
    BY <1>1, <1>4, <2>1, AdmitResultSound, SoundThere
  <2>4. Exchanged(queue[p], new, Fresh)
    BY <1>4, <2>2, <2>3 DEF Exchanged, Same
  <2>5. Admits(queue[p], new, c)
    BY <1>1, <1>4, <2>1, AdmitResultAdmits
  <2>6. \A x \in Plugins : queue'[x] = IF x = p THEN new ELSE queue[x]
    BY <1>4 DEF SetQueue, HostInv, QueuesOK
  <2>7. UNCHANGED live
    BY <1>4, <2>2, <2>3 DEF SetQueue, PubOf, Same
  <2>8. FromPrepared(c) /\ Live(c, live')
    BY <1>2, <1>4, <2>7 DEF FromPrepared
  <2>9. NoRevival
    BY <2>7 DEF NoRevival
  <2> HIDE DEF new
  <2>. QED BY <1>1, <1>2, <1>4, <2>3, <2>5, <2>6, <2>8, <2>9, AdmitAging
<1>5. p \in Plugins /\ ResultOwner(p, c) => queue[p] # None
  BY DEF ResultOwner, PublicationCurrent
<1>. QED BY <1>1, <1>3, <1>4, <1>5 DEF AdmitResultAction

-----------------------------------------------------------------------------
(* Requests that complete *)

LEMMA CompleteRequestAging ==
  ASSUME HostInv, TokensInv, PlacesInv, NEW p \in Plugins, CompleteRequest(p)
  PROVE  Aging
<1> DEFINE q == queue[p]
           run == q.running
           c == run.req
           s == pending[c.id]
           answer == [plugin |-> p, id |-> c.id, gen |-> s.gen, inc |-> s.inc, pub |-> s.pub]
           finish == [req |-> c, accepted |-> Accepted(q, live)]
           new == Complete(q, live)
           current == run.current /\ Live(c, live)
<1>1. /\ q # None /\ run # None /\ SetQueue(p, new)
      /\ \/ answers' = answers
         \/ c.kind = "command" /\ current /\ answers' = answers \cup {answer}
      /\ \/ finishing' = finishing
         \/ c.kind = "result" /\ finishing' = finishing \cup {finish}
      /\ \/ delivered' = delivered
         \/ c.kind = "command" /\ current /\ delivered' = delivered \cup {c.id}
      /\ UNCHANGED <<nextRequest, prepared>>
  BY DEF CompleteRequest, Accepted
<1>2. Sound(p, q) /\ q \in Queues
  BY <1>1, ThereSound, SoundThere
<1>3. c \in Candidates /\ c.id \in Requests
  BY <1>1, <1>2 DEF Queues, RunningRequests, Candidates
<1>4. Moves(q, new, Fresh)
  BY <1>1, <1>2, CompleteSound, CompleteMoves, SameSoundMoves
<1>5. NoRevival
  BY <1>1, <1>4, SetQueueKept DEF Moves, Kept, NoRevival
<1>6. /\ new.waiting # None => q.waiting # None /\ new.waiting.id = q.waiting.id
      /\ new.running # None =>
            /\ q.waiting # None /\ new.running.req.id = q.waiting.id
            /\ new.running.req.kind = "command" /\ new.running.current
            /\ new.waiting = None
      /\ new.ticket # None =>
            \/ new.ticket = q.ticket
            \/ /\ c.kind # "command" /\ new.ticket.req = c
               /\ new.ticket.reason = "none" => current
  BY <1>1, <1>2, CompleteServes
<1>7. new # None
  BY <1>1, <1>2, CompleteSound, SoundThere
<1>8. finish.req = c /\ (finish.accepted <=> current) /\ answer.id = c.id /\ answer.pub = s.pub
  BY DEF Accepted
<1>9. \A x \in Plugins : queue'[x] = IF x = p THEN new ELSE queue[x]
  BY <1>1 DEF SetQueue, HostInv, QueuesOK
<1>10. RunsAt(p, c.id) /\ (CurrentAt(p, c.id) <=> current)
  BY <1>1 DEF RunsAt, CurrentAt
<1>11. ~WaitsAt(p, c.id) /\ ~Unsettled(c.id)
  BY <1>3, <1>10 DEF PlacesInv, PlacedOnce, HeldAt
<1>12. \A r : r = c.id => ~RunsAt(p, r)'
  BY <1>1, <1>6, <1>7, <1>9, <1>11 DEF RunsAt, WaitsAt
<1>13. /\ \A x \in Plugins : queue[x] # None /\ queue[x].running # None =>
            (Live(queue[x].running.req, live') => Live(queue[x].running.req, live))
       /\ \A f \in finishing : f.req.lease \in live' => f.req.lease \in live
       /\ \A a \in answers : a.pub \in live' => a.pub \in live
  BY <1>5, LiveAgain
<1> HIDE DEF answer, finish, new, current
<1>14. PreparedOnce'
  BY <1>1 DEF PreparedOnce, PlacesInv
<1>15. SlotsYield'
  BY <1>6, <1>9 DEF SlotsYield, YieldsOne, PlacesInv
<1>16. ASSUME NEW x \in Plugins, NEW r \in Requests
       PROVE  AgesAt(0, x, r)
  <2>1. PreparedAt(x, r)' <=> PreparedAt(x, r)
    BY <1>1 DEF PreparedAt
  <2>2. WaitsAt(x, r)' => WaitsAt(x, r)
    BY <1>1, <1>6, <1>9 DEF WaitsAt
  <2>3. CASE x = p
    <3>1. RunsAt(x, r)' => WaitsAt(x, r) /\ ~WaitsAt(x, r)' /\ CurrentAt(x, r)'
      BY <1>1, <1>6, <1>7, <1>9, <2>3 DEF RunsAt, WaitsAt, CurrentAt, Live
    <3>2. WaitsAt(x, r) => ~PreparedAt(x, r) /\ ~RunsAt(x, r)
      BY DEF PlacesInv, PlacedOnce
    <3>3. CurrentAt(x, r)' => RunsAt(x, r)'
      BY DEF CurrentAt
    <3>. QED BY <2>1, <2>2, <3>1, <3>2, <3>3 DEF AgesAt
  <2>4. CASE x # p
    <3>1. queue'[x] = queue[x]
      BY <1>9, <2>4
    <3>2. (WaitsAt(x, r)' <=> WaitsAt(x, r)) /\ (RunsAt(x, r)' <=> RunsAt(x, r))
      BY <3>1 DEF WaitsAt, RunsAt
    <3>3. CurrentAt(x, r)' => CurrentAt(x, r)
      BY <1>13, <3>1, <3>2 DEF CurrentAt, RunsAt
    <3>. QED BY <2>1, <3>2, <3>3 DEF AgesAt
  <2>. QED BY <2>3, <2>4
<1>17. ASSUME NEW r \in Requests
       PROVE  Settles(r)
  <2>1. ASSUME NEW x \in OwesId(r)'
        PROVE  \/ /\ x \in OwesId(r) /\ queue'[x].ticket = queue[x].ticket
               \/ /\ x = p /\ r = c.id /\ c.kind # "command" /\ queue'[x].ticket.req = c
                  /\ queue'[x].ticket.reason = "none" => current
    BY <1>1, <1>6, <1>9, <2>1 DEF OwesId, Queued
  <2>2. r # c.id => \A x \in OwesId(r)' : x \in OwesId(r) /\ queue'[x].ticket = queue[x].ticket
    BY <2>1
  <2>3. /\ \A a \in answers' : a \in answers \/ (a.id = c.id /\ current)
        /\ \A f \in finishing' : f \in finishing \/ (f.req = c /\ (f.accepted <=> current))
        /\ \A f \in finishing : f \in finishing'
    BY <1>1, <1>8
  <2>4. CASE r = c.id
    <3>1. /\ \A x \in OwesId(r) : queue[x].ticket.req.kind # "content"
          /\ \A a \in answers : a.id # r
          /\ \A f \in finishing : f.req.id # r
      BY <1>11, <2>4 DEF Unsettled
    <3>2. Owed(r)' => current
      <4>1. OwedContent(r)' => current
        BY <2>1, <3>1 DEF OwedContent
      <4>2. OwedCommand(r)' => current
        BY <2>3, <3>1 DEF OwedCommand
      <4>3. OwedResult(r)' => current
        BY <2>3, <3>1 DEF OwedResult
      <4>. QED BY <4>1, <4>2, <4>3 DEF Owed
    <3>3. RunsAt(p, r) /\ ~RunsAt(p, r)' /\ (current => CurrentAt(p, r))
      BY <1>10, <1>12, <2>4
    <3>4. r \in delivered' => r \in delivered \/ current
      BY <1>1
    <3>5. r \in delivered => r \in delivered'
      BY <1>1
    <3>. QED BY <3>2, <3>3, <3>4, <3>5 DEF Settles
  <2>5. CASE r # c.id
    <3>1. Unsettled(r)' => Unsettled(r)
      BY <2>2, <2>3, <2>5 DEF Unsettled
    <3>2. OwedContent(r)' => OwedContent(r)
      BY <2>2, <2>5 DEF OwedContent
    <3>3. OwedCommand(r)' => OwedCommand(r)
      BY <1>13, <2>3, <2>5 DEF OwedCommand
    <3>4. OwedResult(r)' => OwedResult(r)
      BY <1>13, <2>2, <2>3, <2>5 DEF OwedResult
    <3>5. r \in delivered' <=> r \in delivered
      BY <1>1, <2>5
    <3>. QED BY <3>1, <3>2, <3>3, <3>4, <3>5 DEF Settles, Owed
  <2>. QED BY <2>4, <2>5
<1>18. Ages(0)
  BY <1>1, <1>16, <1>17 DEF Ages, NumberTakenBy
<1>. QED BY <1>14, <1>15, <1>18 DEF Aging

-----------------------------------------------------------------------------
(* The host implements the lifecycle *)

LEMMA NextAging ==
  ASSUME HostInv, TokensInv, PlacesInv, [Next]_vars
  PROVE  Aging
<1>1. CASE Submissions
  <2>1. ASSUME NEW p \in Plugins, BindRoute(p) PROVE Aging
    BY <2>1, AsideAging DEF BindRoute
  <2>2. ASSUME NEW c \in prepared, DropPrepared(c) PROVE Aging
    BY <2>2, AsideAging DEF DropPrepared
  <2>. QED BY <1>1, <2>1, <2>2, PrepareAging, SubmitAging, AbortUnboundAging,
       RecoverRuntimeAging, ContentActionAging, ReserveResultAging, AdmitResultActionAging
       DEF Submissions
<1>2. CASE Completions
  <2>1. ASSUME DismissResults \/ RevokeInFlight PROVE Aging
    BY <2>1, StillAging DEF DismissResults, RevokeInFlight, service
  <2>. QED BY <1>2, <2>1, CompleteRequestAging, SettleContentAging, PublishAnswerAging,
       FinishResultActionAging DEF Completions
<1>3. CASE Retirements
  BY <1>3, RetireContentAging, CancelRequestAging, RetireServiceAging DEF Retirements
<1>4. CASE Management
  <2>1. ASSUME ClosePublications \/ CloseGate PROVE Aging
    BY <2>1, StillAging DEF ClosePublications, CloseGate, scheduler, service
  <2> SUFFICES ASSUME NEW p \in Plugins,
                      \/ \E kind \in {"change", "disable"} : BeginChange(p, kind)
                      \/ \E kind \in {"enable", "update"} : BeginActivation(p, kind)
                      \/ BeginFault(p) \/ CommitUninstall(p) \/ NotCommitted(p)
                      \/ ReleaseUninstall(p)
               PROVE  Aging
    BY <1>4, <2>1, BeginUninstallAging, CommitChangeAging, CommitDisableAging,
       PublishFaultAging, CommitActivationAging, UnknownOutcomeAging,
       ReactivateAbortedAging DEF Management, Commits, CommitFault
  <2>. QED BY AsideAging DEF BeginChange, BeginActivation, BeginFault, CommitUninstall,
              NotCommitted, ReleaseUninstall
<1>5. CASE Timeouts
  <2> SUFFICES ASSUME NEW w \in Watchers,
                      \/ TakeReplacement(w) \/ PassReserveFault(w) \/ PassReserveReplace(w)
                      \/ PassCommitReplace(w) \/ PassNotCommitted(w) \/ PassCreate(w)
               PROVE  Aging
    BY <1>5, ExpireAging, PassCommitFaultAging, PassFinishAging DEF Timeouts, PassStep
  <2>. QED BY AsideAging DEF TakeReplacement, PassReserveFault, PassReserveReplace,
              PassCommitReplace, PassNotCommitted, PassCreate
<1>6. CASE UNCHANGED vars
  BY <1>6, AsideAging DEF vars, scheduler, service
<1>. QED BY <1>1, <1>2, <1>3, <1>4, <1>5, <1>6 DEF Next

LEMMA InitPlaces == Init => PlacesInv
<1> SUFFICES ASSUME Init PROVE PlacesInv
  OBVIOUS
<1>1. \A p \in Plugins : /\ queue[p] # None => /\ queue[p].running = None /\ queue[p].waiting = None
                                               /\ queue[p].ticket = None
  BY DEF Init, NewQueue
<1>2. prepared = {} /\ answers = {} /\ finishing = {} /\ delivered = {}
  BY DEF Init
<1>3. \A r : /\ \A p \in Plugins : ~HeldAt(p, r)
             /\ ~Unsettled(r)
  BY <1>1, <1>2 DEF HeldAt, PreparedAt, WaitsAt, RunsAt, Unsettled, OwesId, Queued
<1>4. PreparedOnce
  BY <1>2 DEF PreparedOnce
<1>5. SlotsYield
  BY <1>1 DEF SlotsYield, YieldsOne
<1>6. PlacedOnce
  BY <1>2, <1>3 DEF PlacedOnce, HeldAt
<1>. QED BY <1>4, <1>5, <1>6 DEF PlacesInv

\* The lifecycle starts with every request unused: the number of the first is 1.
LEMMA InitLifecycle == Init => Lifecycle!Init
<1> SUFFICES ASSUME Init PROVE Lifecycle!Init
  OBVIOUS
<1>1. \A p \in Plugins : ExecutingOf(p) = None /\ WaitingOf(p) = None
  BY DEF Init, NewQueue, ExecutingOf, WaitingOf
<1>2. \A r \in Requests : r >= nextRequest
  BY NumbersAssumption, HostAssumption DEF Init
<1>3. \A r \in Requests : StatusOf(r) = "unused"
  BY <1>2 DEF StatusOf
<1>. QED BY <1>1, <1>3 DEF Lifecycle!Init

\* A request is in one place at a time, of one plugin, in every reachable state.
THEOREM PlacesInvariant == Spec => []PlacesInv
<1>1. Init => PlacesInv
  BY InitPlaces
<1>2. HostInv /\ TokensInv /\ PlacesInv /\ HostInv' /\ [Next]_vars => PlacesInv'
  BY NextAging, AgesPlaces DEF Aging
<1>. QED BY <1>1, <1>2, HostInvariant, TokensInvariant, PTL DEF Spec

\* What becomes of each request of the host, and the slots of its queues, are a
\* behaviour of the abstract lifecycle: authority is never regained, and an answer
\* that lost it is never delivered.
THEOREM HostImplementsLifecycle == Spec => ImplementsLifecycle
<1>1. Init => Lifecycle!Init
  BY InitLifecycle
<1>2. HostInv /\ TokensInv /\ PlacesInv /\ HostInv' /\ PlacesInv' /\ [Next]_vars
        => Lifecycle!Next
  BY NextAging, AgesLifecycle DEF Aging
<1>. QED BY <1>1, <1>2, HostInvariant, TokensInvariant, PlacesInvariant, PTL
     DEF Spec, ImplementsLifecycle, Lifecycle!Spec
==============================================================================
