------------------------- MODULE RequestQueueProofs -------------------------
(***************************************************************************)
(* Every operation on a queue keeps it a queue (Queues), keeps it one that *)
(* dispatch() can serve (QueueOK) and keeps the newest request in the      *)
(* waiting place (NewestOK).  RuntimeHostProofs cites these lemmas for the *)
(* actions that use the operations.                                        *)
(***************************************************************************)
EXTENDS RequestQueue, SequenceTheorems, TLAPS

\* The queue of plugin p is sound.
Sound(p, q) == q \in Queues /\ QueueOK(p, q) /\ NewestOK(q)

-----------------------------------------------------------------------------
(* Retained contexts *)

\* The context of a request is a context.
LEMMA CtxType == \A c \in Candidates : Ctx(c) \in Contexts
  BY DEF Ctx, Candidates, Contexts

\* A part of a sequence of contexts is one, with the expected last element.
LEMMA Cut ==
  ASSUME NEW s, NEW m \in Int, NEW n \in Int, \A i \in m..n : s[i] \in Contexts
  PROVE  /\ SubSeq(s, m, n) \in Seq(Contexts)
         /\ Len(SubSeq(s, m, n)) = IF m <= n THEN n - m + 1 ELSE 0
         /\ m <= n => SubSeq(s, m, n)[n - m + 1] = s[n]
<1>1. /\ SubSeq(s, m, n) \in Seq(Contexts)
      /\ Len(SubSeq(s, m, n)) = IF m <= n THEN n - m + 1 ELSE 0
      /\ \A i \in 1 .. n - m + 1 : SubSeq(s, m, n)[i] = s[m + i - 1]
  BY SubSeqProperties
<1>2. m <= n => n - m + 1 \in 1 .. n - m + 1 /\ m + (n - m + 1) - 1 = n
  OBVIOUS
<1>. QED BY <1>1, <1>2

\* remember() keeps a sequence of contexts, whose last one is the new one.
LEMMA RememberLast ==
  ASSUME NEW s \in Seq(Contexts), NEW c \in Contexts
  PROVE  /\ Remember(s, c) \in Seq(Contexts)
         /\ MaxRetained > 0 =>
               Remember(s, c) # << >> /\ Remember(s, c)[Len(Remember(s, c))] = c
<1> DEFINE all == Append(s, c)
           cut == SubSeq(all, Len(all) - MaxRetained + 1, Len(all))
<1>1. all \in Seq(Contexts) /\ Len(all) = Len(s) + 1 /\ all[Len(all)] = c
  BY AppendProperties
<1>2. Len(s) \in Nat
  BY LenProperties
<1>3. CASE Len(all) > MaxRetained
  <2>1. Len(all) - MaxRetained + 1 \in Int /\ Len(all) \in Int
    BY <1>1, <1>2, RetainedAssumption
  <2>2. \A i \in Len(all) - MaxRetained + 1 .. Len(all) : all[i] \in Contexts
    BY <1>1, <1>2, <1>3, RetainedAssumption, ElementOfSeq
  <2>3. /\ cut \in Seq(Contexts)
        /\ Len(cut) = IF Len(all) - MaxRetained + 1 <= Len(all)
                      THEN Len(all) - (Len(all) - MaxRetained + 1) + 1 ELSE 0
        /\ Len(all) - MaxRetained + 1 <= Len(all) =>
              cut[Len(all) - (Len(all) - MaxRetained + 1) + 1] = all[Len(all)]
    BY <2>1, <2>2, Cut
  <2>4. MaxRetained > 0 => Len(cut) = MaxRetained /\ cut[MaxRetained] = all[Len(all)]
    <3>1. Len(all) - (Len(all) - MaxRetained + 1) + 1 = MaxRetained
      BY <2>1, RetainedAssumption
    <3>2. MaxRetained > 0 => Len(all) - MaxRetained + 1 <= Len(all)
      BY <2>1, RetainedAssumption
    <3>. QED BY <2>3, <3>1, <3>2
  <2>5. MaxRetained > 0 => cut # << >>
    BY <2>3, <2>4, RetainedAssumption, LenProperties, EmptySeq
  <2>6. Remember(s, c) = cut
    BY <1>3 DEF Remember
  <2>. QED BY <2>3, <2>4, <2>5, <2>6, <1>1
<1>4. CASE ~(Len(all) > MaxRetained)
  <2>1. Remember(s, c) = all
    BY <1>4 DEF Remember
  <2>2. all # << >>
    BY AppendProperties
  <2>. QED BY <2>1, <2>2, <1>1
<1>. QED BY <1>3, <1>4

\* retain() keeps a sequence of contexts.
LEMMA ForgetType ==
  ASSUME NEW s \in Seq(Contexts), NEW c
  PROVE  Forget(s, c) \in Seq(Contexts)
<1>1. CASE \E i \in 1..Len(s) : s[i] = c
  <2> DEFINE i == CHOOSE j \in 1..Len(s) : s[j] = c
  <2>1. i \in 1..Len(s) /\ Len(s) \in Nat
    BY <1>1, LenProperties
  <2>2. SubSeq(s, 1, i - 1) \in Seq(Contexts)
    <3>1. \A j \in 1 .. i - 1 : s[j] \in Contexts
      BY <2>1, ElementOfSeq
    <3>. QED BY <2>1, <3>1, Cut
  <2>3. SubSeq(s, i + 1, Len(s)) \in Seq(Contexts)
    <3>1. \A j \in i + 1 .. Len(s) : s[j] \in Contexts
      BY <2>1, ElementOfSeq
    <3>. QED BY <2>1, <3>1, Cut
  <2>4. SubSeq(s, 1, i - 1) \o SubSeq(s, i + 1, Len(s)) \in Seq(Contexts)
    BY <2>2, <2>3, ConcatProperties
  <2>. QED BY <1>1, <2>4 DEF Forget
<1>2. CASE ~\E i \in 1..Len(s) : s[i] = c
  BY <1>2 DEF Forget
<1>. QED BY <1>1, <1>2

-----------------------------------------------------------------------------
(* Dispatch *)

\* What WaitingOK says of a request, whatever the slot.
Fits(p, q) ==
    q.waiting # None =>
        q.waiting.kind = "command" /\ q.waiting.plugin = p /\ SameIdentity(q, q.waiting)

\* A new queue is sound.
LEMMA NewQueueSound ==
  ASSUME NEW p, NEW gen \in Nat, NEW inc \in Nat, NEW pub \in Tokens
  PROVE  Sound(p, NewQueue(gen, inc, pub))
<1>1. NewQueue(gen, inc, pub) \in Queues
  BY EmptySeq DEF NewQueue, Queues
<1>. QED BY <1>1 DEF Sound, NewQueue, QueueOK, RunningOK, WaitingOK, TicketOK, NewestOK

\* A started request fills the slot of a sound queue that had it free.
LEMMA StartSound ==
  ASSUME NEW p, NEW q, Sound(p, q), NEW c \in Candidates,
         c.plugin = p, SameIdentity(q, c), q.running = None, ~q.rebuilding
  PROVE  Sound(p, Start(q, c))
<1> DEFINE r == [req |-> c, current |-> TRUE, retirement |-> "none"]
<1>1. r \in RunningRequests /\ r # None
  <2>1. r \in RunningRequests
    BY DEF RunningRequests, Reasons
  <2>. QED BY <2>1, NoneAssumption
<1>2. Start(q, c) = [q EXCEPT !.running = r] /\ Start(q, c) \in Queues
  BY <1>1 DEF Sound, Start, Queues
<1>3. q.waiting = None
  BY DEF Sound, QueueOK, WaitingOK
<1>. QED
  BY <1>1, <1>2, <1>3
     DEF Sound, Queues, QueueOK, RunningOK, WaitingOK, TicketOK, NewestOK, SameIdentity

\* A waiting request that fits its queue is never lost by dispatch(): it runs,
\* or the queue is rebuilding and keeps it.
LEMMA DispatchLosesNothing ==
  ASSUME NEW p, NEW q \in Queues, Fits(p, q), q.running = None, q.waiting # None
  PROVE  IF q.rebuilding THEN DispatchWaiting(q) = q
         ELSE DispatchWaiting(q) = Start([q EXCEPT !.waiting = None], q.waiting)
<1>1. CASE q.rebuilding
  BY <1>1 DEF DispatchWaiting
<1>2. CASE ~q.rebuilding
  <2>1. CanDispatch([q EXCEPT !.waiting = None], q.waiting)
    BY <1>2 DEF CanDispatch, Fits, SameIdentity, Queues
  <2>. QED BY <1>2, <2>1 DEF DispatchWaiting, Dispatch
<1>. QED BY <1>1, <1>2

\* Dispatching the waiting request makes a queue with a free slot sound.
LEMMA DispatchWaitingSound ==
  ASSUME NEW p, NEW q \in Queues, Fits(p, q), TicketOK(q), q.running = None,
         q.rebuilding => NewestOK(q)
  PROVE  Sound(p, DispatchWaiting(q))
<1>1. CASE q.waiting = None
  BY <1>1 DEF DispatchWaiting, Sound, QueueOK, RunningOK, WaitingOK, NewestOK
<1>2. CASE q.waiting # None /\ q.rebuilding
  BY <1>2 DEF DispatchWaiting, Sound, QueueOK, RunningOK, WaitingOK, Fits
<1>3. CASE q.waiting # None /\ ~q.rebuilding
  <2> DEFINE free == [q EXCEPT !.waiting = None]
  <2>1. free \in Queues /\ q.waiting \in Candidates
    BY <1>3 DEF Queues
  <2>2. Sound(p, free)
    BY <2>1 DEF Sound, Queues, QueueOK, RunningOK, WaitingOK, TicketOK, NewestOK
  <2>3. SameIdentity(free, q.waiting) /\ q.waiting.plugin = p
    BY <1>3 DEF Fits, SameIdentity, Queues
  <2>4. free.running = None /\ ~free.rebuilding
    BY <1>3 DEF Queues
  <2>5. Sound(p, Start(free, q.waiting))
    BY <2>1, <2>2, <2>3, <2>4, StartSound
  <2>. QED BY <1>3, <2>5, DispatchLosesNothing
<1>. QED BY <1>1, <1>2, <1>3

-----------------------------------------------------------------------------
(* Admission *)

\* Superseding a running request keeps its identity and takes its currency.
LEMMA SupersededFacts ==
  ASSUME NEW r \in RunningRequests
  PROVE  /\ Superseded(r) \in RunningRequests /\ Superseded(r) # None
         /\ Superseded(r).req = r.req /\ Superseded(r).current = FALSE
         /\ r.req.kind # "command" /\ (r.current <=> r.retirement = "none")
               => Superseded(r).retirement # "none"
<1>1. Superseded(r) \in RunningRequests
  BY DEF Superseded, RunningRequests, Reasons
<1>2. Superseded(r) # None
  BY <1>1, NoneAssumption
<1>. QED BY <1>1, <1>2 DEF Superseded, RunningRequests, Reasons

\* Cancelling a ticket keeps it the ticket of the same request.
LEMMA TicketFacts ==
  ASSUME NEW t \in Tickets, NEW reason \in Reasons
  PROVE  /\ [t EXCEPT !.reason = reason] \in Tickets
         /\ [t EXCEPT !.reason = reason] # None
         /\ [t EXCEPT !.reason = reason].req = t.req
<1>1. [t EXCEPT !.reason = reason] \in Tickets
  BY DEF Tickets
<1>2. [t EXCEPT !.reason = reason] # None
  BY <1>1, NoneAssumption
<1>. QED BY <1>1, <1>2 DEF Tickets

\* enqueue_reserved and the admissions built on it.
LEMMA EnqueueSound ==
  ASSUME NEW p, NEW q, Sound(p, q), NEW c \in Candidates, c.plugin = p, Accepts(q, c)
  PROVE  Sound(p, Enqueue(q, c))
<1> DEFINE ticket == IF c.kind # "command" THEN None
                     ELSE IF PendingTicket(q) THEN [q.ticket EXCEPT !.reason = "cancelled"]
                     ELSE q.ticket
           known == [q EXCEPT !.ticket = ticket, !.issued = Remember(@, Ctx(c))]
<1>1. q \in Queues /\ q.issued \in Seq(Contexts)
  BY DEF Sound, Queues
<1>2. /\ Remember(q.issued, Ctx(c)) \in Seq(Contexts)
      /\ MaxRetained > 0 =>
            /\ Remember(q.issued, Ctx(c)) # << >>
            /\ Remember(q.issued, Ctx(c))[Len(Remember(q.issued, Ctx(c)))] = Ctx(c)
  BY <1>1, CtxType, RememberLast
<1>3. ticket \in Tickets \cup {None} /\ (ticket # None => ticket.req.kind # "command")
  <2>1. CASE c.kind = "command" /\ PendingTicket(q)
    <3>1. q.ticket \in Tickets
      BY <1>1, <2>1 DEF PendingTicket, Queues
    <3>2. q.ticket.req.kind # "command"
      BY <2>1 DEF PendingTicket, Sound, QueueOK, TicketOK
    <3>. QED BY <2>1, <3>1, <3>2, TicketFacts DEF Reasons
  <2>2. CASE ~(c.kind = "command" /\ PendingTicket(q))
    BY <1>1, <2>2 DEF Queues, Sound, QueueOK, TicketOK
  <2>. QED BY <2>1, <2>2
<1>4. /\ known \in Queues
      /\ known.gen = q.gen /\ known.inc = q.inc /\ known.rebuilding = q.rebuilding
      /\ known.running = q.running /\ known.waiting = q.waiting
      /\ known.ticket = ticket /\ known.issued = Remember(q.issued, Ctx(c))
  BY <1>1, <1>2, <1>3 DEF Queues
<1> HIDE DEF ticket, known
<1>5. c # None /\ c.kind \in Kinds
  BY NoneAssumption DEF Candidates
<1>6. SameIdentity(q, c) /\ (c.kind # "command" => SlotsFree(q))
  BY <1>5 DEF Accepts, Kinds
<1>7. CASE q.rebuilding
  <2>1. Enqueue(q, c) = [known EXCEPT !.waiting = c]
    BY <1>7 DEF Enqueue, known, ticket
  <2> DEFINE e == [known EXCEPT !.waiting = c]
  <2>2. /\ e \in Queues /\ e.waiting = c /\ e.running = q.running
        /\ e.gen = q.gen /\ e.inc = q.inc /\ e.rebuilding /\ e.ticket = ticket
        /\ e.issued = Remember(q.issued, Ctx(c))
    BY <1>4, <1>7 DEF Queues
  <2> HIDE DEF e
  <2>3. q.running = None /\ c.kind = "command"
    BY <1>6, <1>7 DEF Sound, QueueOK, RunningOK, SlotsFree
  <2>4. QueueOK(p, e)
    BY <1>3, <1>6, <1>7, <2>2, <2>3
       DEF QueueOK, RunningOK, WaitingOK, TicketOK, SameIdentity
  <2>5. NewestOK(e)
    BY <1>2, <2>2 DEF NewestOK
  <2>. QED BY <2>1, <2>2, <2>4, <2>5 DEF Sound, e
<1>8. CASE ~q.rebuilding /\ q.running # None
  <2>1. Enqueue(q, c) = [known EXCEPT !.waiting = c, !.running = Superseded(known.running)]
    BY <1>8, <1>4 DEF Enqueue, known, ticket
  <2>2. q.running \in RunningRequests
    BY <1>1, <1>8 DEF Queues
  <2> DEFINE r == Superseded(q.running)
             e == [known EXCEPT !.waiting = c, !.running = r]
  <2>3. r \in RunningRequests /\ r # None /\ r.req = q.running.req /\ r.current = FALSE
    BY <2>2, SupersededFacts
  <2>4. q.running.req.kind # "command" => r.retirement # "none"
    BY <1>8, <2>2, SupersededFacts DEF Sound, QueueOK, RunningOK
  <2> HIDE DEF r
  <2>5. /\ e \in Queues /\ e.waiting = c /\ e.running = r
        /\ e.gen = q.gen /\ e.inc = q.inc /\ e.rebuilding = FALSE /\ e.ticket = ticket
        /\ e.issued = Remember(q.issued, Ctx(c))
    BY <1>1, <1>4, <1>8, <2>3 DEF Queues
  <2> HIDE DEF e
  <2>6. c.kind = "command"
    BY <1>6, <1>8 DEF SlotsFree
  <2>7. RunningOK(p, e)
    BY <1>8, <2>3, <2>4, <2>5 DEF Sound, QueueOK, RunningOK, SameIdentity
  <2>8. WaitingOK(p, e)
    BY <1>6, <2>3, <2>5, <2>6 DEF WaitingOK, SameIdentity
  <2>9. TicketOK(e)
    BY <1>3, <2>5 DEF TicketOK
  <2>10. NewestOK(e)
    BY <1>2, <2>5 DEF NewestOK
  <2>11. Enqueue(q, c) = e
    BY <1>4, <2>1 DEF e, r
  <2>. QED BY <2>5, <2>7, <2>8, <2>9, <2>10, <2>11 DEF Sound, QueueOK
<1>9. CASE ~q.rebuilding /\ q.running = None
  <2>1. Enqueue(q, c) = Dispatch(known, c)
    BY <1>9 DEF Enqueue, known, ticket
  <2>2. q.waiting = None
    BY <1>9 DEF Sound, QueueOK, WaitingOK
  <2>3. Sound(p, known)
    BY <1>3, <1>4, <1>9, <2>2
       DEF Sound, QueueOK, RunningOK, WaitingOK, TicketOK, NewestOK
  <2>4. CanDispatch(known, c)
    BY <1>4, <1>6, <1>9 DEF CanDispatch, SameIdentity
  <2>5. Sound(p, Start(known, c))
    BY <2>3, <2>4, StartSound DEF CanDispatch
  <2>. QED BY <2>1, <2>4, <2>5 DEF Dispatch
<1>. QED BY <1>1, <1>7, <1>8, <1>9 DEF Queues

\* admit_result_action.
LEMMA AdmitResultSound ==
  ASSUME NEW p, NEW q, Sound(p, q), NEW c \in Candidates, c.plugin = p, AdmitsResult(q, c)
  PROVE  Sound(p, AdmitResult(q, c))
<1> DEFINE known == [q EXCEPT !.ticket = None, !.issued = Remember(@, Ctx(c))]
<1>1. q \in Queues /\ q.issued \in Seq(Contexts)
  BY DEF Sound, Queues
<1>2. Remember(q.issued, Ctx(c)) \in Seq(Contexts)
  BY <1>1, CtxType, RememberLast
<1>3. /\ known \in Queues
      /\ known.gen = q.gen /\ known.inc = q.inc /\ known.rebuilding = FALSE
      /\ known.running = None /\ known.waiting = None /\ known.ticket = None
  BY <1>1, <1>2 DEF Queues, AdmitsResult, SlotsFree
<1>4. Sound(p, known)
  BY <1>3 DEF Sound, QueueOK, RunningOK, WaitingOK, TicketOK, NewestOK
<1>5. SameIdentity(known, c)
  BY <1>3 DEF AdmitsResult, SameIdentity
<1>6. Sound(p, Start(known, c))
  BY <1>3, <1>4, <1>5, StartSound
<1>. QED BY <1>6 DEF AdmitResult

-----------------------------------------------------------------------------
(* Completion *)

\* complete, when a request runs.
LEMMA CompleteSound ==
  ASSUME NEW p, NEW q, NEW live, Sound(p, q), q.running # None
  PROVE  Sound(p, Complete(q, live))
<1> DEFINE r == q.running
           ticket == IF r.req.kind = "command" THEN q.ticket
                     ELSE [req |-> r.req,
                           reason |-> IF Live(r.req, live) THEN r.retirement ELSE "expired"]
           e == [q EXCEPT !.running = None, !.ticket = ticket]
<1>1. q \in Queues /\ r \in RunningRequests
  BY DEF Sound, Queues
<1>2. ticket \in Tickets \cup {None} /\ (ticket # None => ticket.req.kind # "command")
  <2>1. CASE r.req.kind = "command"
    BY <1>1, <2>1 DEF Sound, Queues, QueueOK, TicketOK
  <2>2. CASE r.req.kind # "command"
    BY <1>1, <2>2 DEF RunningRequests, Tickets, Reasons
  <2>. QED BY <2>1, <2>2
<1>3. Complete(q, live) = DispatchWaiting(e)
  BY DEF Complete
<1> HIDE DEF ticket
<1>4. /\ e \in Queues /\ e.running = None /\ e.ticket = ticket
      /\ e.waiting = q.waiting /\ e.gen = q.gen /\ e.inc = q.inc
      /\ e.rebuilding = q.rebuilding
  BY <1>1, <1>2 DEF Queues
<1> HIDE DEF e
<1>5. ~e.rebuilding /\ TicketOK(e)
  BY <1>2, <1>4 DEF Sound, QueueOK, RunningOK, TicketOK
<1>6. Fits(p, e)
  BY <1>4 DEF Sound, QueueOK, WaitingOK, Fits, SameIdentity
<1>7. Sound(p, DispatchWaiting(e))
  BY <1>4, <1>5, <1>6, DispatchWaitingSound
<1>. QED BY <1>3, <1>7

\* claim_action_completion, discard_action_completion, finish_result_action.
LEMMA TakeTicketSound ==
  ASSUME NEW p, NEW q, Sound(p, q)
  PROVE  Sound(p, TakeTicket(q))
<1> DEFINE e == TakeTicket(q)
<1>1. /\ e \in Queues /\ e.running = q.running /\ e.ticket = None
      /\ e.waiting = q.waiting /\ e.gen = q.gen /\ e.inc = q.inc
      /\ e.rebuilding = q.rebuilding /\ e.issued = q.issued
  BY DEF Sound, Queues, TakeTicket
<1> HIDE DEF e
<1>2. QueueOK(p, e) /\ NewestOK(e)
  BY <1>1 DEF Sound, QueueOK, RunningOK, WaitingOK, TicketOK, NewestOK, SameIdentity
<1>. QED BY <1>1, <1>2 DEF Sound, e

-----------------------------------------------------------------------------
(* Retirement and cancellation *)

\* Retiring a running request keeps its slot and takes its currency.
LEMMA RetiredFacts ==
  ASSUME NEW r \in RunningRequests, NEW reason \in Reasons
  PROVE  /\ Retired(r, reason) \in RunningRequests /\ Retired(r, reason) # None
         /\ Retired(r, reason).req = r.req /\ Retired(r, reason).current = FALSE
         /\ Retired(r, reason).retirement = reason
<1>1. Retired(r, reason) \in RunningRequests
  BY DEF Retired, RunningRequests
<1>2. Retired(r, reason) # None
  BY <1>1, NoneAssumption
<1>. QED BY <1>1, <1>2 DEF Retired, RunningRequests

\* A sound queue stays sound when its running request is retired.
LEMMA RetireSlotSound ==
  ASSUME NEW p, NEW q, Sound(p, q), q.running # None, NEW reason \in Reasons \ {"none"}
  PROVE  Sound(p, [q EXCEPT !.running = Retired(q.running, reason)])
<1> DEFINE r == Retired(q.running, reason)
           e == [q EXCEPT !.running = r]
<1>1. q \in Queues /\ q.running \in RunningRequests
  BY DEF Sound, Queues
<1>2. /\ r \in RunningRequests /\ r # None /\ r.req = q.running.req
      /\ r.current = FALSE /\ r.retirement = reason
  BY <1>1, RetiredFacts
<1> HIDE DEF r
<1>3. /\ e \in Queues /\ e.running = r /\ e.ticket = q.ticket
      /\ e.waiting = q.waiting /\ e.gen = q.gen /\ e.inc = q.inc
      /\ e.rebuilding = q.rebuilding /\ e.issued = q.issued
  BY <1>1, <1>2 DEF Queues
<1> HIDE DEF e
<1>4. RunningOK(p, e)
  BY <1>2, <1>3 DEF Sound, QueueOK, RunningOK, SameIdentity
<1>5. WaitingOK(p, e) /\ TicketOK(e) /\ NewestOK(e)
  BY <1>2, <1>3 DEF Sound, QueueOK, WaitingOK, TicketOK, NewestOK, SameIdentity
<1>. QED BY <1>3, <1>4, <1>5 DEF Sound, QueueOK, e, r

\* A sound queue stays sound when its ticket expires.
LEMMA RetireTicketSound ==
  ASSUME NEW p, NEW q, NEW ctx, Sound(p, q)
  PROVE  Sound(p, RetireTicket(q, ctx))
<1>1. CASE Owes(q, ctx)
  <2> DEFINE t == [q.ticket EXCEPT !.reason = "expired"]
             e == [q EXCEPT !.ticket = t]
  <2>1. q \in Queues /\ q.ticket \in Tickets
    BY <1>1 DEF Sound, Queues, Owes
  <2>2. t \in Tickets /\ t.req = q.ticket.req
    BY <2>1, TicketFacts DEF Reasons
  <2> HIDE DEF t
  <2>3. /\ e \in Queues /\ e.running = q.running /\ e.ticket = t
        /\ e.waiting = q.waiting /\ e.gen = q.gen /\ e.inc = q.inc
        /\ e.rebuilding = q.rebuilding /\ e.issued = q.issued
    BY <2>1, <2>2 DEF Queues
  <2> HIDE DEF e
  <2>4. QueueOK(p, e) /\ NewestOK(e)
    BY <1>1, <2>2, <2>3
       DEF Sound, QueueOK, RunningOK, WaitingOK, TicketOK, NewestOK, SameIdentity, Owes
  <2>5. RetireTicket(q, ctx) = e
    BY <1>1 DEF RetireTicket, e, t
  <2>. QED BY <2>3, <2>4, <2>5 DEF Sound
<1>2. CASE ~Owes(q, ctx)
  BY <1>2 DEF RetireTicket
<1>. QED BY <1>1, <1>2

\* retire_context.
LEMMA RetireContextSound ==
  ASSUME NEW p, NEW q, NEW ctx, Sound(p, q)
  PROVE  Sound(p, RetireContext(q, ctx))
<1>1. Sound(p, RetireRunning(q, ctx))
  <2>1. CASE Runs(q, ctx)
    BY <2>1, RetireSlotSound DEF RetireRunning, Runs, Reasons
  <2>2. CASE ~Runs(q, ctx)
    BY <2>2 DEF RetireRunning
  <2>. QED BY <2>1, <2>2
<1>. QED BY <1>1, RetireTicketSound DEF RetireContext

\* Exchanging the publication of a sound queue.
LEMMA PublicationSound ==
  ASSUME NEW p, NEW q, Sound(p, q), NEW fresh \in Tokens
  PROVE  Sound(p, [q EXCEPT !.pub = fresh])
<1> DEFINE e == [q EXCEPT !.pub = fresh]
<1>1. /\ e \in Queues /\ e.running = q.running /\ e.ticket = q.ticket
      /\ e.waiting = q.waiting /\ e.gen = q.gen /\ e.inc = q.inc
      /\ e.rebuilding = q.rebuilding /\ e.issued = q.issued
  BY DEF Sound, Queues
<1> HIDE DEF e
<1>2. QueueOK(p, e) /\ NewestOK(e)
  BY <1>1 DEF Sound, QueueOK, RunningOK, WaitingOK, TicketOK, NewestOK, SameIdentity
<1>. QED BY <1>1, <1>2 DEF Sound, e

\* retire_request_context.
LEMMA RetireRequestSound ==
  ASSUME NEW p, NEW q, NEW ctx, Sound(p, q), NEW fresh \in Tokens
  PROVE  Sound(p, RetireRequest(q, ctx, fresh))
<1>1. Sound(p, RetireContext(q, ctx))
  BY RetireContextSound
<1>2. Sound(p, [RetireContext(q, ctx) EXCEPT !.pub = fresh])
  BY <1>1, PublicationSound
<1>. QED BY <1>2 DEF RetireRequest

\* cancel.
LEMMA CancelSound ==
  ASSUME NEW p, NEW q, NEW ctx, Sound(p, q)
  PROVE  Sound(p, Cancel(q, ctx))
<1>1. CASE Runs(q, ctx) /\ q.running.req.kind = "result"
  <2>1. Cancel(q, ctx) = [q EXCEPT !.running = Retired(q.running, "cancelled")]
    BY <1>1 DEF Cancel
  <2>. QED BY <1>1, <2>1, RetireSlotSound DEF Runs, Reasons
<1>2. CASE Runs(q, ctx) /\ q.running.req.kind # "result"
  <2> DEFINE e == [q EXCEPT !.running = None]
  <2>1. /\ e \in Queues /\ e.running = None /\ e.ticket = q.ticket
        /\ e.waiting = q.waiting /\ e.gen = q.gen /\ e.inc = q.inc
        /\ e.rebuilding = q.rebuilding
    BY DEF Sound, Queues
  <2> HIDE DEF e
  <2>2. ~e.rebuilding /\ TicketOK(e) /\ Fits(p, e)
    BY <1>2, <2>1
       DEF Sound, QueueOK, RunningOK, WaitingOK, TicketOK, Fits, SameIdentity, Runs
  <2>3. Sound(p, DispatchWaiting(e))
    BY <2>1, <2>2, DispatchWaitingSound
  <2>. QED BY <1>2, <2>3 DEF Cancel, e
<1>3. CASE ~Runs(q, ctx) /\ Waits(q, ctx)
  <2> DEFINE e == [q EXCEPT !.waiting = None]
  <2>1. /\ e \in Queues /\ e.running = q.running /\ e.ticket = q.ticket
        /\ e.waiting = None /\ e.gen = q.gen /\ e.inc = q.inc
        /\ e.rebuilding = q.rebuilding
    BY DEF Sound, Queues
  <2> HIDE DEF e
  <2>2. QueueOK(p, e) /\ NewestOK(e)
    BY <2>1 DEF Sound, QueueOK, RunningOK, WaitingOK, TicketOK, NewestOK, SameIdentity
  <2>. QED BY <1>3, <2>1, <2>2 DEF Cancel, Sound, e
<1>4. CASE ~Runs(q, ctx) /\ ~Waits(q, ctx)
  BY <1>4 DEF Cancel
<1>. QED BY <1>1, <1>2, <1>3, <1>4

-----------------------------------------------------------------------------
(* Timeouts and Runtime replacement *)

\* expire_timeouts, when a request runs.
LEMMA ExpireSound ==
  ASSUME NEW p, NEW q, Sound(p, q), q.running # None
  PROVE  Sound(p, ExpireRunning(q))
<1> DEFINE free == [q EXCEPT !.running = None]
           e == ExpireRunning(q)
<1>1. q \in Queues /\ q.gen + 1 \in Nat /\ free \in Queues
  BY DEF Sound, Queues
<1>2. TicketOK(q)
  BY DEF Sound, QueueOK
<1>3. CASE q.waiting = None
  <2>1. /\ e \in Queues /\ e.running = None /\ e.waiting = None /\ e.ticket = q.ticket
    BY <1>1, <1>3 DEF Queues, ExpireRunning, Rebind
  <2> HIDE DEF e
  <2>2. QueueOK(p, e) /\ NewestOK(e)
    BY <1>2, <2>1 DEF QueueOK, RunningOK, WaitingOK, TicketOK, NewestOK
  <2>. QED BY <2>1, <2>2 DEF Sound, e
<1>4. CASE q.waiting # None
  <2> DEFINE new == [q.waiting EXCEPT !.gen = q.gen + 1]
             kept == Forget(q.issued, Ctx(q.waiting))
  <2>1. q.waiting \in Candidates /\ q.issued \in Seq(Contexts)
    BY <1>1, <1>4 DEF Queues
  <2>2. /\ new \in Candidates /\ new.gen = q.gen + 1 /\ new.inc = q.waiting.inc
        /\ new.kind = q.waiting.kind /\ new.plugin = q.waiting.plugin
    BY <1>1, <2>1 DEF Candidates
  <2>3. kept \in Seq(Contexts)
    BY <2>1, ForgetType
  <2>4. /\ Remember(kept, Ctx(new)) \in Seq(Contexts)
        /\ MaxRetained > 0 =>
              /\ Remember(kept, Ctx(new)) # << >>
              /\ Remember(kept, Ctx(new))[Len(Remember(kept, Ctx(new)))] = Ctx(new)
    BY <2>2, <2>3, CtxType, RememberLast
  <2>5. Rebind(free, q.gen + 1)
          = [free EXCEPT !.waiting = new, !.issued = Remember(kept, Ctx(new))]
    <3>1. free.waiting = q.waiting /\ free.issued = q.issued
      BY <1>1 DEF Queues
    <3> HIDE DEF free
    <3>. QED BY <1>4, <3>1 DEF Rebind
  <2> HIDE DEF new, kept
  <2>6. /\ e \in Queues /\ e.running = None /\ e.waiting = new /\ e.ticket = q.ticket
        /\ e.gen = q.gen + 1 /\ e.inc = q.inc /\ e.rebuilding
        /\ e.issued = Remember(kept, Ctx(new))
    BY <1>1, <2>2, <2>4, <2>5 DEF Queues, ExpireRunning
  <2> HIDE DEF e
  <2>7. q.waiting.kind = "command" /\ q.waiting.plugin = p /\ q.waiting.inc = q.inc
    BY <1>4 DEF Sound, QueueOK, WaitingOK, SameIdentity
  <2>8. QueueOK(p, e)
    BY <1>2, <2>2, <2>6, <2>7
       DEF QueueOK, RunningOK, WaitingOK, TicketOK, SameIdentity
  <2>9. NewestOK(e)
    BY <2>4, <2>6 DEF NewestOK
  <2>. QED BY <2>6, <2>8, <2>9 DEF Sound, e
<1>. QED BY <1>3, <1>4

\* runtime_replaced, when it accepts.
LEMMA ReplacedSound ==
  ASSUME NEW p, NEW q, NEW gen, Sound(p, q), CanReplace(q, gen),
         NEW inc \in Nat, NEW fresh \in Tokens
  PROVE  Sound(p, RuntimeReplaced(q, inc, fresh))
<1> DEFINE w == IF q.waiting = None THEN None ELSE [q.waiting EXCEPT !.inc = inc]
           e == [q EXCEPT !.inc = inc, !.pub = fresh, !.rebuilding = FALSE, !.waiting = w]
<1>1. q \in Queues
  BY DEF Sound
<1>2. /\ w \in Candidates \cup {None}
      /\ w # None => /\ w.gen = q.waiting.gen /\ w.inc = inc
                     /\ w.kind = q.waiting.kind /\ w.plugin = q.waiting.plugin
                     /\ q.waiting # None
  BY <1>1 DEF Queues, Candidates
<1>3. RuntimeReplaced(q, inc, fresh) = DispatchWaiting(e)
  BY DEF RuntimeReplaced
<1> HIDE DEF w
<1>4. /\ e \in Queues /\ e.running = None /\ e.waiting = w /\ e.ticket = q.ticket
      /\ e.gen = q.gen /\ e.inc = inc /\ e.rebuilding = FALSE
  BY <1>1, <1>2 DEF Queues, CanReplace
<1> HIDE DEF e
<1>5. TicketOK(e) /\ Fits(p, e)
  BY <1>2, <1>4 DEF Sound, QueueOK, WaitingOK, TicketOK, Fits, SameIdentity
<1>6. Sound(p, DispatchWaiting(e))
  BY <1>4, <1>5, DispatchWaitingSound
<1>. QED BY <1>3, <1>6

-----------------------------------------------------------------------------
(* Whole-plugin operations *)

\* retire_plugin_requests.
LEMMA RetirePluginSound ==
  ASSUME NEW p, NEW q, Sound(p, q), NEW fresh \in Tokens
  PROVE  Sound(p, RetirePlugin(q, fresh))
<1> DEFINE t == IF q.ticket = None THEN None ELSE [q.ticket EXCEPT !.reason = "expired"]
           r == IF q.running = None THEN None ELSE Retired(q.running, "expired")
           e == [q EXCEPT !.pub = fresh, !.ticket = t, !.running = r, !.waiting = None]
<1>1. q \in Queues
  BY DEF Sound
<1>2. t \in Tickets \cup {None} /\ (t # None => q.ticket # None /\ t.req = q.ticket.req)
  BY <1>1, TicketFacts DEF Queues, Reasons
<1>3. /\ r \in RunningRequests \cup {None}
      /\ r # None => /\ q.running # None /\ r.req = q.running.req
                     /\ r.current = FALSE /\ r.retirement = "expired"
  BY <1>1, RetiredFacts DEF Queues, Reasons
<1>4. RetirePlugin(q, fresh) = e
  BY DEF RetirePlugin
<1> HIDE DEF t, r
<1>5. /\ e \in Queues /\ e.running = r /\ e.ticket = t /\ e.waiting = None
      /\ e.gen = q.gen /\ e.inc = q.inc /\ e.rebuilding = q.rebuilding
  BY <1>1, <1>2, <1>3 DEF Queues
<1> HIDE DEF e
<1>6. RunningOK(p, e)
  BY <1>3, <1>5 DEF Sound, QueueOK, RunningOK, SameIdentity
<1>7. WaitingOK(p, e) /\ TicketOK(e) /\ NewestOK(e)
  BY <1>2, <1>5 DEF Sound, QueueOK, WaitingOK, TicketOK, NewestOK
<1>. QED BY <1>4, <1>5, <1>6, <1>7 DEF Sound, QueueOK

\* An emptied queue is sound whatever its identity.
LEMMA EmptiedSound ==
  ASSUME NEW p, NEW e \in Queues, e.running = None, e.waiting = None, TicketOK(e)
  PROVE  Sound(p, e)
BY DEF Sound, QueueOK, RunningOK, WaitingOK, NewestOK

\* invalidate_plugin(None).
LEMMA InvalidateSound ==
  ASSUME NEW p, NEW q, Sound(p, q), NEW fresh \in Tokens
  PROVE  Sound(p, Invalidate(q, fresh))
<1> DEFINE e == Invalidate(q, fresh)
<1>1. e \in Queues /\ e.running = None /\ e.waiting = None /\ e.ticket = q.ticket
  BY DEF Sound, Queues, Invalidate
<1> HIDE DEF e
<1>2. TicketOK(e)
  BY <1>1 DEF Sound, QueueOK, TicketOK
<1>3. Sound(p, e)
  BY <1>1, <1>2, EmptiedSound
<1>. QED BY <1>3 DEF e

\* invalidate_plugin(Some(next)).
LEMMA ActivateSound ==
  ASSUME NEW p, NEW q, Sound(p, q), NEW gen \in Nat, NEW inc \in Nat, NEW fresh \in Tokens
  PROVE  Sound(p, Activate(q, gen, inc, fresh))
<1> DEFINE e == Activate(q, gen, inc, fresh)
<1>1. e \in Queues /\ e.running = None /\ e.waiting = None /\ e.ticket = q.ticket
  BY DEF Sound, Queues, Activate, Invalidate
<1> HIDE DEF e
<1>2. TicketOK(e)
  BY <1>1 DEF Sound, QueueOK, TicketOK
<1>3. Sound(p, e)
  BY <1>1, <1>2, EmptiedSound
<1>. QED BY <1>3 DEF e
=============================================================================
