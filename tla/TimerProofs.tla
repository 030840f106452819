----------------------------- MODULE TimerProofs -----------------------------
(***************************************************************************)
(* Proofs about the plugin timers and their alarms, for any plugins and    *)
(* any bounds: the queue holds exactly the due points of the running       *)
(* timers, the message of a round is saved at most once and only while it  *)
(* is due, every ticket of an alarm is accounted for, and a sound that     *)
(* plays has an owner or a stop on its way.                                *)
(*                                                                         *)
(* The invariant has four parts.  BookInvariant and TimersHold are about   *)
(* the records and the timer worker: rounds are numbered once, a round     *)
(* whose message was saved is not due again.  SoundHeld is about the       *)
(* mailbox, the attention worker and the adapter: an event published       *)
(* without the focus belongs to an earlier epoch once the window has it.   *)
(* AudioHeld ties the two: a ticket to be cancelled never holds a slot     *)
(* again, and a start that lost its reservation lost its slot first.       *)
(***************************************************************************)
EXTENDS AlarmProperties, SequenceTheorems, TLAPS

-----------------------------------------------------------------------------
(* The operations on a record *)

Timers == Records(Keys)

LEMMA NewTyped == NewRecord \in Timers /\ NewRecord.phase = "idle"
  BY DEF NewRecord, Timers, Records, Phases

LEMMA StartDone ==
  ASSUME NEW r \in Timers \cup {None}, NEW run \in Nat
  PROVE  /\ StartRound(r, run) \in Timers
         /\ StartRound(r, run).phase = "running" /\ StartRound(r, run).run = run
         /\ StartRound(r, run).claim = None /\ StartRound(r, run).audio = None
         /\ r # None => StartRound(r, run).audios = r.audios
<1>1. Rec(r) \in Timers /\ (r # None => Rec(r) = r)
  BY NewTyped DEF Rec
<1> DEFINE start == Rec(r)
<1>2. start \in Timers /\ (r # None => start = r)
  BY <1>1
<1> DEFINE step1 == [start EXCEPT !.phase = "running"]
           step2 == [step1 EXCEPT !.round = step1.round + 1]
           step3 == [step2 EXCEPT !.rev = step2.rev + 1]
           step4 == [step3 EXCEPT !.run = run]
           step5 == [step4 EXCEPT !.claim = None]
           step6 == [step5 EXCEPT !.audio = None]
<1>3. StartRound(r, run) = step6
  BY DEF StartRound
<1>4. /\ step1 \in Timers /\ step1.phase = "running" /\ step1.run = start.run
      /\ step1.claim = start.claim /\ step1.audio = start.audio
      /\ step1.audios = start.audios
  BY <1>2 DEF Timers, Records, Phases
<1> HIDE DEF step1
<1>5. /\ step2 \in Timers /\ step2.phase = "running" /\ step2.run = start.run
      /\ step2.claim = start.claim /\ step2.audio = start.audio
      /\ step2.audios = start.audios
  BY <1>4 DEF Timers, Records, Phases
<1> HIDE DEF step2
<1>6. /\ step3 \in Timers /\ step3.phase = "running" /\ step3.run = start.run
      /\ step3.claim = start.claim /\ step3.audio = start.audio
      /\ step3.audios = start.audios
  BY <1>5 DEF Timers, Records, Phases
<1> HIDE DEF step3
<1>7. /\ step4 \in Timers /\ step4.phase = "running" /\ step4.run = run
      /\ step4.claim = start.claim /\ step4.audio = start.audio
      /\ step4.audios = start.audios
  BY <1>6 DEF Timers, Records, Phases
<1> HIDE DEF step4
<1>8. /\ step5 \in Timers /\ step5.phase = "running" /\ step5.run = run
      /\ step5.claim = None /\ step5.audio = start.audio
      /\ step5.audios = start.audios
  BY <1>7 DEF Timers, Records, Phases
<1> HIDE DEF step5
<1>9. /\ step6 \in Timers /\ step6.phase = "running" /\ step6.run = run
      /\ step6.claim = None /\ step6.audio = None /\ step6.audios = start.audios
  BY <1>8 DEF Timers, Records, Phases
<1> HIDE DEF step6
<1>. QED
  BY <1>2, <1>3, <1>9

LEMMA ResumeDone ==
  ASSUME NEW r \in Timers
  PROVE  /\ Resume(r) \in Timers /\ Resume(r).phase = "running"
         /\ Resume(r).run = r.run /\ Resume(r).claim = r.claim /\ Resume(r).audio = r.audio
         /\ Resume(r).audios = r.audios
<1> DEFINE step1 == [r EXCEPT !.phase = "running"]
           step2 == [step1 EXCEPT !.rev = step1.rev + 1]
<1>1. Resume(r) = step2
  BY DEF Resume
<1>2. /\ step1 \in Timers /\ step1.phase = "running" /\ step1.run = r.run
      /\ step1.claim = r.claim /\ step1.audio = r.audio
      /\ step1.audios = r.audios
  BY r \in Timers DEF Timers, Records, Phases
<1> HIDE DEF step1
<1>3. /\ step2 \in Timers /\ step2.phase = "running" /\ step2.run = r.run
      /\ step2.claim = r.claim /\ step2.audio = r.audio
      /\ step2.audios = r.audios
  BY <1>2 DEF Timers, Records, Phases
<1> HIDE DEF step2
<1>. QED
  BY <1>1, <1>3

LEMMA PauseDone ==
  ASSUME NEW r \in Timers
  PROVE  /\ Pause(r) \in Timers /\ Pause(r).phase = "paused"
         /\ Pause(r).run = r.run /\ Pause(r).claim = r.claim /\ Pause(r).audio = r.audio
         /\ Pause(r).audios = r.audios
<1> DEFINE step1 == [r EXCEPT !.phase = "paused"]
           step2 == [step1 EXCEPT !.rev = step1.rev + 1]
<1>1. Pause(r) = step2
  BY DEF Pause
<1>2. /\ step1 \in Timers /\ step1.phase = "paused" /\ step1.run = r.run
      /\ step1.claim = r.claim /\ step1.audio = r.audio
      /\ step1.audios = r.audios
  BY r \in Timers DEF Timers, Records, Phases
<1> HIDE DEF step1
<1>3. /\ step2 \in Timers /\ step2.phase = "paused" /\ step2.run = r.run
      /\ step2.claim = r.claim /\ step2.audio = r.audio
      /\ step2.audios = r.audios
  BY <1>2 DEF Timers, Records, Phases
<1> HIDE DEF step2
<1>. QED
  BY <1>1, <1>3

LEMMA ResetDone ==
  ASSUME NEW r \in Timers
  PROVE  /\ Reset(r) \in Timers /\ Reset(r).phase = "idle" /\ Reset(r).run = r.run
         /\ Reset(r).claim = None /\ Reset(r).audio = None
         /\ Reset(r).audios = r.audios
<1> DEFINE step1 == [r EXCEPT !.phase = "idle"]
           step2 == [step1 EXCEPT !.rev = step1.rev + 1]
           step3 == [step2 EXCEPT !.claim = None]
           step4 == [step3 EXCEPT !.audio = None]
<1>1. Reset(r) = step4
  BY DEF Reset
<1>2. /\ step1 \in Timers /\ step1.phase = "idle" /\ step1.run = r.run
      /\ step1.claim = r.claim /\ step1.audio = r.audio
      /\ step1.audios = r.audios
  BY r \in Timers DEF Timers, Records, Phases
<1> HIDE DEF step1
<1>3. /\ step2 \in Timers /\ step2.phase = "idle" /\ step2.run = r.run
      /\ step2.claim = r.claim /\ step2.audio = r.audio
      /\ step2.audios = r.audios
  BY <1>2 DEF Timers, Records, Phases
<1> HIDE DEF step2
<1>4. /\ step3 \in Timers /\ step3.phase = "idle" /\ step3.run = r.run
      /\ step3.claim = None /\ step3.audio = r.audio /\ step3.audios = r.audios
  BY <1>3 DEF Timers, Records, Phases
<1> HIDE DEF step3
<1>5. /\ step4 \in Timers /\ step4.phase = "idle" /\ step4.run = r.run
      /\ step4.claim = None /\ step4.audio = None /\ step4.audios = r.audios
  BY <1>4 DEF Timers, Records, Phases
<1> HIDE DEF step4
<1>. QED
  BY <1>1, <1>5

LEMMA ClaimDone ==
  ASSUME NEW key \in Keys, NEW r \in Timers
  PROVE  /\ Claim(key, r) \in Timers /\ Claim(key, r).phase = "claiming"
         /\ Claim(key, r).run = r.run /\ Claim(key, r).audio = r.audio
         /\ Claim(key, r).audios = r.audios
         /\ Claim(key, r).claim = ClaimTicket(key, r) /\ ClaimTicket(key, r).key = key
         /\ ClaimTicket(key, r) \in ClaimTickets(Keys)
<1>1. ClaimTicket(key, r) \in ClaimTickets(Keys) /\ ClaimTicket(key, r).key = key
  BY DEF ClaimTicket, ClaimTickets, Timers, Records
<1> DEFINE step1 == [r EXCEPT !.phase = "claiming"]
           step2 == [step1 EXCEPT !.claims = step1.claims + 1]
           step3 == [step2 EXCEPT !.rev = step2.rev + 1]
           step4 == [step3 EXCEPT !.claim = ClaimTicket(key, r)]
           step5 == [step4 EXCEPT !.admitted = FALSE]
<1>2. Claim(key, r) = step5
  BY DEF Claim
<1>3. /\ step1 \in Timers /\ step1.phase = "claiming" /\ step1.run = r.run
      /\ step1.claim = r.claim /\ step1.audio = r.audio
      /\ step1.audios = r.audios
  BY <1>1, <1>1 DEF Timers, Records, Phases
<1> HIDE DEF step1
<1>4. /\ step2 \in Timers /\ step2.phase = "claiming" /\ step2.run = r.run
      /\ step2.claim = r.claim /\ step2.audio = r.audio
      /\ step2.audios = r.audios
  BY <1>3, <1>1 DEF Timers, Records, Phases
<1> HIDE DEF step2
<1>5. /\ step3 \in Timers /\ step3.phase = "claiming" /\ step3.run = r.run
      /\ step3.claim = r.claim /\ step3.audio = r.audio
      /\ step3.audios = r.audios
  BY <1>4, <1>1 DEF Timers, Records, Phases
<1> HIDE DEF step3
<1>6. /\ step4 \in Timers /\ step4.phase = "claiming" /\ step4.run = r.run
      /\ step4.claim = ClaimTicket(key, r) /\ step4.audio = r.audio
      /\ step4.audios = r.audios
  BY <1>5, <1>1 DEF Timers, Records, Phases
<1> HIDE DEF step4
<1>7. /\ step5 \in Timers /\ step5.phase = "claiming" /\ step5.run = r.run
      /\ step5.claim = ClaimTicket(key, r) /\ step5.audio = r.audio
      /\ step5.audios = r.audios
  BY <1>6, <1>1 DEF Timers, Records, Phases
<1> HIDE DEF step5
<1>. QED
  BY <1>2, <1>7, <1>1

LEMMA AdmitDone ==
  ASSUME NEW r \in Timers
  PROVE  /\ AdmitClaim(r) \in Timers /\ AdmitClaim(r).phase = r.phase
         /\ AdmitClaim(r).run = r.run /\ AdmitClaim(r).audio = r.audio
         /\ AdmitClaim(r).claim = r.claim /\ AdmitClaim(r).audios = r.audios
         /\ AdmitClaim(r).round = r.round /\ AdmitClaim(r).rev = r.rev
  BY DEF AdmitClaim, Timers, Records

LEMMA CompleteDone ==
  ASSUME NEW r \in Timers, NEW t \in ClaimTickets(Keys), NEW persisted \in BOOLEAN
  PROVE  /\ CompleteClaim(r, t, persisted) \in Timers
         /\ CompleteClaim(r, t, persisted).phase = IF persisted THEN "fired" ELSE "idle"
         /\ CompleteClaim(r, t, persisted).run = r.run
         /\ CompleteClaim(r, t, persisted).claim = None
         /\ CompleteClaim(r, t, persisted).audio =
               IF persisted THEN [state |-> "issued", ticket |-> IssuedTicket(r, t)]
                            ELSE r.audio
         /\ CompleteClaim(r, t, persisted).audios =
               IF persisted THEN r.audios + 1 ELSE r.audios
         /\ IssuedTicket(r, t) \in Tickets /\ IssuedTicket(r, t).key = t.key
         /\ IssuedTicket(r, t).audio = r.audios + 1
<1>1. /\ IssuedTicket(r, t) \in Tickets /\ IssuedTicket(r, t).key = t.key
      /\ IssuedTicket(r, t).audio = r.audios + 1
  BY DEF IssuedTicket, Tickets, AudioTickets, ClaimTickets, Timers, Records
<1>2. [state |-> "issued", ticket |-> IssuedTicket(r, t)]
        \in [state : AudioStates, ticket : Tickets]
  BY <1>1 DEF AudioStates
<1>3. CASE persisted
  <2> DEFINE step1 == [r EXCEPT !.phase = "fired"]
             step2 == [step1 EXCEPT !.claim = None]
             step3 == [step2 EXCEPT !.audios = step2.audios + 1]
             step4 == [step3 EXCEPT !.rev = step3.rev + 1]
             step5 == [step4 EXCEPT !.audio = [state |-> "issued", ticket |-> IssuedTicket(r, t)]]
  <2>1. CompleteClaim(r, t, persisted) = step5
    BY <1>3 DEF CompleteClaim
  <2>2. /\ step1 \in Timers /\ step1.phase = "fired" /\ step1.run = r.run
        /\ step1.claim = r.claim /\ step1.audio = r.audio
        /\ step1.audios = r.audios
    BY <1>1, <1>2, <1>1, <1>2, <1>3 DEF Timers, Records, Phases, Tickets
  <2> HIDE DEF step1
  <2>3. /\ step2 \in Timers /\ step2.phase = "fired" /\ step2.run = r.run
        /\ step2.claim = None /\ step2.audio = r.audio /\ step2.audios = r.audios
    BY <2>2, <1>1, <1>2, <1>3 DEF Timers, Records, Phases, Tickets
  <2> HIDE DEF step2
  <2>4. /\ step3 \in Timers /\ step3.phase = "fired" /\ step3.run = r.run
        /\ step3.claim = None /\ step3.audio = r.audio
        /\ step3.audios = r.audios + 1
    BY <2>3, <1>1, <1>2, <1>3 DEF Timers, Records, Phases, Tickets
  <2> HIDE DEF step3
  <2>5. /\ step4 \in Timers /\ step4.phase = "fired" /\ step4.run = r.run
        /\ step4.claim = None /\ step4.audio = r.audio
        /\ step4.audios = r.audios + 1
    BY <2>4, <1>1, <1>2, <1>3 DEF Timers, Records, Phases, Tickets
  <2> HIDE DEF step4
  <2>6. /\ step5 \in Timers /\ step5.phase = "fired" /\ step5.run = r.run
        /\ step5.claim = None
        /\ step5.audio = [state |-> "issued", ticket |-> IssuedTicket(r, t)]
        /\ step5.audios = r.audios + 1
    BY <2>5, <1>1, <1>2, <1>3 DEF Timers, Records, Phases, Tickets
  <2> HIDE DEF step5
  <2>. QED
    BY <2>1, <2>6, <1>1, <1>2, <1>3
<1>4. CASE ~persisted
  <2> DEFINE step1 == [r EXCEPT !.phase = "idle"]
             step2 == [step1 EXCEPT !.claim = None]
             step3 == [step2 EXCEPT !.rev = step2.rev + 1]
  <2>1. CompleteClaim(r, t, persisted) = step3
    BY <1>4 DEF CompleteClaim
  <2>2. /\ step1 \in Timers /\ step1.phase = "idle" /\ step1.run = r.run
        /\ step1.claim = r.claim /\ step1.audio = r.audio
        /\ step1.audios = r.audios
    BY <1>1, <1>1, <1>4 DEF Timers, Records, Phases
  <2> HIDE DEF step1
  <2>3. /\ step2 \in Timers /\ step2.phase = "idle" /\ step2.run = r.run
        /\ step2.claim = None /\ step2.audio = r.audio /\ step2.audios = r.audios
    BY <2>2, <1>1, <1>4 DEF Timers, Records, Phases
  <2> HIDE DEF step2
  <2>4. /\ step3 \in Timers /\ step3.phase = "idle" /\ step3.run = r.run
        /\ step3.claim = None /\ step3.audio = r.audio /\ step3.audios = r.audios
    BY <2>3, <1>1, <1>4 DEF Timers, Records, Phases
  <2> HIDE DEF step3
  <2>. QED
    BY <2>1, <2>4, <1>1, <1>4
<1>. QED
  BY <1>3, <1>4

\* A slot changes nothing else of its record.
LEMMA AudioDone ==
  ASSUME NEW r \in Timers \cup {None}, NEW ticket \in Tickets, NEW from \in AudioStates,
         NEW to \in AudioStates
  PROVE  /\ ~Holds(r, from, ticket) => MoveAudio(r, ticket, from, to) = r
         /\ Holds(r, from, ticket) =>
               /\ r # None /\ r.audio = [state |-> from, ticket |-> ticket]
               /\ MoveAudio(r, ticket, from, to) \in Timers
               /\ MoveAudio(r, ticket, from, to).audio = [state |-> to, ticket |-> ticket]
               /\ \A f \in {"phase", "run", "claim", "round", "rev", "audios"} :
                     MoveAudio(r, ticket, from, to)[f] = r[f]
<1>1. CASE ~Holds(r, from, ticket)
  BY <1>1 DEF MoveAudio
<1>2. CASE Holds(r, from, ticket)
  <2> DEFINE slot == [r.audio EXCEPT !.state = to]
             moved == [r EXCEPT !.audio = slot]
  <2>1. r \in Timers /\ r.audio = [state |-> from, ticket |-> ticket] /\ r # None
    BY <1>2 DEF Holds
  <2>2. r.audio \in [state : AudioStates, ticket : Tickets]
    <3>1. [state |-> from, ticket |-> ticket] \in [state : AudioStates, ticket : Tickets]
      OBVIOUS
    <3>. QED
      BY <2>1, <3>1
  <2>3. slot = [state |-> to, ticket |-> ticket]
    BY <2>1, <2>2
  <2>4. slot \in [state : AudioStates, ticket : Tickets]
    BY <2>2
  <2>5. MoveAudio(r, ticket, from, to) = moved
    BY <1>2 DEF MoveAudio
  <2> HIDE DEF slot
  <2>6. moved \in Timers /\ moved.audio = slot /\ moved.phase = r.phase /\ moved.run = r.run
        /\ moved.claim = r.claim /\ moved.round = r.round /\ moved.rev = r.rev
        /\ moved.audios = r.audios
    BY <2>1, <2>4 DEF Timers, Records, Tickets
  <2>. QED
    BY <1>2, <2>1, <2>3, <2>5, <2>6
<1>. QED
  BY <1>1, <1>2

LEMMA ConfirmDone ==
  ASSUME NEW r \in Timers \cup {None}
  PROVE  \/ r = None /\ ConfirmCurrent(r) = None
         \/ /\ r # None /\ ConfirmCurrent(r) \in Timers
            /\ r.audio = None => ConfirmCurrent(r) = r
            /\ r.audio # None =>
                  /\ ConfirmCurrent(r).audio # None
                  /\ ConfirmCurrent(r).audio.state = "confirmed"
                  /\ ConfirmCurrent(r).audio.ticket = r.audio.ticket
            /\ \A f \in {"phase", "run", "claim", "round", "rev", "audios"} :
                  ConfirmCurrent(r)[f] = r[f]
<1>1. CASE r = None
  BY <1>1 DEF ConfirmCurrent
<1>2. CASE r # None /\ r.audio = None
  BY <1>2 DEF ConfirmCurrent
<1>3. CASE r # None /\ r.audio # None
  <2> DEFINE slot == [r.audio EXCEPT !.state = "confirmed"]
             moved == [r EXCEPT !.audio = slot]
  <2>1. r \in Timers
    BY <1>3
  <2>2. r.audio \in [state : AudioStates, ticket : Tickets]
    BY <1>3, <2>1 DEF Timers, Records, Tickets
  <2>3. /\ slot.state = "confirmed" /\ slot.ticket = r.audio.ticket
        /\ slot \in [state : AudioStates, ticket : Tickets]
    BY <2>2 DEF AudioStates
  <2>4. slot # None
    BY <2>3, AlarmAssumption
  <2>5. ConfirmCurrent(r) = moved
    BY <1>3 DEF ConfirmCurrent
  <2> HIDE DEF slot
  <2>6. moved \in Timers /\ moved.audio = slot /\ moved.phase = r.phase /\ moved.run = r.run
        /\ moved.claim = r.claim /\ moved.round = r.round /\ moved.rev = r.rev
        /\ moved.audios = r.audios
    BY <2>1, <2>3 DEF Timers, Records, Tickets
  <2>. QED
    BY <1>3, <2>3, <2>4, <2>5, <2>6
<1>. QED
  BY <1>1, <1>2, <1>3

-----------------------------------------------------------------------------
(* The operations on the mailbox *)

Places == Keys \cup {<<"message", n>> : n \in Nat}
EventRecords ==
    [kind : {"ordinary"}, focused : BOOLEAN]
    \cup [kind : {"published"}, key : Places, ticket : Tickets \cup {None},
          focused : BOOLEAN, epoch : Nat]
    \cup [kind : {"cancelled"}, key : Keys, ticket : Tickets, stop : Nat]
    \cup [kind : {"focus"}, focused : BOOLEAN, stop : Nat]

Boxes == [events : Seq(EventRecords), epoch : Nat, claimed : BOOLEAN,
          owner : Owners \cup {None}, focused : BOOLEAN, terminal : BOOLEAN]

In(m) == {m.events[i] : i \in DOMAIN m.events}

LEMMA TicketKey == \A t \in Tickets : t.key \in Keys
  BY DEF Tickets, AudioTickets

\* Every kind of event the coordinator posts.
LEMMA EventTyped ==
  ASSUME NEW e \in EventRecords
  PROVE  /\ e.kind \in {"ordinary", "published", "cancelled", "focus"}
         /\ e.kind = "ordinary" => e.focused \in BOOLEAN
         /\ e.kind = "published" => /\ e.ticket \in Tickets \cup {None}
                                    /\ e.focused \in BOOLEAN /\ e.epoch \in Nat
         /\ e.kind = "cancelled" => e.ticket \in Tickets /\ e.stop \in Nat
         /\ e.kind = "focus" => e.focused \in BOOLEAN /\ e.stop \in Nat
  BY DEF EventRecords

LEMMA PublishedTyped ==
  ASSUME NEW key \in Places, NEW ticket \in Tickets \cup {None}, NEW focused \in BOOLEAN,
         NEW epoch \in Nat
  PROVE  Published(key, ticket, focused, epoch) \in EventRecords
  BY DEF Published, EventRecords

LEMMA CancelledTyped ==
  ASSUME NEW ticket \in Tickets, NEW stop \in Nat
  PROVE  Cancelled(ticket, stop) \in EventRecords
  BY TicketKey DEF Cancelled, EventRecords

LEMMA FocusTyped ==
  ASSUME NEW focused \in BOOLEAN, NEW stop \in Nat
  PROVE  Focus(focused, stop) \in EventRecords /\ Ordinary(focused) \in EventRecords
  BY DEF Focus, Ordinary, EventRecords

\* Post: the event joins the others.
LEMMA PostDone ==
  ASSUME NEW m \in Boxes, NEW e \in EventRecords
  PROVE  /\ Post(m, e) \in Boxes /\ In(Post(m, e)) = In(m) \cup {e}
         /\ Post(m, e).owner = m.owner /\ Post(m, e).epoch = m.epoch
         /\ Post(m, e).focused = m.focused /\ Post(m, e).terminal = m.terminal
         /\ Post(m, e).claimed = m.claimed
<1>1. m.events \in Seq(EventRecords)
  BY DEF Boxes
<1> DEFINE grown == Append(m.events, e)
<1>2. /\ grown \in Seq(EventRecords) /\ Len(grown) = Len(m.events) + 1
      /\ \A i \in 1..Len(m.events) : grown[i] = m.events[i]
      /\ grown[Len(m.events) + 1] = e
      /\ DOMAIN grown = 1..(Len(m.events) + 1) /\ DOMAIN m.events = 1..Len(m.events)
      /\ Len(m.events) \in Nat
  BY <1>1, AppendProperties
<1>3. Post(m, e) = [m EXCEPT !.events = grown]
  BY DEF Post
<1> HIDE DEF grown
<1>4. /\ Post(m, e) \in Boxes /\ Post(m, e).events = grown
      /\ Post(m, e).owner = m.owner /\ Post(m, e).epoch = m.epoch
      /\ Post(m, e).focused = m.focused /\ Post(m, e).terminal = m.terminal
      /\ Post(m, e).claimed = m.claimed
  BY <1>2, <1>3 DEF Boxes
<1>5. In(Post(m, e)) = In(m) \cup {e}
  <2>1. ASSUME NEW x \in In(Post(m, e))
        PROVE  x \in In(m) \cup {e}
    <3>1. PICK i \in DOMAIN grown : x = grown[i]
      BY <1>4 DEF In
    <3>. QED
      BY <1>2, <3>1 DEF In
  <2>2. ASSUME NEW x \in In(m)
        PROVE  x \in In(Post(m, e))
    <3>1. PICK i \in DOMAIN m.events : x = m.events[i]
      BY DEF In
    <3>2. i \in DOMAIN grown /\ grown[i] = x
      BY <1>2, <3>1
    <3>. QED
      BY <1>4, <3>2 DEF In
  <2>3. e \in In(Post(m, e))
    BY <1>2, <1>4 DEF In
  <2>. QED
    BY <2>1, <2>2, <2>3
<1>. QED
  BY <1>4, <1>5

\* AdvanceEpoch: nobody owns the sound, and a new epoch begins.
LEMMA AdvanceDone ==
  ASSUME NEW m \in Boxes
  PROVE  /\ AdvanceEpoch(m) \in Boxes /\ In(AdvanceEpoch(m)) = In(m)
         /\ AdvanceEpoch(m).owner = None /\ AdvanceEpoch(m).epoch = m.epoch + 1
         /\ AdvanceEpoch(m).focused = m.focused /\ AdvanceEpoch(m).terminal = m.terminal
<1> DEFINE step1 == [m EXCEPT !.owner = None]
           step2 == [step1 EXCEPT !.claimed = FALSE]
           step3 == [step2 EXCEPT !.epoch = step2.epoch + 1]
<1>1. AdvanceEpoch(m) = step3
  BY DEF AdvanceEpoch
<1>2. /\ step1 \in Boxes /\ step1.owner = None /\ step1.events = m.events
      /\ step1.epoch = m.epoch /\ step1.focused = m.focused
      /\ step1.terminal = m.terminal
  BY m \in Boxes DEF Boxes
<1> HIDE DEF step1
<1>3. /\ step2 \in Boxes /\ step2.owner = None /\ step2.events = m.events
      /\ step2.epoch = m.epoch /\ step2.focused = m.focused
      /\ step2.terminal = m.terminal
  BY <1>2 DEF Boxes
<1> HIDE DEF step2
<1>4. /\ step3 \in Boxes /\ step3.owner = None /\ step3.events = m.events
      /\ step3.epoch = m.epoch + 1 /\ step3.focused = m.focused
      /\ step3.terminal = m.terminal
  BY <1>3 DEF Boxes
<1> HIDE DEF step3
<1>. QED
  BY <1>1, <1>4 DEF In

\* PublishTimer: only what waited in the slot goes.
LEMMA VacatedDone ==
  ASSUME NEW events \in Seq(EventRecords), NEW key
  PROVE  /\ Vacated(events, key) \in Seq(EventRecords)
         /\ \A i \in DOMAIN Vacated(events, key) :
                \E j \in DOMAIN events : Vacated(events, key)[i] = events[j]
         /\ \A j \in DOMAIN events :
                \/ \E i \in DOMAIN Vacated(events, key) : Vacated(events, key)[i] = events[j]
                \/ events[j].kind = "published" /\ events[j].key = key
<1> DEFINE slot == {i \in DOMAIN events : events[i].kind = "published" /\ events[i].key = key}
<1>1. CASE slot = {}
  BY <1>1 DEF Vacated
<1>2. CASE slot # {}
  <2> DEFINE n == CHOOSE i \in slot : TRUE
  <2>1. n \in slot
    BY <1>2
  <2>2. Vacated(events, key) = RemoveAt(events, n)
    BY <1>2 DEF Vacated
  <2>3. /\ n \in 1..Len(events) /\ Len(events) \in Nat /\ DOMAIN events = 1..Len(events)
        /\ events[n].kind = "published" /\ events[n].key = key
    BY <2>1
  <2> HIDE DEF n, slot
  <2> DEFINE front == SubSeq(events, 1, n - 1)
             back == SubSeq(events, n + 1, Len(events))
  <2>4. /\ front \in Seq(EventRecords) /\ Len(front) = n - 1
        /\ \A i \in 1..(n - 1) : front[i] = events[i]
    <3>1. n - 1 \in Int /\ 1 \in Int /\ (n - 1) - 1 + 1 = n - 1
      BY <2>3
    <3>2. \A i \in 1..(n - 1) : events[i] \in EventRecords /\ 1 + i - 1 = i
      BY <2>3
    <3>3. /\ front \in Seq(EventRecords)
          /\ Len(front) = IF 1 <= n - 1 THEN (n - 1) - 1 + 1 ELSE 0
          /\ \A i \in 1..((n - 1) - 1 + 1) : front[i] = events[1 + i - 1]
      BY <3>1, <3>2, SubSeqProperties
    <3> HIDE DEF front
    <3>4. Len(front) = n - 1
      <4>1. 1 <= n - 1 \/ n = 1
        BY <2>3
      <4>2. CASE 1 <= n - 1
        BY <3>1, <3>3, <4>2
      <4>3. CASE n = 1
        BY <3>3, <4>3
      <4>. QED
        BY <4>1, <4>2, <4>3
    <3>5. ASSUME NEW i \in 1..(n - 1)
          PROVE  front[i] = events[i]
      <4>1. i \in 1..((n - 1) - 1 + 1) /\ 1 + i - 1 = i
        BY <2>3
      <4>2. front[i] = events[1 + i - 1]
        BY <3>3, <4>1
      <4>. QED
        BY <4>1, <4>2
    <3>. QED
      BY <3>3, <3>4, <3>5
  <2>5. /\ back \in Seq(EventRecords) /\ Len(back) = Len(events) - n
        /\ \A i \in 1..(Len(events) - n) : back[i] = events[n + i]
    <3>1. n + 1 \in Int /\ Len(events) \in Int /\ Len(events) - (n + 1) + 1 = Len(events) - n
      BY <2>3
    <3>2. \A i \in (n + 1)..Len(events) : events[i] \in EventRecords
      BY <2>3
    <3>3. /\ back \in Seq(EventRecords)
          /\ Len(back) = IF n + 1 <= Len(events) THEN Len(events) - (n + 1) + 1 ELSE 0
          /\ \A i \in 1..(Len(events) - (n + 1) + 1) : back[i] = events[(n + 1) + i - 1]
      BY <3>1, <3>2, SubSeqProperties
    <3> HIDE DEF back
    <3>4. Len(back) = Len(events) - n
      <4> DEFINE last == Len(events)
      <4>0. n \in Nat /\ last \in Nat /\ n <= last
        BY <2>3
      <4> HIDE DEF last
      <4>1. n + 1 <= last \/ n = last
        BY <4>0
      <4>2. CASE n + 1 <= last
        BY <3>1, <3>3, <4>2 DEF last
      <4>3. CASE n = last
        BY <2>3, <3>3, <4>3 DEF last
      <4>. QED
        BY <4>1, <4>2, <4>3
    <3>5. ASSUME NEW i \in 1..(Len(events) - n)
          PROVE  back[i] = events[n + i]
      <4>1. i \in 1..(Len(events) - (n + 1) + 1) /\ (n + 1) + i - 1 = n + i
        BY <2>3
      <4>2. back[i] = events[(n + 1) + i - 1]
        BY <3>3, <4>1
      <4>. QED
        BY <4>1, <4>2
    <3>. QED
      BY <3>3, <3>4, <3>5
  <2>6. Vacated(events, key) = front \o back
    BY <2>2 DEF RemoveAt
  <2> HIDE DEF front, back
  <2> DEFINE rest == front \o back
  <2>7. /\ rest \in Seq(EventRecords) /\ Len(rest) = Len(events) - 1
        /\ DOMAIN rest = 1..(Len(events) - 1)
        /\ \A i \in 1..(n - 1) : rest[i] = front[i]
        /\ \A i \in 1..(Len(events) - n) : rest[n - 1 + i] = back[i]
    <3>1. /\ rest \in Seq(EventRecords) /\ Len(rest) = Len(front) + Len(back)
          /\ \A i \in 1..Len(rest) : rest[i] = IF i <= Len(front) THEN front[i]
                                                ELSE back[i - Len(front)]
      BY <2>4, <2>5, ConcatProperties
    <3> HIDE DEF rest
    <3>2. Len(front) + Len(back) = Len(events) - 1
      BY <2>3, <2>4, <2>5
    <3>3. ASSUME NEW i \in 1..(Len(events) - n)
          PROVE  rest[n - 1 + i] = back[i]
      <4>1. n - 1 + i \in 1..Len(rest) /\ ~(n - 1 + i <= Len(front))
            /\ (n - 1 + i) - Len(front) = i
        BY <2>3, <2>4, <3>1, <3>2
      <4>. QED
        BY <3>1, <4>1
    <3>4. ASSUME NEW i \in 1..(n - 1)
          PROVE  rest[i] = front[i]
      <4>1. i \in 1..Len(rest) /\ i <= Len(front)
        BY <2>3, <2>4, <3>1, <3>2
      <4>. QED
        BY <3>1, <4>1
    <3>5. DOMAIN rest = 1..(Len(events) - 1)
      BY <3>1, <3>2
    <3>. QED
      BY <3>1, <3>2, <3>3, <3>4, <3>5
  <2> HIDE DEF rest
  <2>8. ASSUME NEW i \in DOMAIN rest
        PROVE  \E j \in DOMAIN events : rest[i] = events[j]
    <3>1. CASE i <= n - 1
      <4>1. i \in 1..(n - 1) /\ i \in DOMAIN events
        BY <2>3, <2>7, <3>1
      <4>. QED
        BY <2>4, <2>7, <4>1
    <3>2. CASE ~(i <= n - 1)
      <4> DEFINE k == i - n + 1
      <4>1. k \in 1..(Len(events) - n) /\ n - 1 + k = i
        BY <2>3, <2>7, <3>2
      <4>2. n + k \in DOMAIN events
        BY <2>3, <4>1
      <4> HIDE DEF k
      <4>3. rest[i] = back[k] /\ back[k] = events[n + k]
        BY <2>5, <2>7, <4>1
      <4>. QED
        BY <4>2, <4>3
    <3>. QED
      BY <3>1, <3>2
  <2>9. ASSUME NEW j \in DOMAIN events, j # n
        PROVE  \E i \in DOMAIN rest : rest[i] = events[j]
    <3>1. CASE j <= n - 1
      <4>1. j \in 1..(n - 1) /\ j \in DOMAIN rest
        BY <2>3, <2>7, <3>1
      <4>. QED
        BY <2>4, <2>7, <4>1
    <3>2. CASE ~(j <= n - 1)
      <4>1. j - n \in 1..(Len(events) - n) /\ n + (j - n) = j
            /\ n - 1 + (j - n) \in DOMAIN rest
        BY <2>3, <2>7, <2>9, <3>2
      <4>. QED
        BY <2>5, <2>7, <4>1
    <3>. QED
      BY <3>1, <3>2
  <2>10. Vacated(events, key) = rest
    BY <2>6 DEF rest
  <2>. QED
    BY <2>3, <2>7, <2>8, <2>9, <2>10
<1>. QED
  BY <1>1, <1>2

LEMMA PublishDone ==
  ASSUME NEW m \in Boxes, NEW key \in Places, NEW ticket \in Tickets \cup {None}
  PROVE  LET next == PublishTimer(m, key, ticket)
             event == Published(key, ticket, m.focused, m.epoch) IN
         /\ next \in Boxes /\ event \in EventRecords /\ event \in In(next)
         /\ In(next) \subseteq In(m) \cup {event}
         /\ \A e \in In(m) : e \in In(next) \/ (e.kind = "published" /\ e.key = key)
         /\ next.owner = m.owner /\ next.epoch = m.epoch
         /\ next.focused = m.focused /\ next.terminal = m.terminal
<1> DEFINE event == Published(key, ticket, m.focused, m.epoch)
           rest == Vacated(m.events, key)
           cleared == [m EXCEPT !.events = rest]
<1>1. m.events \in Seq(EventRecords) /\ m.focused \in BOOLEAN /\ m.epoch \in Nat
  BY DEF Boxes
<1>2. event \in EventRecords
  BY <1>1, PublishedTyped
<1>3. /\ rest \in Seq(EventRecords)
      /\ \A i \in DOMAIN rest : \E j \in DOMAIN m.events : rest[i] = m.events[j]
      /\ \A j \in DOMAIN m.events :
             \/ \E i \in DOMAIN rest : rest[i] = m.events[j]
             \/ m.events[j].kind = "published" /\ m.events[j].key = key
  BY <1>1, VacatedDone
<1>4. PublishTimer(m, key, ticket) = Post(cleared, event)
  BY DEF PublishTimer
<1> HIDE DEF rest, event
<1>5. /\ cleared \in Boxes /\ cleared.events = rest /\ cleared.owner = m.owner
      /\ cleared.epoch = m.epoch /\ cleared.focused = m.focused
      /\ cleared.terminal = m.terminal
  BY <1>3 DEF Boxes
<1> HIDE DEF cleared
<1>6. In(cleared) \subseteq In(m)
  BY <1>3, <1>5 DEF In
<1>7. \A e \in In(m) : e \in In(cleared) \/ (e.kind = "published" /\ e.key = key)
  <2> SUFFICES ASSUME NEW j \in DOMAIN m.events
               PROVE  \/ m.events[j] \in In(cleared)
                      \/ m.events[j].kind = "published" /\ m.events[j].key = key
    BY DEF In
  <2>. QED
    BY <1>3, <1>5 DEF In
<1>8. /\ Post(cleared, event) \in Boxes /\ In(Post(cleared, event)) = In(cleared) \cup {event}
      /\ Post(cleared, event).owner = cleared.owner
      /\ Post(cleared, event).epoch = cleared.epoch
      /\ Post(cleared, event).focused = cleared.focused
      /\ Post(cleared, event).terminal = cleared.terminal
  BY <1>2, <1>5, PostDone
<1>. QED
  BY <1>2, <1>4, <1>5, <1>6, <1>7, <1>8 DEF event

\* CancelTimer: the owner that is cancelled is told to stop.
LEMMA CancelDone ==
  ASSUME NEW m \in Boxes, NEW t \in Tickets
  PROVE  LET next == CancelTimer(m, t) IN
         /\ next \in Boxes /\ next.focused = m.focused /\ next.terminal = m.terminal
         /\ \/ /\ m.owner # None /\ m.owner.ticket = t
               /\ StopKey(m) \in Nat /\ Cancelled(t, StopKey(m)) \in EventRecords
               /\ next.owner = None /\ next.epoch = m.epoch + 1
               /\ In(next) = In(m) \cup {Cancelled(t, StopKey(m))}
            \/ /\ ~(m.owner # None /\ m.owner.ticket = t)
               /\ Cancelled(t, 0) \in EventRecords
               /\ next.owner = m.owner /\ next.epoch = m.epoch
               /\ In(next) = In(m) \cup {Cancelled(t, 0)}
<1>1. StopKey(m) \in Nat
  BY DEF StopKey, Playing, Boxes, Owners
<1>2. Cancelled(t, StopKey(m)) \in EventRecords /\ Cancelled(t, 0) \in EventRecords
  BY <1>1, CancelledTyped
<1>3. CASE m.owner # None /\ m.owner.ticket = t
  <2>1. CancelTimer(m, t) = Post(AdvanceEpoch(m), Cancelled(t, StopKey(m)))
    BY <1>3 DEF CancelTimer
  <2>. QED
    BY <1>1, <1>2, <1>3, <2>1, AdvanceDone, PostDone
<1>4. CASE ~(m.owner # None /\ m.owner.ticket = t)
  <2>1. CancelTimer(m, t) = Post(m, Cancelled(t, 0))
    BY <1>4 DEF CancelTimer
  <2>. QED
    BY <1>2, <1>4, <2>1, PostDone
<1>. QED
  BY <1>3, <1>4

\* AdmitFocus: focus takes the sound from whoever owns it.
LEMMA FocusDone ==
  ASSUME NEW m \in Boxes, NEW focused \in BOOLEAN
  PROVE  LET next == AdmitFocus(m, focused) IN
         /\ next \in Boxes /\ (next.focused <=> focused) /\ next.terminal = m.terminal
         /\ \/ /\ focused /\ StopKey(m) \in Nat /\ Focus(TRUE, StopKey(m)) \in EventRecords
               /\ next.owner = None /\ next.epoch = m.epoch + 1
               /\ In(next) = In(m) \cup {Focus(TRUE, StopKey(m))}
            \/ /\ ~focused /\ Focus(FALSE, 0) \in EventRecords
               /\ next.owner = m.owner /\ next.epoch = m.epoch
               /\ In(next) = In(m) \cup {Focus(FALSE, 0)}
<1>1. StopKey(m) \in Nat
  BY DEF StopKey, Playing, Boxes, Owners
<1>2. Focus(TRUE, StopKey(m)) \in EventRecords /\ Focus(FALSE, 0) \in EventRecords
  BY <1>1, FocusTyped
<1>3. CASE focused
  <2> DEFINE advanced == AdvanceEpoch(m)
             told == [advanced EXCEPT !.focused = TRUE]
  <2>1. AdmitFocus(m, focused) = Post(told, Focus(TRUE, StopKey(m)))
    BY <1>3 DEF AdmitFocus
  <2>2. /\ advanced \in Boxes /\ In(advanced) = In(m) /\ advanced.owner = None
        /\ advanced.epoch = m.epoch + 1 /\ advanced.terminal = m.terminal
    BY AdvanceDone
  <2> HIDE DEF advanced
  <2>3. /\ told \in Boxes /\ told.events = advanced.events /\ told.owner = None
        /\ told.epoch = m.epoch + 1 /\ told.terminal = m.terminal /\ told.focused = TRUE
    BY <2>2 DEF Boxes
  <2> HIDE DEF told
  <2>4. In(told) = In(m)
    BY <2>2, <2>3 DEF In
  <2>5. /\ Post(told, Focus(TRUE, StopKey(m))) \in Boxes
        /\ In(Post(told, Focus(TRUE, StopKey(m)))) = In(told) \cup {Focus(TRUE, StopKey(m))}
        /\ Post(told, Focus(TRUE, StopKey(m))).owner = None
        /\ Post(told, Focus(TRUE, StopKey(m))).epoch = m.epoch + 1
        /\ Post(told, Focus(TRUE, StopKey(m))).terminal = m.terminal
        /\ Post(told, Focus(TRUE, StopKey(m))).focused = TRUE
    BY <1>2, <2>3, PostDone
  <2>. QED
    BY <1>1, <1>2, <1>3, <2>1, <2>4, <2>5
<1>4. CASE ~focused
  <2> DEFINE told == [m EXCEPT !.focused = FALSE]
  <2>1. AdmitFocus(m, focused) = Post(told, Focus(FALSE, 0))
    BY <1>4 DEF AdmitFocus
  <2>2. /\ told \in Boxes /\ told.events = m.events /\ told.owner = m.owner
        /\ told.epoch = m.epoch /\ told.terminal = m.terminal /\ told.focused = FALSE
    BY DEF Boxes
  <2> HIDE DEF told
  <2>3. In(told) = In(m)
    BY <2>2 DEF In
  <2>4. /\ Post(told, Focus(FALSE, 0)) \in Boxes
        /\ In(Post(told, Focus(FALSE, 0))) = In(told) \cup {Focus(FALSE, 0)}
        /\ Post(told, Focus(FALSE, 0)).owner = m.owner
        /\ Post(told, Focus(FALSE, 0)).epoch = m.epoch
        /\ Post(told, Focus(FALSE, 0)).terminal = m.terminal
        /\ Post(told, Focus(FALSE, 0)).focused = FALSE
    BY <1>2, <2>2, PostDone
  <2>. QED
    BY <1>2, <1>4, <2>1, <2>3, <2>4
<1>. QED
  BY <1>3, <1>4

\* Reserve, Play, Terminate and the taking of an event.
LEMMA ReserveDone ==
  ASSUME NEW m \in Boxes, NEW t \in Tickets
  PROVE  /\ Reserve(m, t) \in Boxes /\ In(Reserve(m, t)) = In(m)
         /\ Reserve(m, t).owner = [ticket |-> t, epoch |-> m.epoch, phase |-> "reserved"]
         /\ Reserve(m, t).owner \in Owners
         /\ Reserve(m, t).epoch = m.epoch /\ Reserve(m, t).focused = m.focused
         /\ Reserve(m, t).terminal = m.terminal
<1> DEFINE reserved == [ticket |-> t, epoch |-> m.epoch, phase |-> "reserved"]
           taken == [m EXCEPT !.claimed = TRUE]
           whole == [taken EXCEPT !.owner = reserved]
<1>1. reserved \in Owners
  BY DEF Owners, Boxes
<1>2. Reserve(m, t) = whole
  BY DEF Reserve
<1>3. /\ taken \in Boxes /\ taken.events = m.events /\ taken.epoch = m.epoch
      /\ taken.focused = m.focused /\ taken.terminal = m.terminal
  BY DEF Boxes
<1> HIDE DEF taken, reserved
<1>4. /\ whole \in Boxes /\ whole.events = m.events /\ whole.epoch = m.epoch
      /\ whole.focused = m.focused /\ whole.terminal = m.terminal /\ whole.owner = reserved
  BY <1>1, <1>3 DEF Boxes
<1> HIDE DEF whole
<1>. QED
  BY <1>1, <1>2, <1>4 DEF In, reserved

LEMMA PlayDone ==
  ASSUME NEW m \in Boxes, m.owner # None
  PROVE  /\ Play(m) \in Boxes /\ In(Play(m)) = In(m)
         /\ Play(m).owner # None /\ Play(m).owner.phase = "playing"
         /\ Play(m).owner.ticket = m.owner.ticket /\ Play(m).owner.epoch = m.owner.epoch
         /\ Play(m).epoch = m.epoch /\ Play(m).focused = m.focused
         /\ Play(m).terminal = m.terminal
<1> DEFINE playing == [m.owner EXCEPT !.phase = "playing"]
           whole == [m EXCEPT !.owner = playing]
<1>1. m.owner \in Owners
  BY DEF Boxes
<1>2. /\ playing \in Owners /\ playing.phase = "playing" /\ playing.ticket = m.owner.ticket
      /\ playing.epoch = m.owner.epoch
  BY <1>1 DEF Owners
<1>3. playing # None
  BY <1>2, AlarmAssumption
<1>4. Play(m) = whole
  BY DEF Play
<1> HIDE DEF playing
<1>5. /\ whole \in Boxes /\ whole.events = m.events /\ whole.epoch = m.epoch
      /\ whole.focused = m.focused /\ whole.terminal = m.terminal /\ whole.owner = playing
  BY <1>2 DEF Boxes
<1> HIDE DEF whole
<1>. QED
  BY <1>2, <1>3, <1>4, <1>5 DEF In

LEMMA TerminateDone ==
  ASSUME NEW m \in Boxes
  PROVE  /\ Terminate(m) \in Boxes /\ In(Terminate(m)) = In(m)
         /\ Terminate(m).terminal = TRUE /\ Terminate(m).owner = m.owner
         /\ Terminate(m).epoch = m.epoch /\ Terminate(m).focused = m.focused
<1> DEFINE whole == [m EXCEPT !.terminal = TRUE]
<1>1. /\ whole \in Boxes /\ whole.events = m.events /\ whole.owner = m.owner
      /\ whole.epoch = m.epoch /\ whole.focused = m.focused /\ whole.terminal = TRUE
  BY DEF Boxes
<1>2. Terminate(m) = whole
  BY DEF Terminate
<1> HIDE DEF whole
<1>. QED
  BY <1>1, <1>2 DEF In

LEMMA TailDone ==
  ASSUME NEW m \in Boxes, m.events # << >>
  PROVE  LET next == [m EXCEPT !.events = Tail(@)] IN
         /\ next \in Boxes /\ In(m) = In(next) \cup {Head(m.events)}
         /\ Head(m.events) \in EventRecords
         /\ next.owner = m.owner /\ next.epoch = m.epoch
         /\ next.focused = m.focused /\ next.terminal = m.terminal
<1> DEFINE rest == Tail(m.events)
           next == [m EXCEPT !.events = rest]
<1>1. m.events \in Seq(EventRecords)
  BY DEF Boxes
<1>2. /\ Head(m.events) \in EventRecords /\ rest \in Seq(EventRecords)
      /\ Len(rest) = Len(m.events) - 1 /\ Len(m.events) \in Nat \ {0}
      /\ \A i \in 1..Len(rest) : rest[i] = m.events[i + 1]
      /\ Head(m.events) = m.events[1]
      /\ DOMAIN m.events = 1..Len(m.events) /\ DOMAIN rest = 1..Len(rest)
  BY <1>1, HeadTailProperties, EmptySeq
<1> HIDE DEF rest
<1>3. /\ next \in Boxes /\ next.events = rest /\ next.owner = m.owner
      /\ next.epoch = m.epoch /\ next.focused = m.focused /\ next.terminal = m.terminal
  BY <1>2 DEF Boxes
<1> HIDE DEF next
<1>4. ASSUME NEW x \in In(m)
      PROVE  x \in In(next) \cup {Head(m.events)}
  <2>1. PICK i \in DOMAIN m.events : x = m.events[i]
    BY DEF In
  <2>2. CASE i = 1
    BY <1>2, <2>1, <2>2
  <2>3. CASE i # 1
    <3>1. i - 1 \in DOMAIN rest /\ rest[i - 1] = x
      BY <1>2, <2>1, <2>3
    <3>. QED
      BY <1>3, <3>1 DEF In
  <2>. QED
    BY <2>2, <2>3
<1>5. ASSUME NEW x \in In(next)
      PROVE  x \in In(m)
  <2>1. PICK i \in DOMAIN rest : x = rest[i]
    BY <1>3 DEF In
  <2>2. i + 1 \in DOMAIN m.events /\ m.events[i + 1] = x
    BY <1>2, <2>1
  <2>. QED
    BY <2>2 DEF In
<1>6. Head(m.events) \in In(m)
  BY <1>2 DEF In
<1>. QED
  BY <1>2, <1>3, <1>4, <1>5, <1>6 DEF next, rest

-----------------------------------------------------------------------------
(* The timers: what holds of the records, the queue and the saved messages *)

Saved == {saved[i] : i \in DOMAIN saved}
Running(k) == timers[k] # None /\ timers[k].phase = "running"

BookTyped ==
    /\ active \in [Plugins -> 0..MaxActivation]
    /\ activation \in 0..MaxActivation
    /\ \A p \in Plugins : active[p] <= activation
    /\ runs \in Nat /\ saved \in Seq(Nat)

TimersTyped == timers \in [Keys -> Timers \cup {None}]

WorkerTyped ==
    \/ tw = Idle
    \/ tw \in [pc : {"commit"}, ticket : ClaimTickets(Keys)]
    \/ tw \in [pc : {"complete"}, ticket : ClaimTickets(Keys), persisted : BOOLEAN]
    \/ tw \in [pc : {"publish"}, ticket : Tickets \cup {None}]
    \/ tw \in [pc : {"confirm"}, tickets : SUBSET Tickets]

\* Every item belongs to a running timer, and every running timer has its item.
Queued ==
    /\ \A i \in queue : i.key \in Keys /\ Running(i.key) /\ i = QueueItem(i.key, timers[i.key])
    /\ \A k \in Keys : Running(k) => QueueItem(k, timers[k]) \in queue

\* A claim belongs to a claiming record, and tickets to the record that holds them.
SlotOK(k, r) ==
    /\ r.claim # None <=> r.phase = "claiming"
    /\ r.claim # None => r.claim.key = k
    /\ r.audio # None => r.audio.ticket.key = k /\ r.audio.ticket.audio <= r.audios
SlotsHeld == \A k \in Keys : timers[k] # None => SlotOK(k, timers[k])

\* Rounds are numbered once, and a round whose message was saved is not due again.
RunsCounted ==
    /\ \A n \in Saved : n <= runs
    /\ \A k \in Keys : timers[k] # None => timers[k].run <= runs
    /\ \A k, j \in Keys :
          timers[k] # None /\ timers[j] # None /\ timers[k].run = timers[j].run => k = j
DueUnsaved ==
    \A k \in Keys : timers[k] # None =>
        /\ timers[k].phase \in {"running", "paused"} => timers[k].run \notin Saved
        /\ timers[k].phase = "claiming" /\ tw.pc = "commit" /\ tw.ticket = timers[k].claim
              => timers[k].run \notin Saved

TimersHold == TimersTyped /\ Queued /\ SlotsHeld /\ RunsCounted /\ DueUnsaved

LEMMA KeyOf == \A k \in Keys : \E p \in Plugins, n \in 1..MaxActivation : k = <<p, n>>
  BY DEF Keys

LEMMA KeyTyped ==
  ASSUME BookTyped, NEW p \in Plugins, active[p] # 0
  PROVE  Key(p) \in Keys
  BY AlarmAssumption DEF BookTyped, Key, Keys

LEMMA TimerNotNone == \A r \in Timers : r # None
  BY AlarmAssumption DEF Timers

\* SetTimer puts the record and its item in place of what was there.
LEMMA SetTimerKeeps ==
  ASSUME BookTyped, TimersHold, NEW k \in Keys, NEW r \in Timers \cup {None}, SetTimer(k, r),
         tw' = tw, saved' = saved, runs' \in {runs, runs + 1},
         r # None =>
            /\ SlotOK(k, r) /\ r.phase # "claiming"
            /\ \/ runs' = runs + 1 /\ r.run = runs + 1
               \/ timers[k] # None /\ r.run = timers[k].run
                  /\ (r.phase \in {"running", "paused"}
                        => timers[k].phase \in {"running", "paused"})
  PROVE  TimersHold'
<1> USE DEF TimersHold
<1>1. timers' = [timers EXCEPT ![k] = r]
  BY DEF SetTimer
<1>2. TimersTyped' /\ timers'[k] = r /\ \A j \in Keys \ {k} : timers'[j] = timers[j]
  BY <1>1 DEF TimersTyped
<1>3. Queued'
  <2>1. QueueItem(k, r).key = k
    BY DEF QueueItem
  <2>2. \A i \in Unqueued(queue, k) : i \in queue /\ i.key # k
    BY DEF Unqueued
  <2>3. \A j \in Keys \ {k} : QueueItem(j, timers[j]) \in queue
                               => QueueItem(j, timers[j]) \in Unqueued(queue, k)
    BY DEF Unqueued, QueueItem
  <2>4. CASE r # None /\ r.phase = "running"
    <3>1. queue' = Unqueued(queue, k) \cup {QueueItem(k, r)}
      BY <2>4 DEF SetTimer
    <3>. QED
      BY <1>2, <2>1, <2>2, <2>3, <2>4, <3>1 DEF Queued, Running
  <2>5. CASE ~(r # None /\ r.phase = "running")
    <3>1. queue' = Unqueued(queue, k)
      BY <2>5 DEF SetTimer
    <3>. QED
      BY <1>2, <2>1, <2>2, <2>3, <2>5, <3>1 DEF Queued, Running
  <2>. QED
    BY <2>4, <2>5
<1>4. SlotsHeld'
  BY <1>2 DEF SlotsHeld
<1>5. runs \in Nat /\ Saved' = Saved /\ (\A j \in Keys : timers[j] # None => timers[j].run \in Nat)
  BY DEF BookTyped, Saved, TimersTyped, Timers, Records
<1>6. RunsCounted'
  <2>1. /\ \A n \in Saved : n <= runs /\ n \in Nat
        /\ \A j \in Keys : timers[j] # None => timers[j].run <= runs
    BY DEF RunsCounted, Saved, BookTyped
  <2>2. /\ \A n \in Saved' : n <= runs'
        /\ \A j \in Keys : timers'[j] # None => timers'[j].run <= runs'
    BY <1>2, <1>5, <2>1
  <2>3. ASSUME NEW i \in Keys, NEW j \in Keys, timers'[i] # None, timers'[j] # None,
               timers'[i].run = timers'[j].run
        PROVE  i = j
    BY <1>2, <1>5, <2>1, <2>3 DEF RunsCounted
  <2>. QED
    BY <2>2, <2>3 DEF RunsCounted
<1>7. DueUnsaved'
  <2>1. runs + 1 \notin Saved
    <3>1. \A n \in Saved : n \in Nat /\ n <= runs
      BY DEF RunsCounted, Saved, BookTyped
    <3>. QED
      BY <1>5, <3>1
  <2>. QED
    BY <1>2, <1>5, <2>1 DEF DueUnsaved
<1>. QED
  BY <1>2, <1>3, <1>4, <1>6, <1>7

\* What moves an audio slot, or confirms it, leaves the rest of the records alone.
SlotMoves(k) ==
    \/ timers'[k] = timers[k]
    \/ /\ timers[k] \in Timers /\ timers'[k] \in Timers
       /\ timers[k].audio # None /\ timers'[k].audio # None
       /\ timers'[k].audio.ticket = timers[k].audio.ticket
       /\ \A f \in {"phase", "run", "claim", "round", "rev", "audios"} :
             timers'[k][f] = timers[k][f]

LEMMA SlotMovesKeep ==
  ASSUME TimersHold, TimersTyped', \A k \in Keys : SlotMoves(k),
         UNCHANGED <<queue, runs, saved>>, tw'.pc = "commit" => tw' = tw
  PROVE  TimersHold'
<1> USE DEF TimersHold
<1>1. \A k \in Keys :
         /\ timers'[k] # None <=> timers[k] # None
         /\ timers[k] # None =>
               \A f \in {"phase", "run", "claim", "round", "rev", "audios"} :
                   timers'[k][f] = timers[k][f]
  BY TimerNotNone DEF SlotMoves
<1>2. \A k \in Keys : /\ (Running(k))' <=> Running(k)
                      /\ Running(k) => QueueItem(k, timers'[k]) = QueueItem(k, timers[k])
  BY <1>1 DEF Running, QueueItem
<1>3. Queued'
  BY <1>2 DEF Queued, Running
<1>4. SlotsHeld'
  <2> SUFFICES ASSUME NEW k \in Keys, timers'[k] # None
               PROVE  SlotOK(k, timers'[k])
    BY DEF SlotsHeld
  <2>1. SlotOK(k, timers[k])
    BY <1>1 DEF SlotsHeld
  <2>2. timers'[k].audio # None => /\ timers[k].audio # None
                                   /\ timers'[k].audio.ticket = timers[k].audio.ticket
    BY DEF SlotMoves
  <2>. QED
    BY <1>1, <2>1, <2>2 DEF SlotOK
<1>5. RunsCounted'
  BY <1>1 DEF RunsCounted, Saved
<1>6. DueUnsaved'
  BY <1>1 DEF DueUnsaved, Saved
<1>. QED
  BY <1>3, <1>4, <1>5, <1>6

LEMMA TimersFrame ==
  ASSUME TimersHold, UNCHANGED <<timers, queue, runs, saved>>, tw'.pc = "commit" => tw' = tw
  PROVE  TimersHold'
  BY SlotMovesKeep DEF SlotMoves, TimersHold, TimersTyped

LEMMA MoveStep ==
  ASSUME TimersTyped, NEW t \in Tickets, NEW from \in AudioStates, NEW to \in AudioStates,
         timers' = [timers EXCEPT ![t.key] = MoveAudio(@, t, from, to)]
  PROVE  TimersTyped' /\ \A k \in Keys : SlotMoves(k)
<1>1. t.key \in Keys
  BY TicketKey
<1> DEFINE r == timers[t.key]
           moved == MoveAudio(r, t, from, to)
<1>2. r \in Timers \cup {None}
  BY <1>1 DEF TimersTyped
<1> HIDE DEF r
<1>3. \/ moved = r
      \/ /\ r # None /\ r.audio = [state |-> from, ticket |-> t]
         /\ moved \in Timers /\ moved.audio = [state |-> to, ticket |-> t]
         /\ \A f \in {"phase", "run", "claim", "round", "rev", "audios"} : moved[f] = r[f]
  BY <1>2, AudioDone
<1>4. timers' = [timers EXCEPT ![t.key] = moved]
  BY DEF r
<1> HIDE DEF moved
<1>5. [state |-> from, ticket |-> t] # None /\ [state |-> to, ticket |-> t] # None
  <2>1. /\ [state |-> from, ticket |-> t] \in [state : AudioStates, ticket : Tickets]
        /\ [state |-> to, ticket |-> t] \in [state : AudioStates, ticket : Tickets]
    OBVIOUS
  <2>. QED
    BY <2>1, AlarmAssumption
<1>6. moved \in Timers \cup {None}
  BY <1>2, <1>3
<1>7. TimersTyped' /\ timers'[t.key] = moved
      /\ \A k \in Keys \ {t.key} : timers'[k] = timers[k]
  BY <1>1, <1>4, <1>6 DEF TimersTyped
<1>8. SlotMoves(t.key)
  <2>1. CASE moved = r
    BY <1>7, <2>1 DEF SlotMoves, r
  <2>2. CASE moved # r
    <3>1. /\ r # None /\ r \in Timers /\ moved \in Timers
          /\ r.audio # None /\ moved.audio # None
          /\ r.audio.ticket = t /\ moved.audio.ticket = t
          /\ \A f \in {"phase", "run", "claim", "round", "rev", "audios"} : moved[f] = r[f]
      BY <1>2, <1>3, <1>5, <2>2
    <3>. QED
      BY <1>7, <3>1 DEF SlotMoves, r
  <2>. QED
    BY <2>1, <2>2
<1>. QED
  BY <1>7, <1>8 DEF SlotMoves

LEMMA ConfirmStep ==
  ASSUME TimersTyped, timers' = ConfirmAll
  PROVE  /\ TimersTyped' /\ \A k \in Keys : SlotMoves(k)
         /\ \A k \in Keys : timers'[k] # None /\ timers'[k].audio # None
                              => timers'[k].audio.state = "confirmed"
<1>1. ASSUME NEW k \in Keys
      PROVE  /\ timers'[k] \in Timers \cup {None} /\ SlotMoves(k)
             /\ timers'[k] # None /\ timers'[k].audio # None
                  => timers'[k].audio.state = "confirmed"
  <2>1. timers[k] \in Timers \cup {None} /\ timers'[k] = ConfirmCurrent(timers[k])
    BY <1>1 DEF TimersTyped, ConfirmAll
  <2>. QED
    BY <2>1, ConfirmDone, TimerNotNone DEF SlotMoves
<1>. QED
  BY <1>1 DEF TimersTyped, ConfirmAll

-----------------------------------------------------------------------------
(* The timers: every step *)

AudioSteps == {"settle", "check", "admit", "reserve", "start", "started", "late", "refused",
               "failed"}
AttentionTyped ==
    \/ aw \in [pc : {"idle", "cleanup", "terminate", "dead"}]
    \/ aw \in [pc : AudioSteps \cup {"focus", "cancelled", "ordinary"}, event : EventRecords]

\* What the attention worker has in hand is what the step it is at is about.
HandHeld ==
    /\ aw.pc \in AudioSteps =>
          /\ aw.event.kind = "published" /\ aw.event.ticket \in Tickets
          /\ aw.event.key = aw.event.ticket.key
    /\ aw.pc \in {"focus", "cancelled"} => aw.event \in EventRecords /\ aw.event.kind = aw.pc
    /\ aw.pc = "focus" /\ ~aw.event.focused => aw.event.stop = 0
    /\ aw.pc \in {"check", "admit", "reserve"} => ~aw.event.focused

LEMMA RecordOf ==
  ASSUME TimersHold, NEW k \in Keys
  PROVE  /\ timers[k] \in Timers \cup {None}
         /\ timers[k] # None => timers[k] \in Timers /\ SlotOK(k, timers[k])
  BY DEF TimersHold, TimersTyped, SlotsHeld

\* A start begins a round with a number of its own, or resumes the round.
LEMMA StartKeeps ==
  ASSUME BookTyped, TimersHold, NEW p \in Plugins, WindowTimerStart(p)
  PROVE  TimersHold'
<1> DEFINE k == Key(p)
<1>1. k \in Keys
  BY KeyTyped DEF WindowTimerStart, Authorized
<1>2. timers[k] \in Timers \cup {None} /\ (timers[k] # None => timers[k] \in Timers)
      /\ (timers[k] # None => SlotOK(k, timers[k]))
  BY <1>1, RecordOf
<1>3. tw' = tw /\ saved' = saved /\ runs \in Nat
  BY DEF WindowTimerStart, BookTyped
<1>4. CASE runs' = runs + 1 /\ SetTimer(k, StartRound(timers[k], runs + 1))
  <2> DEFINE r == StartRound(timers[k], runs + 1)
  <2>1. r \in Timers /\ r.phase = "running" /\ r.run = runs + 1 /\ r.claim = None
        /\ r.audio = None
    BY <1>2, <1>3, StartDone
  <2> HIDE DEF k, r
  <2>2. SlotOK(k, r)
    BY <2>1 DEF SlotOK
  <2>3. SetTimer(k, r)
    BY <1>4 DEF r
  <2>. QED
    BY <1>1, <1>3, <1>4, <2>1, <2>2, <2>3, SetTimerKeeps
<1>5. CASE Rec(timers[k]).phase = "paused" /\ SetTimer(k, Resume(timers[k])) /\ runs' = runs
  <2> DEFINE r == Resume(timers[k])
  <2>1. timers[k] \in Timers /\ timers[k] # None /\ timers[k].phase = "paused"
    BY <1>2, <1>5, NewTyped DEF Rec
  <2>2. r \in Timers /\ r.phase = "running" /\ r.run = timers[k].run
        /\ r.claim = timers[k].claim /\ r.audio = timers[k].audio /\ r.audios = timers[k].audios
    BY <2>1, ResumeDone
  <2>3. SetTimer(k, r)
    BY <1>5
  <2> HIDE DEF k, r
  <2>4. SlotOK(k, r)
    BY <1>2, <2>1, <2>2 DEF SlotOK
  <2>. QED
    BY <1>1, <1>3, <1>5, <2>1, <2>2, <2>3, <2>4, SetTimerKeeps
<1>. QED
  BY <1>4, <1>5 DEF WindowTimerStart

LEMMA StopKeeps ==
  ASSUME BookTyped, TimersHold, NEW p \in Plugins, WindowTimerStop(p)
  PROVE  TimersHold'
<1> DEFINE k == Key(p)
           r == Pause(timers[k])
<1>1. k \in Keys
  BY KeyTyped DEF WindowTimerStop, Authorized
<1>2. timers[k] \in Timers \cup {None} /\ (timers[k] # None => SlotOK(k, timers[k]))
  BY <1>1, RecordOf
<1>3. tw' = tw /\ saved' = saved /\ runs' = runs /\ SetTimer(k, r)
      /\ Rec(timers[k]).phase = "running"
  BY DEF WindowTimerStop
<1>4. timers[k] \in Timers /\ timers[k] # None /\ timers[k].phase = "running"
  BY <1>2, <1>3, NewTyped DEF Rec
<1>5. r \in Timers /\ r.phase = "paused" /\ r.run = timers[k].run
      /\ r.claim = timers[k].claim /\ r.audio = timers[k].audio /\ r.audios = timers[k].audios
  BY <1>4, PauseDone
<1> HIDE DEF k, r
<1>6. SlotOK(k, r)
  BY <1>2, <1>4, <1>5 DEF SlotOK
<1>. QED
  BY <1>1, <1>3, <1>4, <1>5, <1>6, SetTimerKeeps

LEMMA ResetKeeps ==
  ASSUME BookTyped, TimersHold, NEW p \in Plugins, WindowTimerReset(p)
  PROVE  TimersHold'
<1> DEFINE k == Key(p)
           r == Reset(timers[k])
<1>1. k \in Keys
  BY KeyTyped DEF WindowTimerReset, Authorized
<1>2. timers[k] \in Timers \cup {None}
  BY <1>1, RecordOf
<1>3. tw' = tw /\ saved' = saved /\ runs' = runs /\ SetTimer(k, r)
      /\ Rec(timers[k]).phase # "idle"
  BY DEF WindowTimerReset
<1>4. timers[k] \in Timers /\ timers[k] # None
  BY <1>2, <1>3, NewTyped DEF Rec
<1>5. r \in Timers /\ r.phase = "idle" /\ r.run = timers[k].run /\ r.claim = None
      /\ r.audio = None
  BY <1>4, ResetDone
<1> HIDE DEF k, r
<1>6. SlotOK(k, r)
  BY <1>5 DEF SlotOK
<1>. QED
  BY <1>1, <1>3, <1>4, <1>5, <1>6, SetTimerKeeps

LEMMA CancelKeeps ==
  ASSUME BookTyped, TimersHold, NEW k \in Keys, CancelGeneration(k),
         UNCHANGED <<runs, tw, saved>>
  PROVE  TimersHold'
  BY SetTimerKeeps DEF CancelGeneration

LEMMA ManagementKeeps ==
  ASSUME BookTyped, TimersHold, NEW p \in Plugins, ManagementOps(p)
  PROVE  TimersHold'
<1>1. CASE RevokePermission(p)
  BY <1>1, KeyTyped, CancelKeeps, TimersFrame DEF RevokePermission
<1>2. CASE GrantPermission(p)
  BY <1>2, TimersFrame DEF GrantPermission, service
<1>3. CASE Disable(p)
  BY <1>3, KeyTyped, CancelKeeps DEF Disable
<1>4. CASE Activate(p)
  BY <1>4, KeyTyped, CancelKeeps, TimersFrame DEF Activate
<1>. QED
  BY <1>1, <1>2, <1>3, <1>4 DEF ManagementOps

\* The item that falls due is that of a running timer: every claim takes one.
LEMMA ClaimKeeps ==
  ASSUME BookTyped, TimersHold, ClaimNextDue
  PROVE  TimersHold'
<1>1. PICK i \in queue :
          /\ queue' = queue \ {i}
          /\ IF ItemCurrent(timers[i.key], i)
               THEN /\ timers' = [timers EXCEPT ![i.key] = Claim(i.key, @)]
                    /\ tw' = [pc |-> "commit", ticket |-> ClaimTicket(i.key, timers[i.key])]
               ELSE UNCHANGED <<timers, tw>>
  BY DEF ClaimNextDue
<1> DEFINE k == i.key
           r == timers[k]
<1>2. k \in Keys /\ Running(k) /\ i = QueueItem(k, r)
  BY DEF TimersHold, Queued
<1>3. r \in Timers /\ r # None /\ r.phase = "running" /\ SlotOK(k, r)
  BY <1>2, RecordOf DEF Running
<1>4. ItemCurrent(r, i)
  BY <1>2, <1>3 DEF ItemCurrent, QueueItem
<1> DEFINE claimed == Claim(k, r)
<1>5. /\ timers' = [timers EXCEPT ![k] = claimed]
      /\ tw' = [pc |-> "commit", ticket |-> ClaimTicket(k, r)]
      /\ saved' = saved /\ runs' = runs
  BY <1>1, <1>4 DEF ClaimNextDue
<1>6. /\ claimed \in Timers /\ claimed.phase = "claiming" /\ claimed.run = r.run
      /\ claimed.audio = r.audio /\ claimed.audios = r.audios
      /\ claimed.claim = ClaimTicket(k, r) /\ ClaimTicket(k, r).key = k
      /\ ClaimTicket(k, r) # None
  BY <1>2, <1>3, ClaimDone, AlarmAssumption
<1>7. claimed # None
  BY <1>6, TimerNotNone
<1> HIDE DEF claimed
<1>8. TimersTyped' /\ timers'[k] = claimed /\ \A j \in Keys \ {k} : timers'[j] = timers[j]
  BY <1>2, <1>5, <1>6 DEF TimersHold, TimersTyped
<1>9. \A x \in queue : x.key = k => x = i
  BY <1>2 DEF TimersHold, Queued
<1>10. Queued'
  <2>1. ASSUME NEW x \in queue'
        PROVE  x.key \in Keys /\ (Running(x.key))' /\ x = QueueItem(x.key, timers'[x.key])
    <3>1. x \in queue /\ x.key # k
      BY <1>1, <1>9, <2>1
    <3>. QED
      BY <1>8, <3>1 DEF TimersHold, Queued, Running
  <2>2. ASSUME NEW j \in Keys, (Running(j))'
        PROVE  QueueItem(j, timers'[j]) \in queue'
    <3>1. j # k
      BY <1>6, <1>8, <2>2 DEF Running
    <3>2. QueueItem(j, timers[j]) \in queue /\ QueueItem(j, timers[j]).key = j
      BY <1>8, <2>2, <3>1 DEF TimersHold, Queued, Running, QueueItem
    <3>. QED
      BY <1>1, <1>8, <3>1, <3>2
  <2>. QED
    BY <2>1, <2>2 DEF Queued
<1>11. SlotsHeld'
  <2>1. SlotOK(k, claimed)
    BY <1>3, <1>6 DEF SlotOK
  <2>. QED
    BY <1>8, <2>1 DEF TimersHold, SlotsHeld
<1>12. RunsCounted'
  BY <1>2, <1>3, <1>5, <1>6, <1>8 DEF TimersHold, RunsCounted, Saved
<1>13. DueUnsaved'
  <2>1. r.run \notin Saved
    BY <1>2, <1>3 DEF TimersHold, DueUnsaved
  <2>2. Saved' = Saved
    BY <1>5 DEF Saved
  <2>3. ASSUME NEW j \in Keys \ {k}, timers[j] # None, timers[j].phase = "claiming"
        PROVE  timers[j].claim # ClaimTicket(k, r)
    BY <1>6, <2>3 DEF TimersHold, SlotsHeld, SlotOK
  <2>. QED
    BY <1>5, <1>6, <1>8, <2>1, <2>2, <2>3 DEF TimersHold, DueUnsaved
<1>. QED
  BY <1>8, <1>10, <1>11, <1>12, <1>13 DEF TimersHold

\* What is saved is the round of a claim that is still the timer's.
LEMMA CommitKeeps ==
  ASSUME BookTyped, WorkerTyped, TimersHold, CommitTimerClaim
  PROVE  TimersHold'
<1> DEFINE t == tw.ticket
           r == timers[t.key]
<1>1. tw.pc = "commit" /\ UNCHANGED <<queue, runs>> /\ tw'.pc # "commit"
  BY DEF CommitTimerClaim, service, Idle
<1>2. CASE UNCHANGED <<timers, saved>>
  BY <1>1, <1>2, TimersFrame
<1>3. CASE /\ ClaimMatches(r, t) /\ timers' = [timers EXCEPT ![t.key] = AdmitClaim(@)]
           /\ saved' \in {saved, Append(saved, r.run)}
  <2>1. t \in ClaimTickets(Keys) /\ t.key \in Keys
    BY <1>1 DEF WorkerTyped, Idle, ClaimTickets
  <2>2. r \in Timers /\ r # None /\ SlotOK(t.key, r) /\ r.phase = "claiming" /\ r.claim = t
    BY <1>3, <2>1, RecordOf DEF ClaimMatches
  <2> DEFINE admitted == AdmitClaim(r)
             k == t.key
  <2>3. /\ admitted \in Timers /\ admitted.phase = r.phase /\ admitted.run = r.run
        /\ admitted.audio = r.audio /\ admitted.claim = r.claim /\ admitted.audios = r.audios
        /\ admitted.round = r.round /\ admitted.rev = r.rev
    BY <2>2, AdmitDone
  <2>4. admitted # None
    BY <2>3, TimerNotNone
  <2>5. timers' = [timers EXCEPT ![k] = admitted]
    BY <1>3
  <2> HIDE DEF admitted
  <2>6. TimersTyped' /\ timers'[k] = admitted /\ \A j \in Keys \ {k} : timers'[j] = timers[j]
    BY <2>1, <2>3, <2>5 DEF TimersHold, TimersTyped
  <2> HIDE DEF t, r
  <2>7. r = timers[k] /\ k \in Keys
    BY <2>1 DEF r
  <2> HIDE DEF k
  <2>8. Queued'
    BY <1>1, <2>2, <2>3, <2>4, <2>6, <2>7 DEF TimersHold, Queued, Running
  <2>9. SlotsHeld'
    <3>1. SlotOK(k, admitted)
      BY <2>2, <2>3 DEF SlotOK, k
    <3>. QED
      BY <2>6, <3>1 DEF TimersHold, SlotsHeld
  <2>10. r.run \in Nat /\ r.run <= runs
    BY <2>2, <2>7 DEF TimersHold, RunsCounted, Timers, Records
  <2>11. Saved' \subseteq Saved \cup {r.run}
    <3>1. CASE saved' = saved
      BY <3>1 DEF Saved
    <3>2. CASE saved' = Append(saved, r.run)
      <4>1. /\ saved \in Seq(Nat) /\ DOMAIN saved = 1..Len(saved) /\ Len(saved) \in Nat
            /\ DOMAIN saved' = 1..(Len(saved) + 1)
            /\ \A i \in 1..Len(saved) : saved'[i] = saved[i]
            /\ saved'[Len(saved) + 1] = r.run
        BY <2>10, <3>2, AppendProperties DEF BookTyped
      <4>2. ASSUME NEW i \in DOMAIN saved'
            PROVE  saved'[i] \in Saved \cup {r.run}
        <5>1. i \in 1..Len(saved) \/ i = Len(saved) + 1
          BY <4>1
        <5>. QED
          BY <4>1, <5>1 DEF Saved
      <4>. QED
        BY <4>2 DEF Saved
    <3>. QED
      BY <1>3, <3>1, <3>2 DEF r, t
  <2>12. RunsCounted'
    <3>1. \A n \in Saved' : n <= runs'
      BY <1>1, <2>10, <2>11 DEF TimersHold, RunsCounted
    <3>2. \A j \in Keys : timers'[j] # None <=> timers[j] # None
      BY <2>2, <2>4, <2>6, <2>7
    <3>3. \A j \in Keys : timers[j] # None => timers'[j].run = timers[j].run
      BY <2>3, <2>6, <2>7
    <3>. QED
      BY <1>1, <3>1, <3>2, <3>3 DEF TimersHold, RunsCounted
  <2>13. DueUnsaved'
    <3>1. ASSUME NEW j \in Keys, timers'[j] # None, timers'[j].phase \in {"running", "paused"}
          PROVE  timers'[j].run \notin Saved'
      <4>1. j # k /\ timers'[j] = timers[j]
        BY <2>2, <2>3, <2>6, <3>1
      <4>2. timers[j].run # r.run
        BY <2>2, <2>7, <3>1, <4>1 DEF TimersHold, RunsCounted
      <4>3. timers[j].run \notin Saved
        BY <3>1, <4>1 DEF TimersHold, DueUnsaved
      <4>. QED
        BY <2>11, <4>1, <4>2, <4>3
    <3>. QED
      BY <1>1, <3>1 DEF DueUnsaved
  <2>. QED
    BY <2>6, <2>8, <2>9, <2>12, <2>13 DEF TimersHold
<1>. QED
  BY <1>2, <1>3 DEF CommitTimerClaim

LEMMA CompleteKeeps ==
  ASSUME BookTyped, WorkerTyped, TimersHold, CompleteTimerClaim
  PROVE  TimersHold'
<1> DEFINE t == tw.ticket
           k == t.key
           r == timers[k]
<1>1. /\ tw.pc = "complete" /\ UNCHANGED <<queue, runs, saved>> /\ tw'.pc # "commit"
      /\ timers' = IF CanComplete(r, t, tw.persisted)
                   THEN [timers EXCEPT ![k] = CompleteClaim(@, t, tw.persisted)] ELSE timers
  BY DEF CompleteTimerClaim, Idle
<1>2. t \in ClaimTickets(Keys) /\ k \in Keys /\ tw.persisted \in BOOLEAN
  BY <1>1 DEF WorkerTyped, Idle, ClaimTickets
<1>3. CASE ~CanComplete(r, t, tw.persisted)
  BY <1>1, <1>3, TimersFrame
<1>4. CASE CanComplete(r, t, tw.persisted)
  <2>1. r \in Timers /\ r # None /\ SlotOK(k, r) /\ r.phase = "claiming" /\ r.claim = t
    BY <1>2, <1>4, RecordOf DEF CanComplete, ClaimMatches
  <2> DEFINE done == CompleteClaim(r, t, tw.persisted)
  <2>2. /\ done \in Timers /\ done.phase \in {"fired", "idle"} /\ done.run = r.run
        /\ done.claim = None
        /\ done.audio = IF tw.persisted
                          THEN [state |-> "issued", ticket |-> IssuedTicket(r, t)] ELSE r.audio
        /\ done.audios = IF tw.persisted THEN r.audios + 1 ELSE r.audios
        /\ IssuedTicket(r, t).key = k /\ IssuedTicket(r, t).audio = r.audios + 1
    BY <1>2, <2>1, CompleteDone
  <2>3. timers' = [timers EXCEPT ![k] = done] /\ r.audios \in Nat
    BY <1>1, <1>4, <2>1 DEF Timers, Records
  <2>4. done # None
    BY <2>2, TimerNotNone
  <2> HIDE DEF done, t
  <2>5. TimersTyped' /\ timers'[k] = done /\ \A j \in Keys \ {k} : timers'[j] = timers[j]
    BY <1>2, <2>2, <2>3 DEF TimersHold, TimersTyped
  <2>10. r = timers[k] /\ k \in Keys
    BY <1>2
  <2> HIDE DEF k, r
  <2>6. Queued'
    <3>0. Queued /\ queue' = queue
      BY <1>1 DEF TimersHold
    <3>1. timers[k].phase # "running" /\ timers'[k].phase # "running"
      BY <2>1, <2>2, <2>5, <2>10
    <3>2. \A i \in queue : i.key # k
      BY <3>0, <3>1 DEF Queued, Running
    <3>3. \A j \in Keys : timers'[j] # None /\ timers'[j].phase = "running"
                          => j # k /\ timers'[j] = timers[j]
      BY <2>5, <3>1
    <3>. QED
      BY <2>5, <3>0, <3>2, <3>3 DEF Queued, Running
  <2>7. SlotsHeld'
    <3>1. SlotOK(k, done)
      <4>1. CASE tw.persisted
        BY <2>2, <2>3, <4>1 DEF SlotOK
      <4>2. CASE ~tw.persisted
        BY <2>1, <2>2, <4>2 DEF SlotOK
      <4>. QED
        BY <4>1, <4>2
    <3>. QED
      BY <2>5, <3>1 DEF TimersHold, SlotsHeld
  <2>8. RunsCounted'
    <3>1. \A j \in Keys : timers'[j] # None <=> timers[j] # None
      BY <2>1, <2>4, <2>5, <2>10
    <3>2. \A j \in Keys : timers[j] # None => timers'[j].run = timers[j].run
      BY <2>2, <2>5, <2>10
    <3>. QED
      BY <1>1, <3>1, <3>2 DEF TimersHold, RunsCounted, Saved
  <2>9. DueUnsaved'
    BY <1>1, <2>2, <2>5 DEF TimersHold, DueUnsaved, Saved
  <2>. QED
    BY <2>5, <2>6, <2>7, <2>8, <2>9 DEF TimersHold
<1>. QED
  BY <1>3, <1>4

LEMMA TimersKept ==
  ASSUME BookTyped, WorkerTyped, AttentionTyped, HandHeld, TimersHold, [AlarmNext]_alarmVars
  PROVE  TimersHold'
<1> USE DEF service, sound, manager
<1>0. /\ "issued" \in AudioStates /\ "admitted" \in AudioStates /\ "confirmed" \in AudioStates
      /\ TimersTyped
  BY DEF AudioStates, TimersHold
<1>1. ASSUME NEW p \in Plugins, WindowOps(p) \/ ManagementOps(p)
      PROVE  TimersHold'
  BY <1>1, StartKeeps, StopKeeps, ResetKeeps, ManagementKeeps DEF WindowOps
<1>2. CASE ClaimNextDue \/ CommitTimerClaim \/ CompleteTimerClaim
  BY <1>2, ClaimKeeps, CommitKeeps, CompleteKeeps
<1>3. CASE DispatchTimer
  <2>1. tw'.pc # "commit" /\ UNCHANGED <<timers, queue, runs, saved>>
    BY <1>3 DEF DispatchTimer, Idle
  <2>. QED
    BY <2>1, TimersFrame
<1>4. CASE ConfirmUnplaced
  <2>1. PICK t \in tw.tickets :
            /\ timers' = [timers EXCEPT ![t.key] = MoveAudio(@, t, "issued", "confirmed")]
            /\ tw' = IF tw.tickets = {t} THEN Idle ELSE [tw EXCEPT !.tickets = @ \ {t}]
    BY <1>4 DEF ConfirmUnplaced
  <2>2. tw.pc = "confirm" /\ tw.tickets \in SUBSET Tickets /\ "pc" \in DOMAIN tw
    BY <1>4 DEF ConfirmUnplaced, WorkerTyped, Idle
  <2>3. tw'.pc # "commit"
    BY <2>1, <2>2 DEF Idle
  <2>4. UNCHANGED <<queue, runs, saved>> /\ t \in Tickets
    BY <1>4, <2>2 DEF ConfirmUnplaced
  <2>5. TimersTyped' /\ \A k \in Keys : SlotMoves(k)
    BY <1>0, <2>1, <2>4, MoveStep
  <2>. QED
    BY <2>3, <2>4, <2>5, SlotMovesKeep
<1>5. CASE EmergencyStop
  BY <1>0, <1>5, ConfirmStep, SlotMovesKeep, TimersFrame DEF EmergencyStop
<1>6. ASSUME NEW focused \in BOOLEAN, ObserveMainFocus(focused)
      PROVE  TimersHold'
  BY <1>0, <1>6, ConfirmStep, SlotMovesKeep, TimersFrame DEF ObserveMainFocus
<1>7. CASE ApplyEffect \/ PublishOrdinary
  BY <1>7, TimersFrame DEF ApplyEffect, PublishOrdinary
<1>8. CASE SettleTicket \/ AdmitAudioStart \/ FailTicket
  <2>1. aw.event.ticket \in Tickets /\ aw.event.key = aw.event.ticket.key
    BY <1>8 DEF SettleTicket, AdmitAudioStart, FailTicket, HandHeld, AudioSteps
  <2>2. UNCHANGED <<queue, runs, saved, tw>>
    BY <1>8 DEF SettleTicket, AdmitAudioStart, FailTicket
  <2> DEFINE t == aw.event.ticket
  <2>3. \/ timers' = [timers EXCEPT ![t.key] = MoveAudio(@, t, "issued", "confirmed")]
        \/ timers' = [timers EXCEPT ![t.key] = MoveAudio(@, t, "issued", "admitted")]
        \/ timers' = [timers EXCEPT ![t.key] = MoveAudio(@, t, "admitted", "confirmed")]
    BY <1>8, <2>1 DEF SettleTicket, AdmitAudioStart, FailTicket
  <2> HIDE DEF t
  <2>4. t \in Tickets
    BY <2>1 DEF t
  <2>5. TimersTyped' /\ \A k \in Keys : SlotMoves(k)
    BY <1>0, <2>3, <2>4, MoveStep
  <2>. QED
    BY <2>2, <2>5, SlotMovesKeep
<1>9. CASE CleanUp
  BY <1>0, <1>9, ConfirmStep, SlotMovesKeep, TimersFrame DEF CleanUp
<1>10. CASE TakeEvent \/ HandleFocus \/ HandleCancelled \/ HandleOrdinary \/ CheckEpoch
            \/ ReserveOwner \/ StartTimerLoop \/ CommitPlaying \/ StopLate \/ RevokeRefused
  BY <1>10, TimersFrame DEF TakeEvent, HandleFocus, HandleCancelled, HandleOrdinary, CheckEpoch,
     ReserveOwner, StartTimerLoop, CommitPlaying, StopLate, RevokeRefused
<1>11. CASE UNCHANGED alarmVars
  BY <1>11, TimersFrame DEF alarmVars
<1>. QED
  BY <1>1, <1>2, <1>3, <1>4, <1>5, <1>6, <1>7, <1>8, <1>9, <1>10, <1>11
     DEF AlarmNext, TimerWorker, AttentionWorker

-----------------------------------------------------------------------------
(* The types of the timer worker and of the cancellations under way *)

BookInvariant == BookTyped /\ WorkerTyped /\ effects \subseteq Tickets

LEMMA IdleTyped == Idle \in [pc : {"idle"}] /\ Idle.pc = "idle"
  BY DEF Idle

LEMMA TakenTyped ==
  ASSUME TimersHold, NEW k \in Keys
  PROVE  /\ TakenAudio(timers[k]) \subseteq Tickets
         /\ \A t \in TakenAudio(timers[k]) :
               /\ timers[k] # None /\ timers[k].audio # None
               /\ t = timers[k].audio.ticket /\ t.key = k
  BY RecordOf DEF TakenAudio, Timers, Records, Tickets, SlotOK

LEMMA BookKept ==
  ASSUME BookInvariant, TimersHold, mailbox \in Boxes, [AlarmNext]_alarmVars
  PROVE  BookInvariant'
<1> USE DEF service, sound, manager
<1>1. /\ BookTyped /\ WorkerTyped /\ effects \subseteq Tickets
  BY DEF BookInvariant
<1>2. CASE UNCHANGED alarmVars
  BY <1>1, <1>2 DEF alarmVars, BookInvariant, BookTyped, WorkerTyped, Idle
<1>3. ASSUME NEW p \in Plugins, WindowOps(p) \/ ManagementOps(p)
      PROVE  BookInvariant'
  <2>1. tw' = tw /\ saved' = saved
    BY <1>3 DEF WindowOps, ManagementOps, WindowTimerStart, WindowTimerStop, WindowTimerReset,
       RevokePermission, GrantPermission, Disable, Activate
  <2>2. WorkerTyped'
    BY <1>1, <2>1 DEF WorkerTyped, Idle
  <2>3. BookTyped'
    <3>1. runs' \in {runs, runs + 1}
      BY <1>3 DEF WindowOps, ManagementOps, WindowTimerStart, WindowTimerStop, WindowTimerReset,
         RevokePermission, GrantPermission, Disable, Activate
    <3>2. \/ UNCHANGED <<active, activation>>
          \/ active' = [active EXCEPT ![p] = 0] /\ activation' = activation
          \/ /\ active' = [active EXCEPT ![p] = activation + 1] /\ activation' = activation + 1
             /\ activation < MaxActivation
      BY <1>3 DEF WindowOps, ManagementOps, WindowTimerStart, WindowTimerStop, WindowTimerReset,
         RevokePermission, GrantPermission, Disable, Activate
    <3>3. active' \in [Plugins -> 0..MaxActivation] /\ activation' \in 0..MaxActivation
          /\ \A q \in Plugins : active'[q] <= activation'
      <4>1. CASE UNCHANGED <<active, activation>>
        BY <1>1, <4>1 DEF BookTyped
      <4>2. CASE active' = [active EXCEPT ![p] = 0] /\ activation' = activation
        BY <1>1, <4>2, AlarmAssumption DEF BookTyped
      <4>3. CASE /\ active' = [active EXCEPT ![p] = activation + 1]
                 /\ activation' = activation + 1 /\ activation < MaxActivation
        <5>1. activation + 1 \in 0..MaxActivation
          BY <1>1, <4>3, AlarmAssumption DEF BookTyped
        <5>2. \A q \in Plugins : active'[q] = activation + 1 \/ active'[q] = active[q]
          BY <1>1, <4>3 DEF BookTyped
        <5>. QED
          BY <1>1, <4>3, <5>1, <5>2, AlarmAssumption DEF BookTyped
      <4>. QED
        BY <3>2, <4>1, <4>2, <4>3
    <3>. QED
      BY <1>1, <2>1, <3>1, <3>3 DEF BookTyped
  <2>4. effects' \subseteq Tickets
    <3>1. \/ effects' = effects
          \/ active[p] # 0 /\ effects' = effects \cup TakenAudio(timers[Key(p)])
      BY <1>3 DEF WindowOps, ManagementOps, WindowTimerStart, WindowTimerStop, WindowTimerReset,
         RevokePermission, GrantPermission, Disable, Activate, CancelGeneration, Authorized
    <3>. QED
      BY <1>1, <3>1, TakenTyped, KeyTyped
  <2>. QED
    BY <2>2, <2>3, <2>4 DEF BookInvariant
<1>4. CASE TimerWorker
  <2>1. UNCHANGED <<active, activation, runs, effects>>
    BY <1>4 DEF TimerWorker, ClaimNextDue, CommitTimerClaim, CompleteTimerClaim, DispatchTimer,
       ConfirmUnplaced
  <2>2. CASE ClaimNextDue
    <3>1. PICK i \in queue :
              IF ItemCurrent(timers[i.key], i)
                THEN tw' = [pc |-> "commit", ticket |-> ClaimTicket(i.key, timers[i.key])]
                ELSE tw' = tw
      BY <2>2 DEF ClaimNextDue
    <3>2. saved' = saved /\ i.key \in Keys /\ timers[i.key] \in Timers
      BY <2>2, RecordOf DEF ClaimNextDue, TimersHold, Queued, Running
    <3>3. ClaimTicket(i.key, timers[i.key]) \in ClaimTickets(Keys)
      BY <3>2, ClaimDone DEF ClaimTicket, ClaimTickets, Timers, Records
    <3>4. WorkerTyped'
      BY <1>1, <3>1, <3>3 DEF WorkerTyped, Idle
    <3>. QED
      BY <1>1, <2>1, <3>2, <3>4 DEF BookInvariant, BookTyped
  <2>3. CASE CommitTimerClaim
    <3>1. tw.ticket \in ClaimTickets(Keys) /\ tw.ticket.key \in Keys
      BY <1>1, <2>3 DEF CommitTimerClaim, WorkerTyped, Idle, ClaimTickets
    <3>2. \/ tw' = Idle
          \/ \E persisted \in BOOLEAN :
                tw' = [pc |-> "complete", ticket |-> tw.ticket, persisted |-> persisted]
      BY <2>3 DEF CommitTimerClaim
    <3>3. WorkerTyped'
      BY <3>1, <3>2 DEF WorkerTyped
    <3> DEFINE r == timers[tw.ticket.key]
    <3>4. saved' = saved \/ (r # None /\ saved' = Append(saved, r.run))
      BY <2>3 DEF CommitTimerClaim, ClaimMatches
    <3>5. r \in Timers \cup {None}
      BY <3>1, RecordOf
    <3> HIDE DEF r
    <3>6. saved' \in Seq(Nat)
      <4>1. saved \in Seq(Nat) /\ (r # None => r.run \in Nat)
        BY <1>1, <3>5 DEF BookTyped, Timers, Records
      <4> DEFINE n == r.run
      <4>2. r # None => Append(saved, n) \in Seq(Nat)
        <5> HIDE DEF n
        <5>1. ASSUME n \in Nat PROVE Append(saved, n) \in Seq(Nat)
          BY <4>1, <5>1, AppendProperties
        <5>. QED
          BY <4>1, <5>1 DEF n
      <4>. QED
        BY <3>4, <4>1, <4>2
    <3>. QED
      BY <1>1, <2>1, <3>3, <3>6 DEF BookInvariant, BookTyped
  <2>4. CASE CompleteTimerClaim
    <3> DEFINE t == tw.ticket
               r == timers[t.key]
    <3>1. t \in ClaimTickets(Keys) /\ t.key \in Keys
      BY <1>1, <2>4 DEF CompleteTimerClaim, WorkerTyped, Idle, ClaimTickets
    <3>2. \/ tw' = Idle
          \/ tw' = [pc |-> "publish", ticket |-> None]
          \/ tw' = [pc |-> "publish", ticket |-> IssuedTicket(r, t)] /\ r # None
      BY <2>4 DEF CompleteTimerClaim, CanComplete, ClaimMatches
    <3>3. r \in Timers \cup {None}
      BY <3>1, RecordOf
    <3>4. r # None => IssuedTicket(r, t) \in Tickets
      BY <3>1, <3>3 DEF IssuedTicket, Tickets, AudioTickets, Timers, Records, ClaimTickets
    <3>5. WorkerTyped'
      BY <3>2, <3>4 DEF WorkerTyped
    <3>6. saved' = saved
      BY <2>4 DEF CompleteTimerClaim
    <3>. QED
      BY <1>1, <2>1, <3>5, <3>6 DEF BookInvariant, BookTyped
  <2>5. CASE DispatchTimer
    <3>1. tw.ticket \in Tickets \cup {None}
      BY <1>1, <2>5 DEF DispatchTimer, WorkerTyped, Idle
    <3>2. \A key : ReplacedTickets(mailbox, key) \subseteq Tickets
      BY EventTyped DEF ReplacedTickets, PublishedAt, EventsOf, Boxes
    <3>3. \/ tw' = Idle
          \/ \E ts \in SUBSET Tickets : tw' = [pc |-> "confirm", tickets |-> ts]
      BY <2>5, <3>1, <3>2 DEF DispatchTimer
    <3>4. WorkerTyped' /\ saved' = saved
      BY <2>5, <3>3 DEF WorkerTyped, DispatchTimer
    <3>. QED
      BY <1>1, <2>1, <3>4 DEF BookInvariant, BookTyped
  <2>6. CASE ConfirmUnplaced
    <3>1. tw \in [pc : {"confirm"}, tickets : SUBSET Tickets]
      BY <1>1, <2>6 DEF ConfirmUnplaced, WorkerTyped, Idle
    <3>2. \/ tw' = Idle
          \/ \E t \in tw.tickets : tw' = [tw EXCEPT !.tickets = tw.tickets \ {t}]
      BY <2>6 DEF ConfirmUnplaced
    <3>3. WorkerTyped' /\ saved' = saved
      BY <2>6, <3>1, <3>2 DEF WorkerTyped, ConfirmUnplaced
    <3>. QED
      BY <1>1, <2>1, <3>3 DEF BookInvariant, BookTyped
  <2>. QED
    BY <1>4, <2>2, <2>3, <2>4, <2>5, <2>6 DEF TimerWorker
<1>5. ASSUME ApplyEffect \/ EmergencyStop \/ PublishOrdinary \/ AttentionWorker
             \/ \E focused \in BOOLEAN : ObserveMainFocus(focused)
      PROVE  BookInvariant'
  <2>1. UNCHANGED <<active, activation, runs, tw, saved>>
    BY <1>5 DEF ApplyEffect, EmergencyStop, PublishOrdinary, ObserveMainFocus, AttentionWorker,
       TakeEvent, HandleFocus, HandleCancelled, HandleOrdinary, SettleTicket, CheckEpoch,
       AdmitAudioStart, ReserveOwner, StartTimerLoop, CommitPlaying, StopLate, RevokeRefused,
       FailTicket, CleanUp
  <2>2. effects' \subseteq effects
    BY <1>5 DEF ApplyEffect, EmergencyStop, PublishOrdinary, ObserveMainFocus, AttentionWorker,
       TakeEvent, HandleFocus, HandleCancelled, HandleOrdinary, SettleTicket, CheckEpoch,
       AdmitAudioStart, ReserveOwner, StartTimerLoop, CommitPlaying, StopLate, RevokeRefused,
       FailTicket, CleanUp
  <2>. QED
    BY <1>1, <2>1, <2>2 DEF BookInvariant, BookTyped, WorkerTyped, Idle
<1>. QED
  BY <1>2, <1>3, <1>4, <1>5 DEF AlarmNext

-----------------------------------------------------------------------------
(* The sound: mailbox, attention worker and adapter *)

Waiting == {"idle", "cleanup", "terminate", "dead"}
WithEvent == AudioSteps \cup {"focus", "cancelled", "ordinary"}

\* An event is of its epoch; one published without the focus is of an earlier
\* epoch once the window has it.
EventHeld(e, m) ==
    /\ e.kind = "published" =>
          /\ e.ticket # None => e.key = e.ticket.key
          /\ e.epoch <= m.epoch
          /\ m.focused /\ ~e.focused => e.epoch < m.epoch
    /\ e.kind = "focus" /\ ~e.focused => e.stop = 0

EventsHeld == \A e \in In(mailbox) : EventHeld(e, mailbox)
InHand == aw.pc \in WithEvent => EventHeld(aw.event, mailbox)

PortOK(q) == q \in [loop : Nat, ordinary : BOOLEAN, dead : BOOLEAN] /\ (q.dead => q.loop = 0)
EndingHeld ==
    /\ emergency \in {"none", "audio", "timers", "done"}
    /\ mailbox.terminal <=> emergency # "none"
    /\ emergency \in {"timers", "done"} => port.dead
    /\ aw.pc \in {"terminate", "dead"} => port.dead
    /\ aw.pc \in {"cleanup", "terminate", "dead"} => mailbox.terminal
FocusHeld == mailbox.focused => mailbox.owner = None
LoopHeld ==
    port.loop # 0 =>
        \/ Playing(mailbox) /\ mailbox.owner.epoch = port.loop
        \/ StopUnderway(port.loop)
        \/ EndingAttention

SoundHeld ==
    /\ mailbox \in Boxes /\ AttentionTyped /\ HandHeld /\ EventsHeld /\ InHand /\ PortOK(port)
    /\ EndingHeld /\ FocusHeld /\ LoopHeld

LEMMA EventsIn == Events = In(mailbox) /\ Events' = In(mailbox')
  BY DEF Events, In

\* What was said of an event stays true as the epoch grows.
Later(m, n) == n.epoch >= m.epoch /\ (n.focused => m.focused \/ n.epoch > m.epoch)

LEMMA EventLater ==
  ASSUME NEW m \in Boxes, NEW n \in Boxes, NEW e \in EventRecords, Later(m, n), EventHeld(e, m)
  PROVE  EventHeld(e, n)
<1>1. m.epoch \in Nat /\ n.epoch \in Nat
  BY DEF Boxes
<1>2. CASE e.kind # "published"
  BY <1>2 DEF EventHeld
<1>3. CASE e.kind = "published"
  <2>1. e.epoch \in Nat
    BY <1>3, EventTyped
  <2>. QED
    BY <1>1, <1>3, <2>1 DEF EventHeld, Later
<1>. QED
  BY <1>2, <1>3

LEMMA InTyped == \A m \in Boxes : In(m) \subseteq EventRecords
  BY DEF In, Boxes

LEMMA HandTyped ==
  ASSUME AttentionTyped
  PROVE  /\ aw.pc \in Waiting \cup WithEvent
         /\ aw.pc \in WithEvent =>
               /\ aw \in [pc : WithEvent, event : EventRecords] /\ aw.event \in EventRecords
  BY DEF AttentionTyped, Waiting, WithEvent, AudioSteps

LEMMA AtDone ==
  ASSUME AttentionTyped, NEW pc \in AudioSteps, aw.pc \in AudioSteps
  PROVE  /\ At(pc).pc = pc /\ At(pc).event = aw.event
         /\ At(pc) \in [pc : AudioSteps \cup {"focus", "cancelled", "ordinary"},
                        event : EventRecords]
  BY DEF AttentionTyped, At, AudioSteps

LEMMA EventsMove ==
  ASSUME mailbox \in Boxes, mailbox' \in Boxes, EventsHeld, InHand, AttentionTyped,
         Later(mailbox, mailbox'),
         \A e \in In(mailbox') : e \in In(mailbox) \/ EventHeld(e, mailbox'),
         \/ aw'.pc \in Waiting
         \/ aw'.event \in In(mailbox)
         \/ aw.pc \in WithEvent /\ aw'.event = aw.event
  PROVE  EventsHeld' /\ InHand'
<1>1. \A e \in In(mailbox) : EventHeld(e, mailbox')
  BY InTyped, EventLater DEF EventsHeld
<1>2. aw.pc \in WithEvent => EventHeld(aw.event, mailbox')
  BY HandTyped, EventLater DEF InHand
<1>3. aw'.pc \in WithEvent => aw'.pc \notin Waiting
  BY DEF WithEvent, Waiting, AudioSteps
<1>. QED
  BY <1>1, <1>2, <1>3 DEF EventsHeld, InHand

\* What another thread does at the mailbox keeps the stops that are posted, and posts
\* one for an owner it takes the sound from.
Stops(e) == e.kind \in {"cancelled", "focus"}
LEMMA MailMoves ==
  ASSUME SoundHeld, UNCHANGED <<aw, port, emergency>>, mailbox' \in Boxes,
         Later(mailbox, mailbox'),
         \A e \in In(mailbox') : e \in In(mailbox) \/ EventHeld(e, mailbox'),
         \A e \in In(mailbox) : Stops(e) => e \in In(mailbox'),
         \/ mailbox'.owner = mailbox.owner
         \/ /\ mailbox'.owner = None
            /\ Playing(mailbox) =>
                  \E e \in In(mailbox') : Stops(e) /\ e.stop = mailbox.owner.epoch,
         mailbox'.focused => mailbox.focused \/ mailbox'.owner = None,
         mailbox'.terminal = mailbox.terminal
  PROVE  SoundHeld'
<1> USE DEF SoundHeld
<1>1. AttentionTyped' /\ HandHeld' /\ PortOK(port)' /\ EndingHeld'
  BY DEF AttentionTyped, HandHeld, PortOK, EndingHeld
<1>2. EventsHeld' /\ InHand'
  <2>1. aw'.pc \in Waiting \/ (aw.pc \in WithEvent /\ aw'.event = aw.event)
    BY HandTyped
  <2>. QED
    BY <2>1, EventsMove
<1>3. FocusHeld'
  BY DEF FocusHeld
<1>4. LoopHeld'
  <2> SUFFICES ASSUME port.loop # 0
               PROVE  \/ Playing(mailbox)' /\ mailbox'.owner.epoch = port.loop
                      \/ StopUnderway(port.loop)'
                      \/ EndingAttention'
    BY DEF LoopHeld
  <2>1. CASE Playing(mailbox) /\ mailbox.owner.epoch = port.loop
    <3>1. CASE mailbox'.owner = mailbox.owner
      BY <2>1, <3>1 DEF Playing
    <3>2. CASE \E e \in In(mailbox') : Stops(e) /\ e.stop = mailbox.owner.epoch
      BY <2>1, <3>2, EventsIn DEF StopUnderway, Stops
    <3>. QED
      BY <2>1, <3>1, <3>2
  <2>2. CASE StopUnderway(port.loop)
    BY <2>2, EventsIn DEF StopUnderway, Stops
  <2>3. CASE EndingAttention
    BY <2>3 DEF EndingAttention
  <2>. QED
    BY <2>1, <2>2, <2>3 DEF LoopHeld
<1>. QED
  BY <1>1, <1>2, <1>3, <1>4

LEMMA TerminalMoves ==
  ASSUME SoundHeld, UNCHANGED <<aw, port>>, ~mailbox.terminal, EnterTerminal
  PROVE  SoundHeld'
<1> USE DEF SoundHeld
<1>1. /\ mailbox' \in Boxes /\ In(mailbox') = In(mailbox) /\ mailbox'.terminal = TRUE
      /\ mailbox'.owner = mailbox.owner /\ mailbox'.epoch = mailbox.epoch
      /\ mailbox'.focused = mailbox.focused
  BY TerminateDone DEF EnterTerminal
<1>2. emergency = "none" /\ emergency' = "audio"
  BY DEF EnterTerminal, EndingHeld
<1>3. AttentionTyped' /\ HandHeld' /\ PortOK(port)'
  BY DEF AttentionTyped, HandHeld, PortOK
<1>4. EndingHeld'
  BY <1>1, <1>2 DEF EndingHeld
<1>5. EventsHeld' /\ InHand'
  BY <1>1 DEF EventsHeld, InHand, EventHeld
<1>6. FocusHeld' /\ LoopHeld'
  BY <1>1, <1>2 DEF FocusHeld, LoopHeld, EndingAttention
<1>. QED
  BY <1>1, <1>3, <1>4, <1>5, <1>6

LEMMA SoundFrame ==
  ASSUME SoundHeld, UNCHANGED sound
  PROVE  SoundHeld'
<1>1. UNCHANGED <<mailbox, aw, port, emergency>>
  BY DEF sound
<1>. QED
  BY <1>1 DEF SoundHeld, AttentionTyped, HandHeld, EventsHeld, InHand, PortOK, EndingHeld,
     FocusHeld, LoopHeld, StopUnderway, EndingAttention, Events, In, EventHeld, Playing

LEMMA DispatchMoves ==
  ASSUME SoundHeld, BookInvariant, DispatchTimer
  PROVE  SoundHeld'
<1> DEFINE t == tw.ticket
           key == IF t = None THEN <<"message", Len(saved)>> ELSE t.key
<1>1. t \in Tickets \cup {None} /\ Len(saved) \in Nat
  BY DEF DispatchTimer, BookInvariant, WorkerTyped, BookTyped, Idle
<1>2. key \in Places /\ (t # None => key = t.key)
  BY <1>1, TicketKey DEF Places
<1>3. /\ UNCHANGED <<aw, port, emergency>>
      /\ mailbox' = mailbox \/ mailbox' = PublishTimer(mailbox, key, t)
  BY DEF DispatchTimer
<1>4. mailbox \in Boxes /\ mailbox.epoch \in Nat
  BY DEF SoundHeld, Boxes
<1> HIDE DEF key, t
<1>5. CASE mailbox' = mailbox
  BY <1>3, <1>5, SoundFrame DEF sound
<1>6. CASE mailbox' = PublishTimer(mailbox, key, t)
  <2> DEFINE event == Published(key, t, mailbox.focused, mailbox.epoch)
  <2>1. /\ mailbox' \in Boxes
        /\ In(mailbox') \subseteq In(mailbox) \cup {event}
        /\ \A e \in In(mailbox) : e \in In(mailbox') \/ (e.kind = "published" /\ e.key = key)
        /\ mailbox'.owner = mailbox.owner /\ mailbox'.epoch = mailbox.epoch
        /\ mailbox'.focused = mailbox.focused /\ mailbox'.terminal = mailbox.terminal
    BY <1>1, <1>2, <1>4, <1>6, PublishDone
  <2>2. EventHeld(event, mailbox')
    BY <1>2, <1>4, <2>1 DEF EventHeld, Published
  <2> HIDE DEF event
  <2>3. Later(mailbox, mailbox')
    BY <1>4, <2>1 DEF Later
  <2>4. \A e \in In(mailbox) : Stops(e) => e \in In(mailbox')
    BY <2>1 DEF Stops
  <2>. QED
    BY <1>3, <2>1, <2>2, <2>3, <2>4, MailMoves
<1>. QED
  BY <1>3, <1>5, <1>6

LEMMA EffectMoves ==
  ASSUME SoundHeld, BookInvariant, ApplyEffect
  PROVE  SoundHeld'
<1>1. PICK t \in effects :
          /\ IF mailbox.terminal THEN UNCHANGED <<mailbox, emergency>>
             ELSE IF CancelOverflows(mailbox, t) THEN EnterTerminal
             ELSE /\ mailbox' = IF AdmitsCancel(mailbox, t) THEN CancelTimer(mailbox, t)
                                ELSE mailbox
                  /\ UNCHANGED emergency
          /\ UNCHANGED <<aw, port>>
  BY DEF ApplyEffect
<1>2. t \in Tickets /\ mailbox \in Boxes /\ mailbox.epoch \in Nat
  BY <1>1 DEF BookInvariant, SoundHeld, Boxes
<1>3. CASE UNCHANGED <<mailbox, emergency>>
  BY <1>1, <1>3, SoundFrame DEF sound
<1>4. CASE ~mailbox.terminal /\ EnterTerminal
  BY <1>1, <1>4, TerminalMoves
<1>5. CASE mailbox' = CancelTimer(mailbox, t) /\ emergency' = emergency
  <2>1. /\ mailbox' \in Boxes /\ mailbox'.focused = mailbox.focused
        /\ mailbox'.terminal = mailbox.terminal
        /\ \/ /\ mailbox'.owner = None /\ mailbox'.epoch = mailbox.epoch + 1
              /\ In(mailbox') = In(mailbox) \cup {Cancelled(t, StopKey(mailbox))}
           \/ /\ mailbox'.owner = mailbox.owner /\ mailbox'.epoch = mailbox.epoch
              /\ In(mailbox') = In(mailbox) \cup {Cancelled(t, 0)}
    BY <1>2, <1>5, CancelDone
  <2>2. Later(mailbox, mailbox')
    BY <1>2, <2>1 DEF Later
  <2>3. /\ EventHeld(Cancelled(t, 0), mailbox')
        /\ EventHeld(Cancelled(t, StopKey(mailbox)), mailbox')
        /\ Cancelled(t, StopKey(mailbox)).stop = StopKey(mailbox)
        /\ Stops(Cancelled(t, StopKey(mailbox)))
    BY DEF EventHeld, Cancelled, Stops
  <2>4. Playing(mailbox) => StopKey(mailbox) = mailbox.owner.epoch
    BY DEF StopKey
  <2> DEFINE c == Cancelled(t, StopKey(mailbox))
             d == Cancelled(t, 0)
  <2>5. /\ EventHeld(c, mailbox') /\ EventHeld(d, mailbox') /\ Stops(c)
        /\ Playing(mailbox) => c.stop = mailbox.owner.epoch
        /\ \/ /\ mailbox'.owner = None /\ In(mailbox') = In(mailbox) \cup {c}
           \/ /\ mailbox'.owner = mailbox.owner /\ In(mailbox') = In(mailbox) \cup {d}
    BY <2>1, <2>3, <2>4
  <2> HIDE DEF c, d
  <2>6. \/ mailbox'.owner = mailbox.owner
        \/ /\ mailbox'.owner = None
           /\ Playing(mailbox) =>
                 \E e \in In(mailbox') : Stops(e) /\ e.stop = mailbox.owner.epoch
    BY <2>5
  <2>7. /\ \A e \in In(mailbox') : e \in In(mailbox) \/ EventHeld(e, mailbox')
        /\ \A e \in In(mailbox) : e \in In(mailbox')
    BY <2>5
  <2>8. mailbox'.focused => mailbox.focused \/ mailbox'.owner = None
    BY <2>1
  <2>. QED
    BY <1>1, <1>5, <2>1, <2>2, <2>6, <2>7, <2>8, MailMoves
<1>. QED
  BY <1>1, <1>3, <1>4, <1>5

LEMMA FocusMoves ==
  ASSUME SoundHeld, NEW focused \in BOOLEAN, ObserveMainFocus(focused)
  PROVE  SoundHeld'
<1>1. /\ UNCHANGED <<aw, port>>
      /\ IF FocusOverflows(mailbox) THEN EnterTerminal
         ELSE /\ mailbox' = IF mailbox.terminal THEN mailbox ELSE AdmitFocus(mailbox, focused)
              /\ UNCHANGED emergency
  BY DEF ObserveMainFocus
<1>2. mailbox \in Boxes /\ mailbox.epoch \in Nat
  BY DEF SoundHeld, Boxes
<1>3. CASE UNCHANGED <<mailbox, emergency>>
  BY <1>1, <1>3, SoundFrame DEF sound
<1>4. CASE ~mailbox.terminal /\ EnterTerminal
  BY <1>1, <1>4, TerminalMoves
<1>5. CASE mailbox' = AdmitFocus(mailbox, focused) /\ emergency' = emergency
  <2> DEFINE c == Focus(TRUE, StopKey(mailbox))
             d == Focus(FALSE, 0)
  <2>1. /\ mailbox' \in Boxes /\ (mailbox'.focused <=> focused)
        /\ mailbox'.terminal = mailbox.terminal
        /\ \/ /\ focused /\ mailbox'.owner = None /\ mailbox'.epoch = mailbox.epoch + 1
              /\ In(mailbox') = In(mailbox) \cup {c}
           \/ /\ ~focused /\ mailbox'.owner = mailbox.owner /\ mailbox'.epoch = mailbox.epoch
              /\ In(mailbox') = In(mailbox) \cup {d}
    BY <1>2, <1>5, FocusDone
  <2>2. Later(mailbox, mailbox')
    <3>1. CASE focused
      BY <1>2, <2>1, <3>1 DEF Later
    <3>2. CASE ~focused
      <4>1. mailbox'.epoch = mailbox.epoch
        BY <2>1, <3>2
      <4>2. ~mailbox'.focused
        BY <2>1, <3>2
      <4>. QED
        BY <1>2, <4>1, <4>2 DEF Later
    <3>. QED
      BY <3>1, <3>2
  <2>3. Playing(mailbox) => StopKey(mailbox) = mailbox.owner.epoch
    BY DEF StopKey
  <2>4. /\ EventHeld(c, mailbox') /\ EventHeld(d, mailbox') /\ Stops(c)
        /\ Playing(mailbox) => c.stop = mailbox.owner.epoch
    BY <2>3 DEF EventHeld, Focus, Stops
  <2> HIDE DEF c, d
  <2>5. \/ mailbox'.owner = mailbox.owner
        \/ /\ mailbox'.owner = None
           /\ Playing(mailbox) =>
                 \E e \in In(mailbox') : Stops(e) /\ e.stop = mailbox.owner.epoch
    BY <2>1, <2>4
  <2>6. /\ \A e \in In(mailbox') : e \in In(mailbox) \/ EventHeld(e, mailbox')
        /\ \A e \in In(mailbox) : e \in In(mailbox')
    BY <2>1, <2>4
  <2>7. mailbox'.focused => mailbox.focused \/ mailbox'.owner = None
    BY <2>1
  <2>. QED
    BY <1>1, <1>5, <2>1, <2>2, <2>5, <2>6, <2>7, MailMoves
<1>. QED
  BY <1>1, <1>3, <1>4, <1>5 DEF FocusOverflows

LEMMA OrdinaryMoves ==
  ASSUME SoundHeld, PublishOrdinary
  PROVE  SoundHeld'
<1>1. /\ UNCHANGED <<aw, port, emergency>>
      /\ mailbox' = Post(mailbox, Ordinary(mailbox.focused))
  BY DEF PublishOrdinary
<1>2. mailbox \in Boxes /\ mailbox.epoch \in Nat /\ mailbox.focused \in BOOLEAN
  BY DEF SoundHeld, Boxes
<1> DEFINE e0 == Ordinary(mailbox.focused)
<1>3. e0 \in EventRecords
  BY <1>2, FocusTyped
<1>4. EventHeld(e0, mailbox')
  BY DEF EventHeld, Ordinary
<1>5. mailbox' = Post(mailbox, e0)
  BY <1>1
<1> HIDE DEF e0
<1>6. /\ mailbox' \in Boxes /\ In(mailbox') = In(mailbox) \cup {e0}
      /\ mailbox'.owner = mailbox.owner /\ mailbox'.epoch = mailbox.epoch
      /\ mailbox'.focused = mailbox.focused /\ mailbox'.terminal = mailbox.terminal
  BY <1>2, <1>3, <1>5, PostDone
<1>7. Later(mailbox, mailbox')
  BY <1>2, <1>6 DEF Later
<1>. QED
  BY <1>1, <1>4, <1>6, <1>7, MailMoves

\* The adapter: stopping ends the loop of the key or nothing.
LEMMA StopOrdinaryDone ==
  ASSUME NEW q, PortOK(q)
  PROVE  /\ PortOK(StopOrdinary(q)) /\ StopOrdinary(q).loop = q.loop
         /\ StopOrdinary(q).dead <=> q.dead
  BY DEF PortOK, StopOrdinary

LEMMA StopLoopDone ==
  ASSUME NEW q, PortOK(q), NEW key \in Nat
  PROVE  \A s \in StopLoop(q, key) :
             /\ PortOK(s) /\ (q.dead => s.dead)
             /\ s.loop = 0 \/ (s.loop = q.loop /\ q.loop # key)
<1>1. q \in [loop : Nat, ordinary : BOOLEAN, dead : BOOLEAN]
  BY DEF PortOK
<1>2. CASE q.dead \/ q.loop # key \/ key = 0
  BY <1>1, <1>2 DEF PortOK, StopLoop
<1>3. CASE ~(q.dead \/ q.loop # key \/ key = 0)
  <2> DEFINE silent == [q EXCEPT !.loop = 0]
             ended == [q EXCEPT !.loop = 0, !.dead = TRUE]
  <2>1. StopLoop(q, key) = {silent, ended}
    BY <1>3 DEF StopLoop
  <2>2. PortOK(silent) /\ silent.loop = 0 /\ ~q.dead
    BY <1>1, <1>3 DEF PortOK
  <2>3. PortOK(ended) /\ ended.loop = 0
    BY <1>1 DEF PortOK
  <2> HIDE DEF silent, ended
  <2>. QED
    BY <2>1, <2>2, <2>3
<1>. QED
  BY <1>2, <1>3

\* A step of the attention worker on the event it has in hand.
LEMMA HandMoves ==
  ASSUME SoundHeld, UNCHANGED <<mailbox, port, emergency>>, aw.pc \in AudioSteps,
         aw.pc \notin {"started", "late"},
         \/ aw' = Idle
         \/ \E pc \in AudioSteps : /\ aw' = At(pc)
                                   /\ pc \in {"check", "admit", "reserve"}
                                        => aw.pc \in {"check", "admit", "reserve"}
  PROVE  SoundHeld'
<1> USE DEF SoundHeld
<1>1. /\ aw'.pc \notin {"terminate", "dead", "cleanup"}
      /\ AttentionTyped' /\ HandHeld'
      /\ aw'.pc \in Waiting \/ (aw.pc \in WithEvent /\ aw'.event = aw.event)
  <2>1. CASE aw' = Idle
    BY <2>1 DEF Idle, AttentionTyped, HandHeld, Waiting, AudioSteps
  <2>2. ASSUME NEW pc \in AudioSteps, aw' = At(pc),
               pc \in {"check", "admit", "reserve"} => aw.pc \in {"check", "admit", "reserve"}
        PROVE  /\ aw'.pc \notin {"terminate", "dead", "cleanup"}
               /\ AttentionTyped' /\ HandHeld'
               /\ aw.pc \in WithEvent /\ aw'.event = aw.event
    <3>1. aw'.pc = pc /\ aw'.event = aw.event /\ AttentionTyped'
      BY <2>2, AtDone DEF AttentionTyped
    <3>2. HandHeld'
      BY <2>2, <3>1 DEF HandHeld, AudioSteps
    <3>. QED
      BY <2>2, <3>1, <3>2 DEF AudioSteps, WithEvent
  <2>. QED
    BY <2>1, <2>2
<1>2. Later(mailbox, mailbox')
  BY DEF Later, Boxes
<1>3. EventsHeld' /\ InHand'
  BY <1>1, <1>2, EventsMove
<1>4. PortOK(port)' /\ EndingHeld' /\ FocusHeld'
  BY <1>1 DEF PortOK, EndingHeld, FocusHeld
<1>5. LoopHeld'
  <2>1. aw.pc \notin {"cancelled", "focus", "started", "late", "dead"}
    BY DEF AudioSteps
  <2>2. StopUnderway(port.loop) => StopUnderway(port.loop)'
    BY <2>1 DEF StopUnderway, Events
  <2>3. EndingAttention => EndingAttention'
    BY <1>1 DEF EndingAttention
  <2>. QED
    BY <2>2, <2>3 DEF LoopHeld, Playing
<1>. QED
  BY <1>1, <1>3, <1>4, <1>5

\* A step that leaves the mailbox alone and after which the worker is idle.
LEMMA PortMoves ==
  ASSUME SoundHeld, UNCHANGED <<mailbox, emergency>>, aw.pc \in WithEvent, aw' = Idle,
         PortOK(port'), port.dead => port'.dead,
         port'.loop = 0 \/ (port'.loop = port.loop
                              /\ ~(aw.pc \in {"cancelled", "focus"} /\ aw.event.stop = port.loop)
                              /\ ~(aw.pc \in {"started", "late"} /\ aw.event.epoch = port.loop))
  PROVE  SoundHeld'
<1> USE DEF SoundHeld
<1>1. AttentionTyped' /\ HandHeld' /\ aw'.pc = "idle" /\ aw'.pc \in Waiting
  BY DEF Idle, AttentionTyped, HandHeld, Waiting, AudioSteps
<1>2. Later(mailbox, mailbox')
  BY DEF Later, Boxes
<1>3. EventsHeld' /\ InHand'
  BY <1>1, <1>2, EventsMove
<1>4. EndingHeld' /\ FocusHeld'
  BY <1>1 DEF EndingHeld, FocusHeld
<1>5. LoopHeld'
  <2> SUFFICES ASSUME port'.loop # 0 PROVE LoopHeld'
    BY DEF LoopHeld
  <2>1. StopUnderway(port.loop) => StopUnderway(port.loop)'
    BY DEF StopUnderway, Events
  <2>2. EndingAttention => EndingAttention'
    BY <1>1 DEF EndingAttention
  <2>. QED
    BY <2>1, <2>2 DEF LoopHeld, Playing
<1>. QED
  BY <1>1, <1>3, <1>4, <1>5

LEMMA TakeMoves ==
  ASSUME SoundHeld, TakeEvent
  PROVE  SoundHeld'
<1> USE DEF SoundHeld
<1>1. aw.pc = "idle" /\ UNCHANGED <<port, emergency>>
  BY DEF TakeEvent
<1>2. CASE mailbox.terminal
  <2>1. aw' = [pc |-> "cleanup"] /\ mailbox' = mailbox
    BY <1>2 DEF TakeEvent
  <2>2. AttentionTyped' /\ HandHeld' /\ aw'.pc \in Waiting
    BY <2>1 DEF AttentionTyped, HandHeld, AudioSteps, Waiting
  <2>3. Later(mailbox, mailbox')
    BY <2>1 DEF Later, Boxes
  <2>4. EventsHeld' /\ InHand'
    BY <2>1, <2>2, <2>3, EventsMove
  <2>5. PortOK(port)' /\ EndingHeld' /\ FocusHeld' /\ LoopHeld'
    BY <1>1, <1>2, <2>1 DEF PortOK, EndingHeld, FocusHeld, LoopHeld, EndingAttention
  <2>. QED
    BY <2>1, <2>2, <2>4, <2>5
<1>3. CASE ~mailbox.terminal
  <2> DEFINE e == Head(mailbox.events)
  <2>1. /\ mailbox' \in Boxes /\ In(mailbox) = In(mailbox') \cup {e} /\ e \in EventRecords
        /\ mailbox'.owner = mailbox.owner /\ mailbox'.epoch = mailbox.epoch
        /\ mailbox'.focused = mailbox.focused /\ mailbox'.terminal = mailbox.terminal
    BY <1>3, TailDone DEF TakeEvent
  <2>2. \/ EntryOf(e) = "idle" /\ aw' = Idle
        \/ EntryOf(e) # "idle" /\ aw' = [pc |-> EntryOf(e), event |-> e]
    BY <1>3 DEF TakeEvent
  <2> HIDE DEF e
  <2>3. EventHeld(e, mailbox)
    BY <2>1 DEF EventsHeld
  <2>4. /\ EntryOf(e) \in {"idle", "ordinary", "settle", "check", "cancelled", "focus"}
        /\ EntryOf(e) \in {"settle", "check"} => /\ e.kind = "published" /\ e.ticket # None
                                                 /\ e.focused <=> EntryOf(e) = "settle"
        /\ EntryOf(e) \in {"cancelled", "focus"} => e.kind = EntryOf(e)
        /\ Stops(e) => EntryOf(e) = e.kind
    <3>1. e.kind \in {"ordinary", "published", "cancelled", "focus"}
          /\ (e.kind \in {"ordinary", "published"} => e.focused \in BOOLEAN)
      BY <2>1, EventTyped
    <3>2. CASE e.kind = "ordinary"
      BY <3>1, <3>2 DEF EntryOf, Stops
    <3>3. CASE e.kind = "published"
      BY <3>1, <3>3 DEF EntryOf, Stops
    <3>4. CASE Stops(e)
      BY <3>4 DEF EntryOf, Stops
    <3>. QED
      BY <3>1, <3>2, <3>3, <3>4 DEF Stops
  <2>5. AttentionTyped'
    BY <2>1, <2>2, <2>4 DEF AttentionTyped, Idle, AudioSteps
  <2>6. HandHeld'
    <3>1. CASE aw' = Idle
      BY <3>1 DEF Idle, HandHeld, AudioSteps
    <3>2. CASE aw' = [pc |-> EntryOf(e), event |-> e] /\ EntryOf(e) # "idle"
      <4>1. aw'.pc = EntryOf(e) /\ aw'.event = e
        BY <3>2
      <4>2. aw'.pc \in AudioSteps => aw'.pc \in {"settle", "check"}
        BY <2>4, <4>1 DEF AudioSteps
      <4>3. EntryOf(e) \in {"settle", "check"} => e.ticket \in Tickets /\ e.key = e.ticket.key
        BY <2>1, <2>3, <2>4, EventTyped DEF EventHeld
      <4>. QED
        BY <2>1, <2>3, <2>4, <4>1, <4>2, <4>3 DEF HandHeld, EventHeld
    <3>. QED
      BY <2>2, <3>1, <3>2
  <2>7. Later(mailbox, mailbox')
    BY <2>1 DEF Later, Boxes
  <2>8. aw'.pc \in Waiting \/ aw'.event \in In(mailbox)
    BY <2>1, <2>2 DEF Idle, Waiting
  <2>9. EventsHeld' /\ InHand'
    BY <2>1, <2>7, <2>8, EventsMove
  <2>10. aw'.pc \notin {"cleanup", "terminate", "dead"}
    BY <2>2, <2>4 DEF Idle
  <2>11. PortOK(port)' /\ EndingHeld' /\ FocusHeld'
    BY <1>1, <2>1, <2>10 DEF PortOK, EndingHeld, FocusHeld
  <2>12. LoopHeld'
    <3>1. ASSUME StopUnderway(port.loop) PROVE StopUnderway(port.loop)'
      <4>1. PICK d \in In(mailbox) : Stops(d) /\ d.stop = port.loop
        BY <1>1, <3>1, EventsIn DEF StopUnderway, Stops
      <4>2. CASE d \in In(mailbox')
        BY <1>1, <4>1, <4>2, EventsIn DEF StopUnderway, Stops
      <4>3. CASE d = e
        <5>1. aw' = [pc |-> EntryOf(e), event |-> e] /\ EntryOf(e) = e.kind
          BY <2>2, <2>4, <4>1, <4>3 DEF Stops
        <5>2. aw'.pc \in {"cancelled", "focus"} /\ aw'.event.stop = port.loop
          BY <4>1, <4>3, <5>1 DEF Stops
        <5>. QED
          BY <1>1, <5>2 DEF StopUnderway
      <4>. QED
        BY <2>1, <4>1, <4>2, <4>3
    <3>2. ~EndingAttention
      BY <1>3 DEF EndingAttention
    <3>. QED
      BY <1>1, <2>1, <3>1, <3>2 DEF LoopHeld, Playing
  <2>. QED
    BY <2>1, <2>5, <2>6, <2>9, <2>11, <2>12
<1>. QED
  BY <1>2, <1>3

LEMMA HandleMoves ==
  ASSUME SoundHeld, HandleFocus \/ HandleCancelled \/ HandleOrdinary \/ StopLate
  PROVE  SoundHeld'
<1>1. /\ UNCHANGED <<mailbox, emergency>> /\ aw' = Idle
      /\ aw.pc \in {"focus", "cancelled", "ordinary", "late"}
  BY DEF HandleFocus, HandleCancelled, HandleOrdinary, StopLate
<1>2. aw.pc \in WithEvent /\ aw.event \in EventRecords /\ PortOK(port)
  BY <1>1, HandTyped DEF SoundHeld, WithEvent, AudioSteps
<1>3. CASE HandleFocus
  <2>1. aw.pc = "focus" /\ aw.event.kind = "focus" /\ aw.event.stop \in Nat
        /\ (~aw.event.focused => aw.event.stop = 0)
    BY <1>2, <1>3, EventTyped DEF HandleFocus, SoundHeld, HandHeld
  <2>2. CASE aw.event.focused
    <3>1. port' \in StopLoop(StopOrdinary(port), aw.event.stop)
      BY <1>3, <2>2 DEF HandleFocus
    <3>2. /\ PortOK(StopOrdinary(port)) /\ StopOrdinary(port).loop = port.loop
          /\ StopOrdinary(port).dead <=> port.dead
      BY <1>2, StopOrdinaryDone
    <3> DEFINE q == StopOrdinary(port)
    <3> HIDE DEF q
    <3>3. /\ PortOK(port') /\ (port.dead => port'.dead)
          /\ port'.loop = 0 \/ (port'.loop = port.loop /\ port.loop # aw.event.stop)
      BY <2>1, <3>1, <3>2, StopLoopDone DEF q
    <3>. QED
      BY <1>1, <1>2, <2>1, <3>3, PortMoves
  <2>3. CASE ~aw.event.focused
    <3>1. port' = port
      BY <1>3, <2>3 DEF HandleFocus
    <3>. QED
      BY <1>1, <1>2, <2>1, <2>3, <3>1, PortMoves
  <2>. QED
    BY <2>2, <2>3
<1>4. CASE HandleCancelled
  <2>1. aw.pc = "cancelled" /\ aw.event.stop \in Nat /\ port' \in StopLoop(port, aw.event.stop)
    BY <1>2, <1>4, EventTyped DEF HandleCancelled, SoundHeld, HandHeld
  <2>2. /\ PortOK(port') /\ (port.dead => port'.dead)
        /\ port'.loop = 0 \/ (port'.loop = port.loop /\ port.loop # aw.event.stop)
    BY <1>2, <2>1, StopLoopDone
  <2>. QED
    BY <1>1, <1>2, <2>1, <2>2, PortMoves
<1>5. CASE HandleOrdinary
  <2>1. /\ aw.pc = "ordinary"
        /\ port' = port \/ port' = [port EXCEPT !.ordinary = TRUE]
    BY <1>5 DEF HandleOrdinary
  <2>2. PortOK(port') /\ (port.dead => port'.dead) /\ port'.loop = port.loop
    BY <1>2, <2>1 DEF PortOK
  <2>. QED
    BY <1>1, <1>2, <2>1, <2>2, PortMoves
<1>6. CASE StopLate
  <2>1. aw.pc = "late" /\ aw.event.epoch \in Nat /\ port' \in StopLoop(port, aw.event.epoch)
    BY <1>2, <1>6, EventTyped DEF StopLate, SoundHeld, HandHeld, AudioSteps
  <2>2. /\ PortOK(port') /\ (port.dead => port'.dead)
        /\ port'.loop = 0 \/ (port'.loop = port.loop /\ port.loop # aw.event.epoch)
    BY <1>2, <2>1, StopLoopDone
  <2>. QED
    BY <1>1, <1>2, <2>1, <2>2, PortMoves
<1>. QED
  BY <1>3, <1>4, <1>5, <1>6

LEMMA TicketMoves ==
  ASSUME SoundHeld, SettleTicket \/ CheckEpoch \/ AdmitAudioStart \/ FailTicket
  PROVE  SoundHeld'
<1>1. UNCHANGED <<mailbox, port, emergency>> /\ aw.pc \in {"settle", "check", "admit", "failed"}
  BY DEF SettleTicket, CheckEpoch, AdmitAudioStart, FailTicket
<1>2. aw.pc \in AudioSteps /\ aw.pc \notin {"started", "late"}
  BY <1>1 DEF AudioSteps
<1>3. \/ aw' = Idle
      \/ aw.pc = "check" /\ (aw' = At("admit") \/ aw' = At("settle"))
      \/ aw.pc = "admit" /\ aw' = At("reserve")
  BY DEF SettleTicket, CheckEpoch, AdmitAudioStart, FailTicket
<1>4. "admit" \in AudioSteps /\ "settle" \in AudioSteps /\ "reserve" \in AudioSteps
  BY DEF AudioSteps
<1>. QED
  BY <1>1, <1>2, <1>3, <1>4, HandMoves

LEMMA ReserveMoves ==
  ASSUME SoundHeld, ReserveOwner
  PROVE  SoundHeld'
<1> USE DEF SoundHeld
<1>1. /\ aw.pc = "reserve" /\ aw.pc \in AudioSteps /\ UNCHANGED <<port, emergency>>
      /\ "failed" \in AudioSteps /\ "start" \in AudioSteps
  BY DEF ReserveOwner, AudioSteps
<1>2. CASE ~EpochOpen(mailbox, aw.event.epoch)
  BY <1>1, <1>2, HandMoves DEF ReserveOwner
<1>3. CASE EpochOpen(mailbox, aw.event.epoch)
  <2> DEFINE t == aw.event.ticket
  <2>1. /\ aw.event.kind = "published" /\ t \in Tickets /\ ~aw.event.focused
        /\ aw.event.key = t.key
    BY <1>1 DEF HandHeld
  <2>2. mailbox' = Reserve(mailbox, t) /\ aw' = At("start")
    BY <1>3 DEF ReserveOwner
  <2>3. aw'.pc = "start" /\ aw'.event = aw.event /\ AttentionTyped'
    BY <1>1, <2>2, AtDone DEF AttentionTyped
  <2>4. HandHeld'
    BY <2>1, <2>3 DEF HandHeld
  <2> HIDE DEF t
  <2>5. /\ mailbox' \in Boxes /\ In(mailbox') = In(mailbox)
        /\ mailbox'.epoch = mailbox.epoch /\ mailbox'.focused = mailbox.focused
        /\ mailbox'.terminal = mailbox.terminal
    BY <2>1, <2>2, ReserveDone
  <2>6. Later(mailbox, mailbox')
    BY <2>5 DEF Later, Boxes
  <2>7. aw.pc \in WithEvent /\ aw'.event = aw.event
    BY <1>1, <2>3 DEF WithEvent
  <2>8. EventsHeld' /\ InHand'
    BY <2>5, <2>6, <2>7, EventsMove
  <2>9. PortOK(port)' /\ EndingHeld'
    BY <1>1, <2>3, <2>5 DEF PortOK, EndingHeld
  <2>10. ~mailbox.focused /\ mailbox.owner = None /\ ~mailbox.terminal
    <3>1. InHand /\ aw.event.epoch = mailbox.epoch /\ mailbox.epoch \in Nat
      BY <1>3 DEF EpochOpen, Boxes
    <3>2. EventHeld(aw.event, mailbox)
      BY <2>7, <3>1 DEF InHand
    <3>. QED
      BY <1>3, <2>1, <3>1, <3>2 DEF EpochOpen, EventHeld
  <2>11. FocusHeld'
    BY <2>5, <2>10 DEF FocusHeld
  <2>12. LoopHeld'
    <3>1. ~Playing(mailbox) /\ ~EndingAttention
      BY <2>10 DEF Playing, EndingAttention
    <3>2. StopUnderway(port.loop) => StopUnderway(port.loop)'
      BY <1>1, <2>3, <2>5, EventsIn DEF StopUnderway
    <3>. QED
      BY <1>1, <3>1, <3>2 DEF LoopHeld
  <2>. QED
    BY <2>3, <2>4, <2>5, <2>8, <2>9, <2>11, <2>12
<1>. QED
  BY <1>2, <1>3

LEMMA StartMoves ==
  ASSUME SoundHeld, StartTimerLoop
  PROVE  SoundHeld'
<1> USE DEF SoundHeld
<1>1. /\ aw.pc = "start" /\ aw.pc \in AudioSteps /\ UNCHANGED <<mailbox, emergency>>
      /\ "started" \in AudioSteps /\ "refused" \in AudioSteps /\ aw.pc \in WithEvent
  BY DEF StartTimerLoop, AudioSteps, WithEvent
<1> DEFINE q == StopOrdinary(port)
<1>2. PortOK(q) /\ q.loop = port.loop /\ (q.dead <=> port.dead)
  BY StopOrdinaryDone
<1>3. \/ /\ ~q.dead /\ q.loop = 0 /\ aw' = At("started")
         /\ port' = [q EXCEPT !.loop = aw.event.epoch, !.ordinary = FALSE]
      \/ port' = q /\ aw' = At("refused")
  BY DEF StartTimerLoop
<1> HIDE DEF q
<1>4. aw'.pc \in {"started", "refused"} /\ aw'.event = aw.event /\ AttentionTyped'
  BY <1>1, <1>3, AtDone DEF AttentionTyped
<1>5. HandHeld'
  BY <1>1, <1>4 DEF HandHeld
<1>6. Later(mailbox, mailbox')
  BY <1>1 DEF Later, Boxes
<1>7. EventsHeld' /\ InHand'
  BY <1>1, <1>4, <1>6, EventsMove
<1>8. EndingHeld' /\ FocusHeld'
  <2>1. port.dead => port'.dead
    BY <1>2, <1>3
  <2>. QED
    BY <1>1, <1>4, <2>1 DEF EndingHeld, FocusHeld
<1>9. CASE /\ ~q.dead /\ q.loop = 0 /\ aw' = At("started")
           /\ port' = [q EXCEPT !.loop = aw.event.epoch, !.ordinary = FALSE]
  <2>1. aw.event.epoch \in Nat /\ aw.event \in EventRecords
    BY <1>1, HandTyped, EventTyped DEF HandHeld
  <2>2. PortOK(port') /\ port'.loop = aw.event.epoch
    BY <1>2, <1>9, <2>1 DEF PortOK
  <2>3. aw'.pc = "started"
    BY <1>1, <1>9, AtDone
  <2>4. LoopHeld'
    BY <1>4, <2>2, <2>3 DEF LoopHeld, StopUnderway
  <2>. QED
    BY <1>1, <1>4, <1>5, <1>7, <1>8, <2>2, <2>4
<1>10. CASE port' = q /\ aw' = At("refused")
  <2>1. PortOK(port') /\ port'.loop = port.loop
    BY <1>2, <1>10
  <2>2. StopUnderway(port.loop) => StopUnderway(port.loop)'
    BY <1>1, <1>4, <2>1 DEF StopUnderway, Events
  <2>3. EndingAttention => EndingAttention'
    BY <1>1, <1>4 DEF EndingAttention
  <2>4. LoopHeld'
    BY <1>1, <2>1, <2>2, <2>3 DEF LoopHeld, Playing
  <2>. QED
    BY <1>1, <1>4, <1>5, <1>7, <1>8, <2>1, <2>4
<1>. QED
  BY <1>3, <1>9, <1>10

LEMMA PlayMoves ==
  ASSUME SoundHeld, CommitPlaying
  PROVE  SoundHeld'
<1> USE DEF SoundHeld
<1>1. /\ aw.pc = "started" /\ aw.pc \in AudioSteps /\ UNCHANGED <<port, emergency>>
      /\ "late" \in AudioSteps /\ aw.pc \in WithEvent
  BY DEF CommitPlaying, AudioSteps, WithEvent
<1>2. CASE ~ReservedByWorker
  <2>1. mailbox' = mailbox /\ aw' = At("late")
    BY <1>2 DEF CommitPlaying
  <2>2. aw'.pc = "late" /\ aw'.event = aw.event /\ AttentionTyped'
    BY <1>1, <2>1, AtDone DEF AttentionTyped
  <2>3. HandHeld'
    BY <1>1, <2>2 DEF HandHeld
  <2>4. Later(mailbox, mailbox')
    BY <2>1 DEF Later, Boxes
  <2>5. EventsHeld' /\ InHand'
    BY <1>1, <2>1, <2>2, <2>4, EventsMove
  <2>6. PortOK(port)' /\ EndingHeld' /\ FocusHeld'
    BY <1>1, <2>1, <2>2 DEF PortOK, EndingHeld, FocusHeld
  <2>7. StopUnderway(port.loop) => StopUnderway(port.loop)'
    BY <1>1, <2>1, <2>2 DEF StopUnderway, Events
  <2>8. EndingAttention => EndingAttention'
    BY <1>1, <2>1, <2>2 DEF EndingAttention
  <2>9. LoopHeld'
    BY <1>1, <2>1, <2>7, <2>8 DEF LoopHeld, Playing
  <2>. QED
    BY <2>1, <2>2, <2>3, <2>5, <2>6, <2>9
<1>3. CASE ReservedByWorker
  <2>1. mailbox' = Play(mailbox) /\ aw' = Idle
    BY <1>3 DEF CommitPlaying
  <2>2. /\ mailbox.owner = [ticket |-> aw.event.ticket, epoch |-> aw.event.epoch,
                            phase |-> "reserved"]
        /\ aw.event.epoch \in Nat /\ aw.event.ticket \in Tickets
    BY <1>1, <1>3, HandTyped, EventTyped DEF ReservedByWorker, OwnerIs, HandHeld
  <2>3. mailbox.owner \in Owners /\ mailbox.owner # None
    BY <2>2, AlarmAssumption DEF Owners
  <2>4. /\ mailbox' \in Boxes /\ In(mailbox') = In(mailbox)
        /\ mailbox'.owner # None /\ mailbox'.owner.phase = "playing"
        /\ mailbox'.owner.epoch = mailbox.owner.epoch
        /\ mailbox'.epoch = mailbox.epoch /\ mailbox'.focused = mailbox.focused
        /\ mailbox'.terminal = mailbox.terminal
    BY <2>1, <2>3, PlayDone
  <2>5. AttentionTyped' /\ HandHeld' /\ aw'.pc \in Waiting
        /\ aw'.pc \notin {"cleanup", "terminate", "dead"}
    BY <2>1 DEF Idle, AttentionTyped, HandHeld, Waiting, AudioSteps
  <2>6. Later(mailbox, mailbox')
    BY <2>4 DEF Later, Boxes
  <2>7. EventsHeld' /\ InHand'
    BY <2>4, <2>5, <2>6, EventsMove
  <2>8. PortOK(port)' /\ EndingHeld' /\ FocusHeld'
    BY <1>1, <2>3, <2>4, <2>5 DEF PortOK, EndingHeld, FocusHeld
  <2>9. LoopHeld'
    <3>1. ~Playing(mailbox) /\ mailbox.owner.epoch = aw.event.epoch
      BY <2>2 DEF Playing
    <3>2. CASE port.loop = aw.event.epoch
      BY <1>1, <2>4, <3>1, <3>2 DEF LoopHeld, Playing
    <3>3. CASE port.loop # aw.event.epoch
      <4>1. StopUnderway(port.loop) => StopUnderway(port.loop)'
        BY <1>1, <2>4, <3>3, EventsIn DEF StopUnderway
      <4>2. EndingAttention => EndingAttention'
        BY <1>1, <2>4, <2>5 DEF EndingAttention
      <4>. QED
        BY <1>1, <3>1, <4>1, <4>2 DEF LoopHeld
    <3>. QED
      BY <3>2, <3>3
  <2>. QED
    BY <2>4, <2>5, <2>7, <2>8, <2>9
<1>. QED
  BY <1>2, <1>3

LEMMA RevokeMoves ==
  ASSUME SoundHeld, RevokeRefused
  PROVE  SoundHeld'
<1> USE DEF SoundHeld
<1>1. /\ aw.pc = "refused" /\ aw.pc \in AudioSteps /\ UNCHANGED <<port, emergency>>
      /\ "failed" \in AudioSteps /\ aw.pc \in WithEvent /\ aw' = At("failed")
  BY DEF RevokeRefused, AudioSteps, WithEvent
<1>2. CASE ~ReservedByWorker
  <2>1. mailbox' = mailbox
    BY <1>2 DEF RevokeRefused
  <2>. QED
    BY <1>1, <2>1, HandMoves
<1>3. CASE ReservedByWorker
  <2>1. mailbox' = AdvanceEpoch(mailbox)
    BY <1>3 DEF RevokeRefused
  <2>2. /\ mailbox' \in Boxes /\ In(mailbox') = In(mailbox) /\ mailbox'.owner = None
        /\ mailbox'.epoch = mailbox.epoch + 1 /\ mailbox'.focused = mailbox.focused
        /\ mailbox'.terminal = mailbox.terminal
    BY <2>1, AdvanceDone
  <2>3. aw'.pc = "failed" /\ aw'.event = aw.event /\ AttentionTyped'
    BY <1>1, AtDone DEF AttentionTyped
  <2>4. HandHeld'
    BY <1>1, <2>3 DEF HandHeld
  <2>5. Later(mailbox, mailbox')
    BY <2>2 DEF Later, Boxes
  <2>6. EventsHeld' /\ InHand'
    BY <1>1, <2>2, <2>3, <2>5, EventsMove
  <2>7. PortOK(port)' /\ EndingHeld' /\ FocusHeld'
    BY <1>1, <2>2, <2>3 DEF PortOK, EndingHeld, FocusHeld
  <2>8. ~Playing(mailbox)
    BY <1>3 DEF ReservedByWorker, OwnerIs, Playing
  <2>9. StopUnderway(port.loop) => StopUnderway(port.loop)'
    BY <1>1, <2>2, <2>3, EventsIn DEF StopUnderway
  <2>10. EndingAttention => EndingAttention'
    BY <1>1, <2>2, <2>3 DEF EndingAttention
  <2>11. LoopHeld'
    BY <1>1, <2>8, <2>9, <2>10 DEF LoopHeld
  <2>. QED
    BY <2>2, <2>3, <2>4, <2>6, <2>7, <2>11
<1>. QED
  BY <1>2, <1>3

LEMMA EndMoves ==
  ASSUME SoundHeld, EmergencyStop \/ CleanUp
  PROVE  SoundHeld'
<1> USE DEF SoundHeld
<1>1. mailbox' = mailbox /\ (port' = port \/ port' = ShutAdapter)
  BY DEF EmergencyStop, CleanUp
<1>2. \/ aw' = aw
      \/ aw' \in [pc : {"terminate", "dead"}] /\ mailbox.terminal
  BY DEF EmergencyStop, CleanUp, EndingHeld
<1>3. PortOK(port') /\ (port.dead => port'.dead)
  <2>1. PortOK(ShutAdapter) /\ ShutAdapter.dead
    BY DEF PortOK, ShutAdapter
  <2>. QED
    BY <1>1, <2>1
<1>4. AttentionTyped' /\ HandHeld'
  <2>1. CASE aw' = aw
    BY <2>1 DEF AttentionTyped, HandHeld
  <2>2. CASE aw' \in [pc : {"terminate", "dead"}]
    BY <2>2 DEF AttentionTyped, HandHeld, AudioSteps
  <2>. QED
    BY <1>2, <2>1, <2>2
<1>5. Later(mailbox, mailbox')
  BY <1>1 DEF Later, Boxes
<1>6. aw'.pc \in Waiting \/ (aw.pc \in WithEvent /\ aw'.event = aw.event)
  BY <1>2, HandTyped DEF Waiting
<1>7. EventsHeld' /\ InHand'
  BY <1>1, <1>5, <1>6, EventsMove
<1>8. EndingHeld' /\ port'.dead
  BY <1>3 DEF EmergencyStop, CleanUp, EndingHeld, ShutAdapter
<1>9. FocusHeld' /\ LoopHeld'
  BY <1>1, <1>3, <1>8 DEF FocusHeld, LoopHeld, PortOK
<1>. QED
  BY <1>1, <1>3, <1>4, <1>7, <1>8, <1>9

LEMMA SoundKept ==
  ASSUME SoundHeld, BookInvariant, [AlarmNext]_alarmVars
  PROVE  SoundHeld'
<1>1. CASE AttentionWorker
  BY <1>1, TakeMoves, HandleMoves, TicketMoves, ReserveMoves, StartMoves, PlayMoves, RevokeMoves,
     EndMoves DEF AttentionWorker
<1>2. CASE TimerWorker
  <2>1. CASE DispatchTimer
    BY <2>1, DispatchMoves
  <2>2. CASE ClaimNextDue \/ CommitTimerClaim \/ CompleteTimerClaim \/ ConfirmUnplaced
    BY <2>2, SoundFrame DEF ClaimNextDue, CommitTimerClaim, CompleteTimerClaim, ConfirmUnplaced
  <2>. QED
    BY <1>2, <2>1, <2>2 DEF TimerWorker
<1>3. CASE ApplyEffect \/ PublishOrdinary \/ EmergencyStop
  BY <1>3, EffectMoves, OrdinaryMoves, EndMoves
<1>4. CASE \E focused \in BOOLEAN : ObserveMainFocus(focused)
  BY <1>4, FocusMoves
<1>5. ASSUME NEW p \in Plugins, WindowOps(p) \/ ManagementOps(p)
      PROVE  SoundHeld'
  <2>1. UNCHANGED sound
    BY <1>5 DEF WindowOps, ManagementOps, WindowTimerStart, WindowTimerStop, WindowTimerReset,
       RevokePermission, GrantPermission, Disable, Activate
  <2>. QED
    BY <2>1, SoundFrame
<1>6. CASE UNCHANGED alarmVars
  <2>1. UNCHANGED sound
    BY <1>6 DEF alarmVars, sound
  <2>. QED
    BY <2>1, SoundFrame
<1>. QED
  BY <1>1, <1>2, <1>3, <1>4, <1>5, <1>6 DEF AlarmNext

-----------------------------------------------------------------------------
(* The tickets of the alarms *)

\* A record belongs to the activation that runs.
RecordsActive == \A k \in Keys : timers[k] # None => active[k[1]] = k[2]

\* A ticket whose sound is to be cancelled never comes to hold a slot again.
Spent(t) ==
    \/ timers[t.key] = None /\ active[t.key[1]] # t.key[2] /\ t.key[2] <= activation
    \/ /\ timers[t.key] # None /\ t.audio <= timers[t.key].audios
       /\ timers[t.key].audio = None \/ timers[t.key].audio.ticket # t
EffectsSpent == \A t \in effects : t.key \in restarted \/ Spent(t)

\* A start that lost its reservation lost its slot first.
ReservedHeld ==
    aw.pc \in {"start", "started", "refused"} =>
        \/ ReservedByWorker
        \/ aw.event.ticket.key \in restarted
        \/ ~Holds(timers[aw.event.ticket.key], "admitted", aw.event.ticket)

Accounted(t) ==
    /\ Holds(timers[t.key], "issued", t) => Underway(t) \/ EndingAttention
    /\ Holds(timers[t.key], "admitted", t) => Starting(t) \/ EndingAttention
Accounts == \A t \in Tickets : t.key \notin restarted => Accounted(t)

AudioHeld == RecordsActive /\ EffectsSpent /\ ReservedHeld /\ Accounts

LEMMA SlotTicket ==
  ASSUME TimersHold, NEW k \in Keys, timers[k] # None, timers[k].audio # None
  PROVE  /\ timers[k].audio \in [state : AudioStates, ticket : Tickets]
         /\ timers[k].audio.ticket.key = k /\ timers[k].audio.ticket.audio <= timers[k].audios
  BY RecordOf DEF Timers, Records, Tickets, SlotOK

LEMMA TicketTyped ==
  ASSUME NEW t \in Tickets
  PROVE  /\ t.key \in Keys /\ t.audio \in Nat /\ t.key[2] \in Nat /\ t # None
         /\ t.key[1] \in Plugins
  BY AlarmAssumption DEF Tickets, AudioTickets, Keys

\* A slot keeps its ticket, and its record the number of tickets.
TicketKept(k) ==
    /\ timers'[k] # None <=> timers[k] # None
    /\ timers[k] # None =>
          /\ timers'[k].audios = timers[k].audios
          /\ timers'[k].audio = None <=> timers[k].audio = None
          /\ timers[k].audio # None => timers'[k].audio.ticket = timers[k].audio.ticket

LEMMA TicketsKept ==
  ASSUME AudioHeld, effects \subseteq Tickets, UNCHANGED <<active, restarted, activation>>,
         effects' \subseteq effects, \A k \in Keys : TicketKept(k)
  PROVE  RecordsActive' /\ EffectsSpent'
<1>1. RecordsActive'
  BY DEF AudioHeld, RecordsActive, TicketKept
<1>2. ASSUME NEW t \in effects', t.key \notin restarted'
      PROVE  Spent(t)'
  <2>1. Spent(t) /\ t.key \in Keys
    BY <1>2, TicketTyped DEF AudioHeld, EffectsSpent
  <2>2. TicketKept(t.key)
    BY <2>1
  <2>. QED
    BY <2>1, <2>2 DEF Spent, TicketKept
<1>. QED
  BY <1>1, <1>2 DEF EffectsSpent

\* A confirmed slot awaits nothing.
LEMMA ConfirmedAccounted ==
  ASSUME NEW t \in Tickets, TimersHold', mailbox' \in Boxes,
         \A k \in Keys : timers'[k] # None /\ timers'[k].audio # None
                            => timers'[k].audio.state = "confirmed"
  PROVE  /\ ~Holds(timers'[t.key], "issued", t)
         /\ ~Holds(timers'[t.key], "admitted", t)
<1>1. t.key \in Keys /\ [state |-> "issued", ticket |-> t] # None
      /\ [state |-> "admitted", ticket |-> t] # None
  <2>1. /\ [state |-> "issued", ticket |-> t] \in [state : AudioStates, ticket : Tickets]
        /\ [state |-> "admitted", ticket |-> t] \in [state : AudioStates, ticket : Tickets]
    BY DEF AudioStates
  <2>. QED
    BY <2>1, TicketTyped, AlarmAssumption
<1>. QED
  BY <1>1 DEF Holds

LEMMA AllConfirmed ==
  ASSUME AudioHeld, TimersHold, effects \subseteq Tickets, AttentionTyped', HandHeld',
         timers' = ConfirmAll, mailbox' \in Boxes, TimersHold',
         UNCHANGED <<manager, effects>>
  PROVE  AudioHeld'
<1>1. /\ \A k \in Keys : SlotMoves(k)
      /\ \A k \in Keys : timers'[k] # None /\ timers'[k].audio # None
                            => timers'[k].audio.state = "confirmed"
  BY ConfirmStep DEF TimersHold
<1>2. \A k \in Keys : TicketKept(k)
  <2> SUFFICES ASSUME NEW k \in Keys PROVE TicketKept(k)
    OBVIOUS
  <2>1. CASE timers'[k] = timers[k]
    BY <2>1 DEF TicketKept
  <2>2. CASE timers'[k] # timers[k]
    BY <1>1, <2>2, TimerNotNone DEF TicketKept, SlotMoves
  <2>. QED
    BY <2>1, <2>2
<1>3. RecordsActive' /\ EffectsSpent'
  BY <1>2, TicketsKept DEF manager
<1>4. \A t \in Tickets : /\ ~Holds(timers'[t.key], "issued", t)
                         /\ ~Holds(timers'[t.key], "admitted", t)
  BY <1>1, ConfirmedAccounted
<1>5. Accounts'
  BY <1>4 DEF Accounts, Accounted
<1>6. ReservedHeld'
  BY <1>4 DEF ReservedHeld, HandHeld, AudioSteps
<1>. QED
  BY <1>3, <1>5, <1>6 DEF AudioHeld

\* A step that leaves the records and loses no ticket on its way.
LEMMA RecordsLeft ==
  ASSUME AudioHeld, effects \subseteq Tickets, UNCHANGED <<timers, manager>>,
         effects' \subseteq effects, ReservedHeld',
         EndingAttention => EndingAttention',
         \A t \in Tickets : t.key \notin restarted =>
             /\ Holds(timers[t.key], "issued", t) /\ Underway(t)
                  => Underway(t)' \/ EndingAttention'
             /\ Holds(timers[t.key], "admitted", t) /\ Starting(t)
                  => Starting(t)' \/ EndingAttention'
  PROVE  AudioHeld'
<1>1. RecordsActive' /\ EffectsSpent'
  BY TicketsKept DEF manager, TicketKept
<1>2. Accounts'
  <2> SUFFICES ASSUME NEW t \in Tickets, t.key \notin restarted PROVE Accounted(t)'
    BY DEF Accounts, manager
  <2>1. Accounted(t)
    BY DEF AudioHeld, Accounts
  <2>. QED
    BY <2>1 DEF Accounted
<1>. QED
  BY <1>1, <1>2 DEF AudioHeld

LEMMA SoundSame ==
  ASSUME UNCHANGED sound, UNCHANGED tw
  PROVE  /\ EndingAttention <=> EndingAttention'
         /\ \A t : (Underway(t) <=> Underway(t)') /\ (Starting(t) <=> Starting(t)')
         /\ ReservedByWorker <=> ReservedByWorker'
  BY DEF sound, EndingAttention, Underway, Starting, ReservedByWorker, Events, OwnerIs

\* An operation of the window or of management on one record.
LEMMA RecordStep ==
  ASSUME AudioHeld, TimersHold, BookInvariant, NEW k \in Keys, NEW r \in Timers \cup {None},
         timers' = [timers EXCEPT ![k] = r], UNCHANGED sound, UNCHANGED tw,
         restarted \subseteq restarted', active[k[1]] = k[2], HandHeld,
         \A j \in Keys :
             /\ timers[j] # None /\ j # k => active'[j[1]] = j[2]
             /\ active[j[1]] # j[2] /\ j[2] <= activation
                  => active'[j[1]] # j[2] /\ j[2] <= activation',
         effects' \subseteq effects \cup TakenAudio(timers[k]),
         \/ /\ r = None
            /\ k \in restarted' \/ (active'[k[1]] # k[2] /\ k[2] <= activation')
         \/ /\ r # None /\ active'[k[1]] = k[2]
            /\ timers[k] # None => r.audios = timers[k].audios
            /\ \/ r.audio = None
               \/ timers[k] # None /\ r.audio = timers[k].audio /\ effects' = effects
  PROVE  AudioHeld'
<1> USE DEF AudioHeld
<1>1. /\ timers'[k] = r /\ \A j \in Keys \ {k} : timers'[j] = timers[j]
  BY DEF TimersHold, TimersTyped
<1>2. RecordsActive'
  BY <1>1 DEF RecordsActive
<1>3. ASSUME NEW t \in effects', t.key \notin restarted'
      PROVE  Spent(t)'
  <2>1. t \in Tickets /\ t.key \in Keys
    BY <1>3, TakenTyped, TicketTyped DEF BookInvariant
  <2>2. CASE t \in effects
    <3>1. Spent(t)
      BY <1>3, <2>2 DEF EffectsSpent
    <3>2. CASE t.key # k
      BY <1>1, <2>1, <3>1, <3>2 DEF Spent, RecordsActive
    <3>3. CASE t.key = k
      <4>1. timers[k] # None /\ t.audio <= timers[k].audios
            /\ (timers[k].audio = None \/ timers[k].audio.ticket # t)
        BY <3>1, <3>3 DEF Spent
      <4>. QED
        BY <1>1, <1>3, <3>3, <4>1 DEF Spent
    <3>. QED
      BY <3>2, <3>3
  <2>3. CASE t \in TakenAudio(timers[k]) /\ t \notin effects
    <3>1. timers[k] # None /\ timers[k].audio # None /\ t.key = k /\ t = timers[k].audio.ticket
      BY <2>3, TakenTyped
    <3>2. t.audio <= timers[k].audios
      BY <3>1, SlotTicket
    <3>. QED
      BY <1>1, <1>3, <2>3, <3>1, <3>2 DEF Spent
  <2>. QED
    BY <1>3, <2>2, <2>3
<1>4. \A t \in Tickets, s \in {"issued", "admitted"} :
          Holds(timers'[t.key], s, t) => Holds(timers[t.key], s, t)
  <2> SUFFICES ASSUME NEW t \in Tickets, NEW s \in {"issued", "admitted"},
                      Holds(timers'[t.key], s, t)
               PROVE  Holds(timers[t.key], s, t)
    OBVIOUS
  <2>1. t.key \in Keys
    BY TicketTyped
  <2>2. CASE t.key # k
    BY <1>1, <2>1, <2>2
  <2>3. CASE t.key = k
    <3>1. [state |-> s, ticket |-> t] \in [state : AudioStates, ticket : Tickets]
      BY DEF AudioStates
    <3>2. r # None /\ r.audio = [state |-> s, ticket |-> t] /\ r.audio # None
      BY <1>1, <2>3, <3>1, AlarmAssumption DEF Holds
    <3>. QED
      BY <2>3, <3>2 DEF Holds
  <2>. QED
    BY <2>2, <2>3
<1>5. Accounts'
  <2> SUFFICES ASSUME NEW t \in Tickets, t.key \notin restarted' PROVE Accounted(t)'
    BY DEF Accounts
  <2>1. Accounted(t)
    BY DEF Accounts
  <2>2. Holds(timers'[t.key], "issued", t) => Holds(timers[t.key], "issued", t)
    BY <1>4
  <2>3. Holds(timers'[t.key], "admitted", t) => Holds(timers[t.key], "admitted", t)
    BY <1>4
  <2>. QED
    BY <2>1, <2>2, <2>3, SoundSame DEF Accounted
<1>6. ReservedHeld'
  <2>1. aw' = aw
    BY DEF sound
  <2>2. aw.pc \in {"start", "started", "refused"} => aw.event.ticket \in Tickets
    BY DEF HandHeld, AudioSteps
  <2>3. aw.pc \in {"start", "started", "refused"} =>
            (Holds(timers'[aw.event.ticket.key], "admitted", aw.event.ticket)
               => Holds(timers[aw.event.ticket.key], "admitted", aw.event.ticket))
    BY <1>4, <2>2
  <2>. QED
    BY <2>1, <2>3, SoundSame DEF ReservedHeld
<1>. QED
  BY <1>2, <1>3, <1>5, <1>6 DEF EffectsSpent

\* Management that finds no bundle, or leaves the timers alone.
LEMMA RecordsFrame ==
  ASSUME AudioHeld, BookInvariant, UNCHANGED <<timers, effects, restarted, tw>>, UNCHANGED sound,
         \A j \in Keys :
             /\ timers[j] # None => active'[j[1]] = j[2]
             /\ active[j[1]] # j[2] /\ j[2] <= activation
                  => active'[j[1]] # j[2] /\ j[2] <= activation'
  PROVE  AudioHeld'
<1> USE DEF AudioHeld
<1>1. RecordsActive'
  BY DEF RecordsActive
<1>2. EffectsSpent'
  <2> SUFFICES ASSUME NEW t \in effects, t.key \notin restarted PROVE Spent(t)'
    BY DEF EffectsSpent
  <2>1. Spent(t) /\ t.key \in Keys
    BY TicketTyped DEF EffectsSpent, BookInvariant
  <2>. QED
    BY <2>1 DEF Spent
<1>3. Accounts'
  <2> SUFFICES ASSUME NEW t \in Tickets, t.key \notin restarted PROVE Accounted(t)'
    BY DEF Accounts
  <2>1. Accounted(t)
    BY DEF Accounts
  <2>. QED
    BY <2>1, SoundSame DEF Accounted
<1>4. ReservedHeld'
  <2>1. aw' = aw
    BY DEF sound
  <2>. QED
    BY <2>1, SoundSame DEF ReservedHeld
<1>. QED
  BY <1>1, <1>2, <1>3, <1>4

LEMMA WindowHeld ==
  ASSUME AudioHeld, TimersHold, BookInvariant, HandHeld, NEW p \in Plugins,
         WindowOps(p) \/ ManagementOps(p)
  PROVE  AudioHeld'
<1> DEFINE k == Key(p)
<1>1. UNCHANGED sound /\ UNCHANGED tw
  BY DEF WindowOps, ManagementOps, WindowTimerStart, WindowTimerStop, WindowTimerReset,
     RevokePermission, GrantPermission, Disable, Activate
<1>2. /\ k[1] = p /\ k[2] = active[p]
      /\ active[p] # 0 => k \in Keys /\ timers[k] \in Timers \cup {None}
      /\ active \in [Plugins -> 0..MaxActivation] /\ activation \in 0..MaxActivation
      /\ \A q \in Plugins : active[q] <= activation /\ active[q] \in Nat
      /\ activation \in Nat /\ active[k[1]] = k[2]
  BY KeyTyped, RecordOf, AlarmAssumption DEF Key, BookInvariant, BookTyped
<1>3. \A j \in Keys : j[1] \in Plugins /\ j[2] \in Nat /\ j[2] # 0 /\ j = <<j[1], j[2]>>
  BY DEF Keys
<1>4. \A j \in Keys : timers[j] # None /\ j # k => j[1] # p
  BY <1>2, <1>3 DEF AudioHeld, RecordsActive, Key
<1>5. \A j \in Keys : /\ timers[j] # None /\ j # k => active[j[1]] = j[2]
                      /\ active[j[1]] # j[2] /\ j[2] <= activation
                           => active[j[1]] # j[2] /\ j[2] <= activation
  BY DEF AudioHeld, RecordsActive
<1> HIDE DEF k
<1>6. CASE WindowTimerStart(p) \/ WindowTimerStop(p) \/ WindowTimerReset(p)
  <2>1. /\ active[p] # 0 /\ UNCHANGED <<active, restarted, activation>>
        /\ k \in Keys /\ timers[k] \in Timers \cup {None} /\ runs \in Nat
    BY <1>2, <1>6 DEF WindowTimerStart, WindowTimerStop, WindowTimerReset, manager, Authorized,
       BookInvariant, BookTyped
  <2>2. \E r \in Timers :
           /\ timers' = [timers EXCEPT ![k] = r]
           /\ timers[k] # None => r.audios = timers[k].audios
           /\ effects' \subseteq effects \cup TakenAudio(timers[k])
           /\ \/ r.audio = None
              \/ timers[k] # None /\ r.audio = timers[k].audio /\ effects' = effects
    <3>1. CASE WindowTimerStart(p)
      <4>1. CASE /\ SetTimer(Key(p), StartRound(timers[Key(p)], runs + 1))
                 /\ effects' = effects \cup TakenAudio(timers[Key(p)])
        <5>1. StartRound(timers[k], runs + 1) \in Timers
              /\ StartRound(timers[k], runs + 1).audio = None
              /\ (timers[k] # None => StartRound(timers[k], runs + 1).audios = timers[k].audios)
          BY <2>1, StartDone
        <5>2. timers' = [timers EXCEPT ![k] = StartRound(timers[k], runs + 1)]
          BY <4>1 DEF SetTimer, k
        <5>. QED
          BY <4>1, <5>1, <5>2 DEF k
      <4>2. CASE /\ Rec(timers[Key(p)]).phase = "paused" /\ effects' = effects
                 /\ SetTimer(Key(p), Resume(timers[Key(p)]))
        <5>1. timers[k] \in Timers /\ timers[k] # None
          BY <2>1, <4>2, NewTyped, TimerNotNone DEF Rec, k
        <5>2. /\ Resume(timers[k]) \in Timers /\ Resume(timers[k]).audio = timers[k].audio
              /\ Resume(timers[k]).audios = timers[k].audios
          BY <5>1, ResumeDone
        <5>3. timers' = [timers EXCEPT ![k] = Resume(timers[k])]
          BY <4>2 DEF SetTimer, k
        <5>. QED
          BY <4>2, <5>1, <5>2, <5>3
      <4>. QED
        BY <3>1, <4>1, <4>2 DEF WindowTimerStart
    <3>2. CASE WindowTimerStop(p)
      <4>1. timers[k] \in Timers /\ timers[k] # None
        BY <2>1, <3>2, NewTyped, TimerNotNone DEF Rec, k, WindowTimerStop
      <4>2. /\ Pause(timers[k]) \in Timers /\ Pause(timers[k]).audio = timers[k].audio
            /\ Pause(timers[k]).audios = timers[k].audios
        BY <4>1, PauseDone
      <4>3. timers' = [timers EXCEPT ![k] = Pause(timers[k])] /\ effects' = effects
        BY <3>2 DEF SetTimer, k, WindowTimerStop
      <4>. QED
        BY <4>1, <4>2, <4>3
    <3>3. CASE WindowTimerReset(p)
      <4>1. timers[k] \in Timers /\ timers[k] # None
        BY <2>1, <3>3, NewTyped, TimerNotNone DEF Rec, k, WindowTimerReset
      <4>2. /\ Reset(timers[k]) \in Timers /\ Reset(timers[k]).audio = None
            /\ Reset(timers[k]).audios = timers[k].audios
        BY <4>1, ResetDone
      <4>3. timers' = [timers EXCEPT ![k] = Reset(timers[k])]
            /\ effects' = effects \cup TakenAudio(timers[k])
        BY <3>3 DEF SetTimer, k, WindowTimerReset
      <4>. QED
        BY <4>1, <4>2, <4>3
    <3>. QED
      BY <1>6, <3>1, <3>2, <3>3
  <2>. QED
    BY <1>1, <1>2, <1>5, <2>1, <2>2, TimerNotNone, RecordStep
<1>7. CASE RevokePermission(p)
  <2>1. CASE active[p] = 0
    BY <1>1, <1>5, <1>7, <2>1, RecordsFrame DEF RevokePermission, AudioHeld, RecordsActive
  <2>2. CASE active[p] # 0
    <3>1. /\ timers' = [timers EXCEPT ![k] = None] /\ restarted' = restarted \cup {k}
          /\ effects' = effects \cup TakenAudio(timers[k]) /\ UNCHANGED <<active, activation>>
      BY <1>7, <2>2 DEF RevokePermission, CancelGeneration, SetTimer, k
    <3>. QED
      BY <1>1, <1>2, <1>5, <2>2, <3>1, RecordStep
  <2>. QED
    BY <2>1, <2>2
<1>8. CASE GrantPermission(p)
  BY <1>1, <1>5, <1>8, RecordsFrame DEF GrantPermission, service, AudioHeld, RecordsActive
<1>9. CASE Disable(p)
  <2>1. /\ timers' = [timers EXCEPT ![k] = None] /\ UNCHANGED <<restarted, activation>>
        /\ effects' = effects \cup TakenAudio(timers[k])
        /\ active' = [active EXCEPT ![p] = 0] /\ active[p] # 0
    BY <1>9 DEF Disable, CancelGeneration, SetTimer, k
  <2>2. active'[p] = 0 /\ \A q \in Plugins \ {p} : active'[q] = active[q]
    BY <1>2, <2>1
  <2>3. \A j \in Keys :
             /\ timers[j] # None /\ j # k => active'[j[1]] = j[2]
             /\ active[j[1]] # j[2] /\ j[2] <= activation
                  => active'[j[1]] # j[2] /\ j[2] <= activation'
    BY <1>3, <1>4, <1>5, <2>1, <2>2
  <2>4. active'[k[1]] # k[2] /\ k[2] <= activation'
    BY <1>2, <2>1, <2>2
  <2>. QED
    BY <1>1, <1>2, <2>1, <2>3, <2>4, RecordStep
<1>10. CASE Activate(p)
  <2>1. /\ restarted' = restarted /\ activation' = activation + 1
        /\ active' = [active EXCEPT ![p] = activation + 1]
    BY <1>10 DEF Activate
  <2>2. active'[p] = activation + 1 /\ \A q \in Plugins \ {p} : active'[q] = active[q]
    BY <1>2, <2>1
  <2>3. \A j \in Keys :
             /\ timers[j] # None /\ j # k => active'[j[1]] = j[2]
             /\ active[j[1]] # j[2] /\ j[2] <= activation
                  => active'[j[1]] # j[2] /\ j[2] <= activation'
    BY <1>2, <1>3, <1>4, <1>5, <2>1, <2>2
  <2>4. CASE active[p] = 0
    <3>1. UNCHANGED <<timers, effects>>
      BY <1>10, <2>4 DEF Activate
    <3>2. \A j \in Keys : timers[j] # None => j # k
      BY <1>2, <1>3, <2>4
    <3>. QED
      BY <1>1, <2>1, <2>3, <3>1, <3>2, RecordsFrame
  <2>5. CASE active[p] # 0
    <3>1. /\ timers' = [timers EXCEPT ![k] = None]
          /\ effects' = effects \cup TakenAudio(timers[k])
      BY <1>10, <2>5 DEF Activate, CancelGeneration, SetTimer, k
    <3>2. active'[k[1]] # k[2] /\ k[2] <= activation'
      BY <1>2, <2>1, <2>2
    <3>. QED
      BY <1>1, <1>2, <2>1, <2>3, <2>5, <3>1, <3>2, RecordStep
  <2>. QED
    BY <2>4, <2>5
<1>. QED
  BY <1>6, <1>7, <1>8, <1>9, <1>10 DEF WindowOps, ManagementOps

\* The timer worker: a claim and its admission leave the slots alone.
LEMMA ClaimHeld ==
  ASSUME AudioHeld, TimersHold, BookInvariant, HandHeld, ClaimNextDue \/ CommitTimerClaim
  PROVE  AudioHeld'
<1> USE DEF AudioHeld
<1>1. /\ UNCHANGED sound /\ UNCHANGED manager /\ effects' = effects
      /\ tw.pc \notin {"publish", "confirm"} /\ tw'.pc \notin {"publish", "confirm"}
  BY DEF ClaimNextDue, CommitTimerClaim, Idle
<1>2. \/ timers' = timers
      \/ \E k \in Keys, r \in Timers :
            /\ timers' = [timers EXCEPT ![k] = r] /\ timers[k] # None
            /\ r.audio = timers[k].audio /\ r.audios = timers[k].audios
  <2>1. CASE ClaimNextDue
    <3>1. PICK i \in queue : timers' = timers
                             \/ timers' = [timers EXCEPT ![i.key] = Claim(i.key, timers[i.key])]
      BY <2>1 DEF ClaimNextDue
    <3>2. i.key \in Keys /\ timers[i.key] # None /\ timers[i.key] \in Timers
      BY RecordOf DEF TimersHold, Queued, Running
    <3>. QED
      BY <3>1, <3>2, ClaimDone
  <2>2. CASE CommitTimerClaim
    <3> DEFINE k == tw.ticket.key
    <3>1. k \in Keys
      BY <2>2 DEF CommitTimerClaim, BookInvariant, WorkerTyped, Idle, ClaimTickets
    <3>2. \/ timers' = timers
          \/ /\ timers' = [timers EXCEPT ![k] = AdmitClaim(timers[k])]
             /\ timers[k] # None
      BY <2>2 DEF CommitTimerClaim, ClaimMatches
    <3> HIDE DEF k
    <3>3. timers[k] # None => timers[k] \in Timers
      BY <3>1, RecordOf
    <3>. QED
      BY <3>1, <3>2, <3>3, AdmitDone
  <2>. QED
    BY <2>1, <2>2
<1>3. \A k \in Keys : TicketKept(k) /\ (timers[k] # None => timers'[k].audio = timers[k].audio)
  <2>1. CASE timers' = timers
    BY <2>1 DEF TicketKept
  <2>2. ASSUME NEW k \in Keys, NEW r \in Timers, timers' = [timers EXCEPT ![k] = r],
               timers[k] # None, r.audio = timers[k].audio, r.audios = timers[k].audios
        PROVE  \A j \in Keys : /\ TicketKept(j)
                               /\ timers[j] # None => timers'[j].audio = timers[j].audio
    <3>1. timers'[k] = r /\ r # None /\ \A j \in Keys \ {k} : timers'[j] = timers[j]
      BY <2>2, TimerNotNone DEF TimersHold, TimersTyped
    <3>. QED
      BY <2>2, <3>1 DEF TicketKept
  <2>. QED
    BY <1>2, <2>1, <2>2
<1>4. RecordsActive' /\ EffectsSpent'
  BY <1>1, <1>3, TicketsKept DEF manager, BookInvariant
<1>5. \A t \in Tickets : \A s :
          Holds(timers'[t.key], s, t) => Holds(timers[t.key], s, t)
  BY <1>3, TicketTyped DEF Holds, TicketKept
<1>6. UNCHANGED <<mailbox, aw, port, emergency>> /\ UNCHANGED restarted
  BY <1>1 DEF sound, manager
<1>7. Accounts'
  <2> SUFFICES ASSUME NEW t \in Tickets, t.key \notin restarted PROVE Accounted(t)'
    BY <1>6 DEF Accounts
  <2>1. Accounted(t)
    BY DEF Accounts
  <2>2. Underway(t) => Underway(t)'
    BY <1>1, <1>6 DEF Underway, Events
  <2>3. (Starting(t) => Starting(t)') /\ (EndingAttention => EndingAttention')
    BY <1>6 DEF Starting, EndingAttention
  <2>4. Holds(timers'[t.key], "issued", t) => Holds(timers[t.key], "issued", t)
    BY <1>5
  <2>5. Holds(timers'[t.key], "admitted", t) => Holds(timers[t.key], "admitted", t)
    BY <1>5
  <2>. QED
    BY <2>1, <2>2, <2>3, <2>4, <2>5 DEF Accounted
<1>8. ReservedHeld'
  <2>1. aw.pc \in {"start", "started", "refused"} => aw.event.ticket \in Tickets
    BY DEF HandHeld, AudioSteps
  <2>2. aw.pc \in {"start", "started", "refused"} =>
            (Holds(timers'[aw.event.ticket.key], "admitted", aw.event.ticket)
               => Holds(timers[aw.event.ticket.key], "admitted", aw.event.ticket))
    BY <1>5, <2>1
  <2>. QED
    BY <1>6, <2>2 DEF ReservedHeld, ReservedByWorker, OwnerIs
<1>. QED
  BY <1>4, <1>7, <1>8

\* A completed claim issues a ticket that the worker has to publish.
LEMMA CompleteHeld ==
  ASSUME AudioHeld, TimersHold, BookInvariant, HandHeld, CompleteTimerClaim
  PROVE  AudioHeld'
<1> USE DEF AudioHeld
<1> DEFINE t == tw.ticket
           k == t.key
           r == timers[k]
           done == CompleteClaim(r, t, tw.persisted)
<1>1. /\ UNCHANGED sound /\ UNCHANGED manager /\ effects' = effects /\ tw.pc = "complete"
      /\ UNCHANGED <<mailbox, aw, port, emergency>> /\ UNCHANGED <<active, restarted, activation>>
  BY DEF CompleteTimerClaim, sound, manager
<1>2. t \in ClaimTickets(Keys) /\ k \in Keys /\ tw.persisted \in BOOLEAN
      /\ r \in Timers \cup {None}
  BY <1>1, RecordOf DEF BookInvariant, WorkerTyped, Idle, ClaimTickets
<1>3. \A u \in Tickets : /\ ~(tw.pc = "publish" /\ tw.ticket = u)
                         /\ ~(tw.pc = "confirm" /\ u \in tw.tickets)
  BY <1>1
<1>4. \A u \in Tickets : (Underway(u) => Underway(u)') /\ (Starting(u) => Starting(u)')
  BY <1>1, <1>3 DEF Underway, Starting, Events
<1>5. EndingAttention => EndingAttention'
  BY <1>1 DEF EndingAttention
<1>6. CASE ~CanComplete(r, t, tw.persisted)
  <2>1. timers' = timers
    BY <1>6 DEF CompleteTimerClaim
  <2>2. ReservedHeld'
    BY <1>1, <2>1 DEF ReservedHeld, ReservedByWorker, OwnerIs
  <2>. QED
    BY <1>1, <1>4, <1>5, <2>1, <2>2, RecordsLeft DEF BookInvariant
<1>7. CASE CanComplete(r, t, tw.persisted)
  <2>1. r \in Timers /\ r # None
    BY <1>2, <1>7 DEF CanComplete, ClaimMatches
  <2>2. timers' = [timers EXCEPT ![k] = done]
    BY <1>7 DEF CompleteTimerClaim
  <2>3. /\ done \in Timers
        /\ done.audio = IF tw.persisted
                          THEN [state |-> "issued", ticket |-> IssuedTicket(r, t)] ELSE r.audio
        /\ done.audios = IF tw.persisted THEN r.audios + 1 ELSE r.audios
        /\ IssuedTicket(r, t).key = k /\ IssuedTicket(r, t).audio = r.audios + 1
    BY <1>2, <2>1, CompleteDone
  <2>4. done # None /\ r.audios \in Nat
    BY <2>1, <2>3, TimerNotNone DEF Timers, Records
  <2>5. tw.persisted => tw' = [pc |-> "publish", ticket |-> IssuedTicket(r, t)]
    BY <1>7 DEF CompleteTimerClaim
  <2> DEFINE new == IssuedTicket(r, t)
  <2>6. r = timers[k]
    OBVIOUS
  <2> HIDE DEF done, new, r, k, t
  <2>7. timers'[k] = done /\ \A j \in Keys \ {k} : timers'[j] = timers[j]
    BY <1>2, <2>2 DEF TimersHold, TimersTyped
  <2>8. /\ done.audio = IF tw.persisted THEN [state |-> "issued", ticket |-> new] ELSE r.audio
        /\ new.key = k /\ new.audio = r.audios + 1
        /\ tw.persisted => tw'.pc = "publish" /\ tw'.ticket = new
    BY <2>3, <2>5 DEF new
  <2>9. RecordsActive'
    BY <1>1, <2>1, <2>6, <2>7 DEF RecordsActive
  <2>10. EffectsSpent'
    <3> SUFFICES ASSUME NEW u \in effects, u.key \notin restarted PROVE Spent(u)'
      BY <1>1 DEF EffectsSpent
    <3>1. Spent(u) /\ u \in Tickets /\ u.key \in Keys /\ u.audio \in Nat
      BY TicketTyped DEF EffectsSpent, BookInvariant
    <3>2. CASE u.key # k
      BY <1>1, <2>7, <3>1, <3>2 DEF Spent
    <3>3. CASE u.key = k
      <4>1. u.audio <= r.audios /\ (r.audio = None \/ r.audio.ticket # u)
        BY <2>1, <2>6, <3>1, <3>3 DEF Spent
      <4>2. CASE tw.persisted
        <5>1. done.audio.ticket = new /\ new # u /\ done.audios = r.audios + 1
          BY <2>3, <2>4, <2>8, <3>1, <4>1, <4>2
        <5>. QED
          BY <2>4, <2>7, <3>1, <3>3, <4>1, <5>1 DEF Spent
      <4>3. CASE ~tw.persisted
        BY <2>3, <2>4, <2>7, <2>8, <3>3, <4>1, <4>3 DEF Spent
      <4>. QED
        BY <1>2, <4>2, <4>3
    <3>. QED
      BY <3>2, <3>3
  <2>11. \A u \in Tickets :
            /\ Holds(timers'[u.key], "issued", u)
                 => Holds(timers[u.key], "issued", u) \/ (tw.persisted /\ u = new)
            /\ Holds(timers'[u.key], "admitted", u) => Holds(timers[u.key], "admitted", u)
    <3> SUFFICES ASSUME NEW u \in Tickets
                 PROVE  /\ Holds(timers'[u.key], "issued", u)
                             => Holds(timers[u.key], "issued", u) \/ (tw.persisted /\ u = new)
                        /\ Holds(timers'[u.key], "admitted", u)
                             => Holds(timers[u.key], "admitted", u)
      OBVIOUS
    <3>1. CASE u.key # k
      BY <2>7, <3>1, TicketTyped
    <3>2. CASE u.key = k /\ tw.persisted
      BY <2>7, <2>8, <3>2 DEF Holds
    <3>3. CASE u.key = k /\ ~tw.persisted
      BY <2>1, <2>6, <2>7, <2>8, <3>3 DEF Holds
    <3>. QED
      BY <1>2, <3>1, <3>2, <3>3
  <2>12. Accounts'
    <3> SUFFICES ASSUME NEW u \in Tickets, u.key \notin restarted PROVE Accounted(u)'
      BY <1>1 DEF Accounts
    <3>1. Accounted(u)
      BY DEF Accounts
    <3>2. tw.persisted /\ u = new => Underway(u)'
      BY <2>8 DEF Underway
    <3>. QED
      BY <1>4, <1>5, <2>11, <3>1, <3>2 DEF Accounted
  <2>13. ReservedHeld'
    <3>1. aw.pc \in {"start", "started", "refused"} => aw.event.ticket \in Tickets
      BY DEF HandHeld, AudioSteps
    <3>. QED
      BY <1>1, <2>11, <3>1 DEF ReservedHeld, ReservedByWorker, OwnerIs
  <2>. QED
    BY <2>9, <2>10, <2>12, <2>13
<1>. QED
  BY <1>6, <1>7

\* What the mailbox refuses or replaces is confirmed next.
LEMMA DispatchHeld ==
  ASSUME AudioHeld, TimersHold, BookInvariant, SoundHeld, DispatchTimer
  PROVE  AudioHeld'
<1> USE DEF AudioHeld
<1> DEFINE t == tw.ticket
           key == IF t = None THEN <<"message", Len(saved)>> ELSE t.key
<1>1. t \in Tickets \cup {None} /\ Len(saved) \in Nat
  BY DEF DispatchTimer, BookInvariant, WorkerTyped, BookTyped, Idle
<1>2. key \in Places /\ (t # None => key = t.key)
  BY <1>1, TicketKey DEF Places
<1>3. /\ UNCHANGED <<aw, port, emergency>> /\ UNCHANGED <<timers, manager>> /\ effects' = effects
      /\ tw.pc = "publish"
      /\ \/ /\ AdmitsTimer(mailbox, key) /\ mailbox' = PublishTimer(mailbox, key, t)
            /\ tw' = IF ReplacedTickets(mailbox, key) = {} THEN Idle
                     ELSE [pc |-> "confirm", tickets |-> ReplacedTickets(mailbox, key)]
         \/ /\ mailbox' = mailbox
            /\ tw' = IF {t} \ {None} = {} THEN Idle
                     ELSE [pc |-> "confirm", tickets |-> {t} \ {None}]
  BY DEF DispatchTimer, service
<1>4. mailbox \in Boxes
  BY DEF SoundHeld
<1> HIDE DEF key, t
<1>5. CASE /\ mailbox' = PublishTimer(mailbox, key, t)
           /\ tw' = IF ReplacedTickets(mailbox, key) = {} THEN Idle
                    ELSE [pc |-> "confirm", tickets |-> ReplacedTickets(mailbox, key)]
  <2> DEFINE event == Published(key, t, mailbox.focused, mailbox.epoch)
  <2>1. /\ event \in In(mailbox')
        /\ \A e \in In(mailbox) : e \in In(mailbox') \/ (e.kind = "published" /\ e.key = key)
        /\ mailbox'.owner = mailbox.owner /\ mailbox'.terminal = mailbox.terminal
    BY <1>1, <1>2, <1>4, <1>5, PublishDone
  <2>2. event.kind = "published" /\ event.ticket = t
    BY DEF Published
  <2> HIDE DEF event
  <2>3. \A e \in In(mailbox) :
           e.kind = "published" /\ e.key = key /\ e.ticket # None
             => e.ticket \in ReplacedTickets(mailbox, key)
    BY DEF ReplacedTickets, PublishedAt, EventsOf, In
  <2>4. ReplacedTickets(mailbox, key) # {} =>
           tw'.pc = "confirm" /\ tw'.tickets = ReplacedTickets(mailbox, key)
    BY <1>5
  <2>5. ASSUME NEW u \in Tickets, Underway(u) PROVE Underway(u)'
    <3>1. u # None
      BY TicketTyped
    <3>2. CASE t = u
      BY <2>1, <2>2, <3>2, EventsIn DEF Underway
    <3>3. CASE \E e \in In(mailbox) : e.kind = "published" /\ e.ticket = u
      <4>1. PICK e \in In(mailbox) : e.kind = "published" /\ e.ticket = u
        BY <3>3
      <4>2. CASE e \in In(mailbox')
        BY <4>1, <4>2, EventsIn DEF Underway
      <4>3. CASE e.key = key
        <5>1. u \in ReplacedTickets(mailbox, key)
          BY <2>3, <3>1, <4>1, <4>3
        <5>. QED
          BY <2>4, <5>1 DEF Underway
      <4>. QED
        BY <2>1, <4>1, <4>2, <4>3
    <3>4. CASE aw.pc \in {"check", "settle", "admit"} /\ aw.event.ticket = u
      BY <1>3, <3>4 DEF Underway
    <3>. QED
      BY <1>3, <2>5, <3>2, <3>3, <3>4, EventsIn DEF Underway, t
  <2>6. \A u \in Tickets : Starting(u) => Starting(u)'
    BY <1>3, <2>1 DEF Starting
  <2>7. (EndingAttention => EndingAttention') /\ ReservedHeld'
    BY <1>3, <2>1 DEF EndingAttention, ReservedHeld, ReservedByWorker, OwnerIs, manager
  <2>. QED
    BY <1>3, <2>5, <2>6, <2>7, RecordsLeft DEF BookInvariant
<1>6. CASE /\ mailbox' = mailbox
           /\ tw' = IF {t} \ {None} = {} THEN Idle
                    ELSE [pc |-> "confirm", tickets |-> {t} \ {None}]
  <2>1. \A u \in Tickets : Underway(u) => Underway(u)'
    <3> SUFFICES ASSUME NEW u \in Tickets, Underway(u) PROVE Underway(u)'
      OBVIOUS
    <3>1. CASE t = u
      <4>1. tw'.pc = "confirm" /\ u \in tw'.tickets
        BY <1>6, <3>1, TicketTyped
      <4>. QED
        BY <4>1 DEF Underway
    <3>2. CASE t # u
      BY <1>3, <1>6, <3>2 DEF Underway, Events, t
    <3>. QED
      BY <3>1, <3>2
  <2>2. \A u \in Tickets : Starting(u) => Starting(u)'
    BY <1>3, <1>6 DEF Starting
  <2>3. (EndingAttention => EndingAttention') /\ ReservedHeld'
    BY <1>3, <1>6 DEF EndingAttention, ReservedHeld, ReservedByWorker, OwnerIs, manager
  <2>. QED
    BY <1>3, <2>1, <2>2, <2>3, RecordsLeft DEF BookInvariant
<1>. QED
  BY <1>3, <1>5, <1>6

\* A ticket that moves takes no other along.
LEMMA MoveHeld ==
  ASSUME TimersHold, NEW t \in Tickets, NEW from \in AudioStates, NEW to \in AudioStates,
         from # to,
         timers' = [timers EXCEPT ![t.key] = MoveAudio(@, t, from, to)]
  PROVE  /\ \A k \in Keys : TicketKept(k)
         /\ \A u \in Tickets : \A s \in AudioStates :
               /\ Holds(timers'[u.key], s, u) =>
                     \/ Holds(timers[u.key], s, u) /\ ~(u = t /\ s = from)
                     \/ u = t /\ s = to /\ Holds(timers[t.key], from, t)
<1> DEFINE k == t.key
           r == timers[k]
           moved == MoveAudio(r, t, from, to)
<1>1. k \in Keys /\ r \in Timers \cup {None}
  BY TicketTyped, RecordOf
<1>2. /\ ~Holds(r, from, t) => moved = r
      /\ Holds(r, from, t) =>
            /\ r # None /\ r.audio = [state |-> from, ticket |-> t]
            /\ moved \in Timers /\ moved.audio = [state |-> to, ticket |-> t]
            /\ moved.audios = r.audios
  BY <1>1, AudioDone
<1>3. timers' = [timers EXCEPT ![k] = moved]
  OBVIOUS
<1>4. \A s \in AudioStates, u \in Tickets : [state |-> s, ticket |-> u] # None
  <2> SUFFICES ASSUME NEW s \in AudioStates, NEW u \in Tickets
               PROVE  [state |-> s, ticket |-> u] # None
    OBVIOUS
  <2>1. [state |-> s, ticket |-> u] \in [state : AudioStates, ticket : Tickets]
    OBVIOUS
  <2>. QED
    BY <2>1, AlarmAssumption
<1>5. r = timers[k] /\ k = t.key
  OBVIOUS
<1> HIDE DEF moved, r, k
<1>6. timers'[k] = moved /\ \A j \in Keys \ {k} : timers'[j] = timers[j]
  BY <1>1, <1>3 DEF TimersHold, TimersTyped
<1>7. CASE ~Holds(r, from, t)
  <2>1. \A j \in Keys : timers'[j] = timers[j]
    BY <1>2, <1>5, <1>6, <1>7
  <2>. QED
    BY <1>5, <1>7, <2>1, TicketTyped DEF TicketKept
<1>8. CASE Holds(r, from, t)
  <2>1. moved # None /\ moved.audio # None /\ r.audio # None
    BY <1>2, <1>4, <1>8, TimerNotNone
  <2>2. \A j \in Keys : TicketKept(j)
    BY <1>2, <1>5, <1>6, <1>8, <2>1 DEF TicketKept
  <2>3. ASSUME NEW u \in Tickets, NEW s \in AudioStates, Holds(timers'[u.key], s, u)
        PROVE  \/ Holds(timers[u.key], s, u) /\ ~(u = t /\ s = from)
               \/ u = t /\ s = to /\ Holds(timers[t.key], from, t)
    <3>1. CASE u.key # k
      BY <1>5, <1>6, <2>3, <3>1, TicketTyped
    <3>2. CASE u.key = k
      <4>1. [state |-> s, ticket |-> u] = [state |-> to, ticket |-> t]
        BY <1>2, <1>6, <1>8, <2>3, <3>2 DEF Holds
      <4>2. s = to /\ u = t
        BY <4>1
      <4>. QED
        BY <1>5, <1>8, <4>2
    <3>. QED
      BY <3>1, <3>2
  <2>. QED
    BY <2>2, <2>3
<1>. QED
  BY <1>7, <1>8

\* The steps that settle a ticket: it is on its way, or it is given up.
LEMMA SettleHeld ==
  ASSUME AudioHeld, TimersHold, BookInvariant, SoundHeld,
         ConfirmUnplaced \/ SettleTicket \/ AdmitAudioStart \/ FailTicket
  PROVE  AudioHeld'
<1> USE DEF AudioHeld
<1>1. /\ UNCHANGED <<mailbox, port, emergency>> /\ UNCHANGED manager /\ effects' = effects
      /\ UNCHANGED restarted /\ HandHeld /\ AttentionTyped
  BY DEF ConfirmUnplaced, SettleTicket, AdmitAudioStart, FailTicket, sound, SoundHeld, manager
<1>2. {"issued", "admitted", "confirmed"} = AudioStates
  BY DEF AudioStates
<1>3. CASE ConfirmUnplaced
  <2>1. aw' = aw /\ tw.pc = "confirm"
    BY <1>3 DEF ConfirmUnplaced, sound
  <2>2. PICK t \in tw.tickets :
            /\ timers' = [timers EXCEPT ![t.key] = MoveAudio(@, t, "issued", "confirmed")]
            /\ tw' = IF tw.tickets = {t} THEN Idle ELSE [tw EXCEPT !.tickets = @ \ {t}]
    BY <1>3 DEF ConfirmUnplaced
  <2>3. tw \in [pc : {"confirm"}, tickets : SUBSET Tickets] /\ t \in Tickets
    BY <2>1, <2>2 DEF BookInvariant, WorkerTyped, Idle
  <2>4. /\ \A k \in Keys : TicketKept(k)
        /\ \A u \in Tickets : \A s \in AudioStates :
               /\ Holds(timers'[u.key], s, u) =>
                     \/ Holds(timers[u.key], s, u) /\ ~(u = t /\ s = "issued")
                     \/ u = t /\ s = "confirmed" /\ Holds(timers[t.key], "issued", t)
    BY <1>2, <2>2, <2>3, MoveHeld
  <2>5. RecordsActive' /\ EffectsSpent'
    BY <1>1, <2>4, TicketsKept DEF manager, BookInvariant
  <2>6. \A u \in Tickets \ {t} : u \in tw.tickets => tw'.pc = "confirm" /\ u \in tw'.tickets
    BY <2>2, <2>3
  <2>7. Accounts'
    <3> SUFFICES ASSUME NEW u \in Tickets, u.key \notin restarted PROVE Accounted(u)'
      BY <1>1 DEF Accounts
    <3>1. Accounted(u)
      BY DEF Accounts
    <3>2. u # t => (Underway(u) => Underway(u)')
      BY <1>1, <2>1, <2>6 DEF Underway, Events
    <3>3. (Starting(u) => Starting(u)') /\ (EndingAttention => EndingAttention')
      BY <1>1, <2>1 DEF Starting, EndingAttention
    <3>4. /\ Holds(timers'[u.key], "issued", u) => Holds(timers[u.key], "issued", u) /\ u # t
          /\ Holds(timers'[u.key], "admitted", u) => Holds(timers[u.key], "admitted", u)
      BY <1>2, <2>4
    <3>. QED
      BY <3>1, <3>2, <3>3, <3>4 DEF Accounted
  <2>8. ReservedHeld'
    <3>1. aw.pc \in {"start", "started", "refused"} => aw.event.ticket \in Tickets
      BY <1>1 DEF HandHeld, AudioSteps
    <3>2. \A u \in Tickets : Holds(timers'[u.key], "admitted", u)
                                => Holds(timers[u.key], "admitted", u)
      BY <1>2, <2>4
    <3>. QED
      BY <1>1, <2>1, <3>1, <3>2 DEF ReservedHeld, ReservedByWorker, OwnerIs
  <2>. QED
    BY <2>5, <2>7, <2>8
<1>4. CASE SettleTicket \/ AdmitAudioStart \/ FailTicket
  <2> DEFINE t == aw.event.ticket
             from == IF aw.pc = "failed" THEN "admitted" ELSE "issued"
             to == IF aw.pc = "admit" THEN "admitted" ELSE "confirmed"
  <2>1. /\ aw.pc \in {"settle", "admit", "failed"} /\ tw' = tw
        /\ aw.pc \in {"settle", "failed"} => aw' = Idle
        /\ aw.pc = "admit" => aw' = IF Holds(timers[aw.event.key], "issued", t)
                                    THEN At("reserve") ELSE Idle
    BY <1>4 DEF SettleTicket, AdmitAudioStart, FailTicket
  <2>2. t \in Tickets /\ aw.event.key = t.key
    BY <1>1, <2>1 DEF HandHeld, AudioSteps
  <2>3. timers' = [timers EXCEPT ![t.key] = MoveAudio(@, t, from, to)]
    BY <1>4, <2>2 DEF SettleTicket, AdmitAudioStart, FailTicket
  <2>4. from \in AudioStates /\ to \in AudioStates /\ from # to
    BY <1>2, <2>1
  <2>5. /\ aw.pc = "admit" => from = "issued" /\ to = "admitted"
        /\ aw.pc = "settle" => from = "issued" /\ to = "confirmed"
        /\ aw.pc = "failed" => from = "admitted" /\ to = "confirmed"
    OBVIOUS
  <2>6. t = aw.event.ticket
    OBVIOUS
  <2> HIDE DEF t, from, to
  <2>7. /\ \A k \in Keys : TicketKept(k)
        /\ \A u \in Tickets : \A s \in AudioStates :
               /\ Holds(timers'[u.key], s, u) =>
                     \/ Holds(timers[u.key], s, u) /\ ~(u = t /\ s = from)
                     \/ u = t /\ s = to /\ Holds(timers[t.key], from, t)
    BY <2>2, <2>3, <2>4, MoveHeld
  <2>8. RecordsActive' /\ EffectsSpent'
    BY <1>1, <2>7, TicketsKept DEF manager, BookInvariant
  <2>9. /\ aw'.pc \in {"idle", "reserve"}
        /\ aw'.pc = "reserve" => aw.pc = "admit" /\ aw'.event = aw.event
        /\ aw.pc = "admit" /\ Holds(timers[t.key], "issued", t) => aw'.pc = "reserve"
    BY <1>1, <2>1, <2>2, AtDone DEF Idle, AudioSteps, t
  <2>10. Accounts'
    <3> SUFFICES ASSUME NEW u \in Tickets, u.key \notin restarted PROVE Accounted(u)'
      BY <1>1 DEF Accounts
    <3>1. Accounted(u)
      BY DEF Accounts
    <3>2. EndingAttention => EndingAttention'
      BY <1>1, <2>1, <2>9 DEF EndingAttention
    <3>3. u # t => (Underway(u) => Underway(u)') /\ (Starting(u) => Starting(u)')
      BY <1>1, <2>1, <2>6 DEF Underway, Starting, Events
    <3>4. CASE u # t
      <4>1. /\ Holds(timers'[u.key], "issued", u) => Holds(timers[u.key], "issued", u)
            /\ Holds(timers'[u.key], "admitted", u) => Holds(timers[u.key], "admitted", u)
        BY <1>2, <2>7, <3>4
      <4>. QED
        BY <3>1, <3>2, <3>3, <3>4, <4>1 DEF Accounted
    <3>5. CASE u = t
      <4>1. CASE aw.pc = "admit"
        <5>1. /\ ~Holds(timers'[u.key], "issued", u)
              /\ Holds(timers'[u.key], "admitted", u)
                   => \/ Holds(timers[u.key], "admitted", u)
                      \/ Holds(timers[u.key], "issued", u)
          BY <1>2, <2>5, <2>7, <3>5, <4>1
        <5>2. Holds(timers[u.key], "issued", u) => Starting(u)'
          <6>1. Holds(timers[u.key], "issued", u) => aw'.pc = "reserve" /\ aw'.event.ticket = u
            BY <2>6, <2>9, <3>5, <4>1
          <6>. QED
            BY <6>1 DEF Starting
        <5>3. Starting(u) => Starting(u)'
          BY <1>1, <4>1 DEF Starting
        <5>. QED
          BY <3>1, <3>2, <5>1, <5>2, <5>3 DEF Accounted
      <4>2. CASE aw.pc = "settle"
        <5>1. /\ ~Holds(timers'[u.key], "issued", u)
              /\ Holds(timers'[u.key], "admitted", u) => Holds(timers[u.key], "admitted", u)
          BY <1>2, <2>5, <2>7, <3>5, <4>2
        <5>2. Starting(u) => Starting(u)'
          BY <1>1, <4>2 DEF Starting
        <5>. QED
          BY <3>1, <3>2, <5>1, <5>2 DEF Accounted
      <4>3. CASE aw.pc = "failed"
        <5>1. /\ ~Holds(timers'[u.key], "admitted", u)
              /\ Holds(timers'[u.key], "issued", u) => Holds(timers[u.key], "issued", u)
          BY <1>2, <2>5, <2>7, <3>5, <4>3
        <5>2. Underway(u) => Underway(u)'
          BY <1>1, <2>1, <4>3 DEF Underway, Events
        <5>. QED
          BY <3>1, <3>2, <5>1, <5>2 DEF Accounted
      <4>. QED
        BY <2>1, <4>1, <4>2, <4>3
    <3>. QED
      BY <3>4, <3>5
  <2>11. ReservedHeld'
    BY <2>9 DEF ReservedHeld
  <2>. QED
    BY <2>8, <2>10, <2>11
<1>. QED
  BY <1>3, <1>4

\* The cancellation of a ticket takes the sound only from that ticket, which is spent.
LEMMA EffectHeld ==
  ASSUME AudioHeld, TimersHold, BookInvariant, SoundHeld, ApplyEffect
  PROVE  AudioHeld'
<1> USE DEF AudioHeld
<1>1. PICK t \in effects :
          /\ IF mailbox.terminal THEN UNCHANGED <<mailbox, emergency>>
             ELSE IF CancelOverflows(mailbox, t) THEN EnterTerminal
             ELSE /\ mailbox' = IF AdmitsCancel(mailbox, t) THEN CancelTimer(mailbox, t)
                                ELSE mailbox
                  /\ UNCHANGED emergency
          /\ effects' = effects \ {t}
          /\ UNCHANGED <<aw, port, tw>> /\ UNCHANGED <<timers, manager>>
  BY DEF ApplyEffect, service
<1>2. t \in Tickets /\ mailbox \in Boxes /\ HandHeld
  BY <1>1 DEF BookInvariant, SoundHeld
<1>3. \A k \in Keys : TicketKept(k)
  BY <1>1 DEF TicketKept
<1>4. t.key \notin restarted => ~Holds(timers[t.key], "admitted", t)
  <2>1. t.key \notin restarted => Spent(t)
    BY <1>1 DEF EffectsSpent
  <2>2. [state |-> "admitted", ticket |-> t] # None
    <3>1. [state |-> "admitted", ticket |-> t] \in [state : AudioStates, ticket : Tickets]
      BY <1>2 DEF AudioStates
    <3>. QED
      BY <3>1, AlarmAssumption
  <2>. QED
    BY <2>1, <2>2 DEF Spent, Holds
<1>5. /\ In(mailbox) \subseteq In(mailbox')
      /\ mailbox'.owner = mailbox.owner \/ (mailbox.owner # None /\ mailbox.owner.ticket = t)
      /\ EndingAttention => EndingAttention'
  <2>1. CASE UNCHANGED <<mailbox, emergency>>
    BY <1>1, <2>1 DEF EndingAttention
  <2>2. CASE ~mailbox.terminal /\ EnterTerminal
    <3>1. mailbox' = Terminate(mailbox)
      BY <2>2 DEF EnterTerminal
    <3>. QED
      BY <1>2, <2>2, <3>1, TerminateDone DEF EndingAttention
  <2>3. CASE ~mailbox.terminal /\ mailbox' = CancelTimer(mailbox, t)
    <3>1. \/ /\ mailbox.owner # None /\ mailbox.owner.ticket = t
             /\ In(mailbox') = In(mailbox) \cup {Cancelled(t, StopKey(mailbox))}
          \/ /\ mailbox'.owner = mailbox.owner
             /\ In(mailbox') = In(mailbox) \cup {Cancelled(t, 0)}
      BY <1>2, <2>3, CancelDone
    <3>. QED
      BY <2>3, <3>1 DEF EndingAttention
  <2>. QED
    BY <1>1, <2>1, <2>2, <2>3
<1>6. ReservedHeld'
  <2> SUFFICES ASSUME aw.pc \in {"start", "started", "refused"} PROVE ReservedHeld'
    BY <1>1 DEF ReservedHeld
  <2>1. CASE mailbox'.owner = mailbox.owner
    BY <1>1, <2>1 DEF ReservedHeld, ReservedByWorker, OwnerIs, manager
  <2>2. CASE mailbox.owner # None /\ mailbox.owner.ticket = t
    <3>1. CASE ReservedByWorker
      <4>1. aw.event.ticket = t
        BY <2>2, <3>1 DEF ReservedByWorker, OwnerIs
      <4>. QED
        BY <1>1, <1>4, <4>1 DEF ReservedHeld, manager
    <3>2. CASE ~ReservedByWorker
      BY <1>1, <3>2 DEF ReservedHeld, manager
    <3>. QED
      BY <3>1, <3>2
  <2>. QED
    BY <1>5, <2>1, <2>2
<1>7. \A u \in Tickets : Underway(u) => Underway(u)'
  BY <1>1, <1>5, EventsIn DEF Underway
<1>8. ASSUME NEW u \in Tickets, u.key \notin restarted, Holds(timers[u.key], "admitted", u),
             Starting(u)
      PROVE  Starting(u)'
  <2>1. u # t
    BY <1>4, <1>8
  <2>. QED
    BY <1>1, <1>5, <1>8, <2>1 DEF Starting
<1>. QED
  BY <1>1, <1>5, <1>6, <1>7, <1>8, RecordsLeft DEF BookInvariant

LEMMA OrdinaryHeld ==
  ASSUME AudioHeld, TimersHold, BookInvariant, SoundHeld, PublishOrdinary
  PROVE  AudioHeld'
<1>1. /\ UNCHANGED <<aw, port, emergency, tw>> /\ UNCHANGED <<timers, manager>>
      /\ effects' = effects /\ mailbox' = Post(mailbox, Ordinary(mailbox.focused))
      /\ mailbox \in Boxes /\ mailbox.focused \in BOOLEAN
  BY DEF PublishOrdinary, service, SoundHeld, Boxes
<1>2. Ordinary(mailbox.focused) \in EventRecords
  BY <1>1, FocusTyped
<1>3. /\ In(mailbox) \subseteq In(mailbox') /\ mailbox'.owner = mailbox.owner
      /\ mailbox'.terminal = mailbox.terminal
  BY <1>1, <1>2, PostDone
<1>4. /\ \A u \in Tickets : (Underway(u) => Underway(u)') /\ (Starting(u) => Starting(u)')
      /\ EndingAttention => EndingAttention'
  BY <1>1, <1>3, EventsIn DEF Underway, Starting, EndingAttention
<1>5. ReservedHeld'
  BY <1>1, <1>3 DEF AudioHeld, ReservedHeld, ReservedByWorker, OwnerIs, manager
<1>. QED
  BY <1>1, <1>4, <1>5, RecordsLeft DEF BookInvariant

LEMMA FocusAudioHeld ==
  ASSUME AudioHeld, TimersHold, TimersHold', BookInvariant, SoundHeld, SoundHeld',
         NEW focused \in BOOLEAN, ObserveMainFocus(focused)
  PROVE  AudioHeld'
<1>1. /\ UNCHANGED <<aw, port, tw>> /\ UNCHANGED manager /\ effects' = effects
      /\ mailbox \in Boxes
      /\ timers' = IF focused THEN ConfirmAll ELSE timers
      /\ IF FocusOverflows(mailbox) THEN EnterTerminal
         ELSE /\ mailbox' = IF mailbox.terminal THEN mailbox ELSE AdmitFocus(mailbox, focused)
              /\ UNCHANGED emergency
  BY DEF ObserveMainFocus, SoundHeld
<1>2. CASE focused
  <2>1. timers' = ConfirmAll /\ mailbox' \in Boxes /\ AttentionTyped' /\ HandHeld'
    BY <1>1, <1>2 DEF SoundHeld
  <2>. QED
    BY <1>1, <2>1, AllConfirmed DEF BookInvariant
<1>3. CASE ~focused
  <2>1. /\ In(mailbox) \subseteq In(mailbox') /\ mailbox'.owner = mailbox.owner
        /\ EndingAttention => EndingAttention'
    <3>1. CASE UNCHANGED <<mailbox, emergency>>
      BY <1>1, <3>1 DEF EndingAttention
    <3>2. CASE ~mailbox.terminal /\ EnterTerminal
      <4>1. mailbox' = Terminate(mailbox)
        BY <3>2 DEF EnterTerminal
      <4>. QED
        BY <1>1, <3>2, <4>1, TerminateDone DEF EndingAttention
    <3>3. CASE ~mailbox.terminal /\ mailbox' = AdmitFocus(mailbox, focused)
      <4>1. /\ mailbox'.owner = mailbox.owner
            /\ In(mailbox') = In(mailbox) \cup {Focus(FALSE, 0)}
        BY <1>1, <1>3, <3>3, FocusDone
      <4>. QED
        BY <3>3, <4>1 DEF EndingAttention
    <3>. QED
      BY <1>1, <3>1, <3>2, <3>3 DEF FocusOverflows
  <2>2. timers' = timers
    BY <1>1, <1>3
  <2>3. \A u \in Tickets : (Underway(u) => Underway(u)') /\ (Starting(u) => Starting(u)')
    BY <1>1, <2>1, EventsIn DEF Underway, Starting
  <2>4. ReservedHeld'
    BY <1>1, <2>1, <2>2 DEF AudioHeld, ReservedHeld, ReservedByWorker, OwnerIs, manager
  <2>. QED
    BY <1>1, <2>1, <2>2, <2>3, <2>4, RecordsLeft DEF BookInvariant
<1>. QED
  BY <1>2, <1>3

LEMMA EndHeld ==
  ASSUME AudioHeld, TimersHold, TimersHold', BookInvariant, SoundHeld, SoundHeld',
         EmergencyStop \/ CleanUp
  PROVE  AudioHeld'
<1>1. /\ UNCHANGED tw /\ UNCHANGED manager /\ effects' = effects /\ mailbox' = mailbox
      /\ timers' = timers \/ timers' = ConfirmAll
      /\ mailbox' \in Boxes /\ AttentionTyped' /\ HandHeld'
  BY DEF EmergencyStop, CleanUp, SoundHeld
<1>2. CASE timers' = ConfirmAll
  BY <1>1, <1>2, AllConfirmed DEF BookInvariant
<1>3. CASE timers' = timers /\ timers' # ConfirmAll
  <2>1. \/ aw' = aw /\ emergency' = "timers"
        \/ aw.pc = "cleanup" /\ aw' = [pc |-> "terminate"] /\ emergency' = emergency
    BY <1>3 DEF EmergencyStop, CleanUp
  <2>2. EndingAttention => EndingAttention'
    BY <1>1, <2>1 DEF EndingAttention
  <2>3. \A u \in Tickets : (Underway(u) => Underway(u)') /\ (Starting(u) => Starting(u)')
    BY <1>1, <2>1 DEF Underway, Starting, Events
  <2>4. ReservedHeld'
    <3>1. CASE aw' = aw
      BY <1>1, <1>3, <3>1 DEF AudioHeld, ReservedHeld, ReservedByWorker, OwnerIs, manager
    <3>2. CASE aw' = [pc |-> "terminate"]
      BY <3>2 DEF ReservedHeld
    <3>. QED
      BY <2>1, <3>1, <3>2
  <2>. QED
    BY <1>1, <1>3, <2>2, <2>3, <2>4, RecordsLeft DEF BookInvariant
<1>. QED
  BY <1>1, <1>2, <1>3

\* The attention worker hands a ticket from the mailbox to the sound.
LEMMA TakeHeld ==
  ASSUME AudioHeld, TimersHold, BookInvariant, SoundHeld, TakeEvent
  PROVE  AudioHeld'
<1>1. /\ UNCHANGED <<port, emergency, tw>> /\ UNCHANGED <<timers, manager>> /\ effects' = effects
      /\ aw.pc = "idle" /\ mailbox \in Boxes
  BY DEF TakeEvent, service, SoundHeld
<1>2. CASE mailbox.terminal
  <2>1. aw'.pc = "cleanup" /\ mailbox' = mailbox
    BY <1>2 DEF TakeEvent
  <2>2. EndingAttention'
    BY <1>2, <2>1 DEF EndingAttention
  <2>3. ReservedHeld'
    BY <2>1 DEF ReservedHeld
  <2>. QED
    BY <1>1, <2>2, <2>3, RecordsLeft DEF BookInvariant
<1>3. CASE ~mailbox.terminal
  <2> DEFINE e == Head(mailbox.events)
  <2>1. /\ In(mailbox) = In(mailbox') \cup {e} /\ e \in EventRecords
        /\ mailbox'.owner = mailbox.owner
    BY <1>1, <1>3, TailDone DEF TakeEvent
  <2>2. \/ EntryOf(e) = "idle" /\ aw' = Idle
        \/ EntryOf(e) # "idle" /\ aw' = [pc |-> EntryOf(e), event |-> e]
    BY <1>3 DEF TakeEvent
  <2> HIDE DEF e
  <2>3. /\ EntryOf(e) \notin {"start", "started", "refused"}
        /\ e.kind = "published" /\ e.ticket # None => EntryOf(e) \in {"settle", "check"}
    BY <2>1, EventTyped DEF EntryOf
  <2>4. ReservedHeld'
    BY <2>2, <2>3 DEF ReservedHeld, Idle
  <2>5. ASSUME NEW u \in Tickets, Underway(u) PROVE Underway(u)'
    <3>1. CASE \E d \in In(mailbox) : d.kind = "published" /\ d.ticket = u
      <4>1. PICK d \in In(mailbox) : d.kind = "published" /\ d.ticket = u
        BY <3>1
      <4>2. CASE d \in In(mailbox')
        BY <4>1, <4>2, EventsIn DEF Underway
      <4>3. CASE d = e
        <5>1. EntryOf(e) \in {"settle", "check"}
          BY <2>3, <4>1, <4>3, TicketTyped
        <5>2. aw' = [pc |-> EntryOf(e), event |-> e]
          BY <2>2, <5>1
        <5>3. aw'.pc \in {"settle", "check"} /\ aw'.event.ticket = u
          BY <4>1, <4>3, <5>1, <5>2
        <5>. QED
          BY <5>3 DEF Underway
      <4>. QED
        BY <2>1, <4>1, <4>2, <4>3
    <3>2. CASE ~\E d \in In(mailbox) : d.kind = "published" /\ d.ticket = u
      BY <1>1, <2>5, <3>2, EventsIn DEF Underway
    <3>. QED
      BY <3>1, <3>2
  <2>6. \A u \in Tickets : Starting(u) => Starting(u)'
    BY <1>1, <2>1 DEF Starting
  <2>7. ~EndingAttention
    BY <1>3 DEF EndingAttention
  <2>. QED
    BY <1>1, <2>4, <2>5, <2>6, <2>7, RecordsLeft DEF BookInvariant
<1>. QED
  BY <1>2, <1>3

LEMMA HandleHeld ==
  ASSUME AudioHeld, TimersHold, BookInvariant, SoundHeld,
         HandleFocus \/ HandleCancelled \/ HandleOrdinary \/ StopLate \/ CheckEpoch
           \/ StartTimerLoop
  PROVE  AudioHeld'
<1>1. /\ UNCHANGED <<mailbox, emergency, tw>> /\ UNCHANGED <<timers, manager>>
      /\ effects' = effects
  BY DEF HandleFocus, HandleCancelled, HandleOrdinary, StopLate, CheckEpoch, StartTimerLoop,
     service
<1>2. \/ aw.pc \in {"focus", "cancelled", "ordinary", "late"} /\ aw'.pc = "idle"
      \/ aw.pc = "check" /\ aw'.pc \in {"admit", "settle"} /\ aw'.event = aw.event
      \/ aw.pc = "start" /\ aw'.pc \in {"started", "refused"} /\ aw'.event = aw.event
  BY AtDone DEF HandleFocus, HandleCancelled, HandleOrdinary, StopLate, CheckEpoch,
     StartTimerLoop, Idle, SoundHeld, AudioSteps
<1>3. /\ \A u \in Tickets : (Underway(u) => Underway(u)') /\ (Starting(u) => Starting(u)')
      /\ EndingAttention => EndingAttention'
  BY <1>1, <1>2 DEF Underway, Starting, EndingAttention, Events
<1>4. ReservedHeld'
  BY <1>1, <1>2 DEF AudioHeld, ReservedHeld, ReservedByWorker, OwnerIs, manager
<1>. QED
  BY <1>1, <1>3, <1>4, RecordsLeft DEF BookInvariant

LEMMA ReserveHeld ==
  ASSUME AudioHeld, TimersHold, BookInvariant, SoundHeld, ReserveOwner
  PROVE  AudioHeld'
<1>1. /\ UNCHANGED <<port, emergency, tw>> /\ UNCHANGED <<timers, manager>> /\ effects' = effects
      /\ aw.pc = "reserve" /\ mailbox \in Boxes /\ aw.event.ticket \in Tickets
  BY DEF ReserveOwner, service, SoundHeld, HandHeld, AudioSteps
<1>2. /\ aw'.event = aw.event
      /\ \/ /\ EpochOpen(mailbox, aw.event.epoch) /\ aw'.pc = "start"
            /\ mailbox' = Reserve(mailbox, aw.event.ticket)
         \/ mailbox' = mailbox /\ aw'.pc = "failed"
  BY AtDone DEF ReserveOwner, SoundHeld, AudioSteps
<1>3. CASE mailbox' = mailbox /\ aw'.pc = "failed"
  <2>1. /\ \A u \in Tickets : (Underway(u) => Underway(u)') /\ (Starting(u) => Starting(u)')
        /\ EndingAttention => EndingAttention'
    BY <1>1, <1>2, <1>3 DEF Underway, Starting, EndingAttention, Events
  <2>2. ReservedHeld'
    BY <1>3 DEF ReservedHeld
  <2>. QED
    BY <1>1, <2>1, <2>2, RecordsLeft DEF BookInvariant
<1>4. CASE /\ EpochOpen(mailbox, aw.event.epoch) /\ aw'.pc = "start"
           /\ mailbox' = Reserve(mailbox, aw.event.ticket)
  <2> DEFINE t == aw.event.ticket
  <2>1. /\ In(mailbox') = In(mailbox)
        /\ mailbox'.owner = [ticket |-> t, epoch |-> mailbox.epoch, phase |-> "reserved"]
    BY <1>1, <1>4, ReserveDone
  <2>2. mailbox.owner = None /\ mailbox.epoch = aw.event.epoch /\ ~EndingAttention
    BY <1>4 DEF EpochOpen, EndingAttention
  <2>3. /\ \A u \in Tickets : (Underway(u) => Underway(u)') /\ (Starting(u) => Starting(u)')
    BY <1>1, <1>2, <1>4, <2>1, <2>2, EventsIn DEF Underway, Starting
  <2>4. ReservedHeld'
    BY <1>2, <2>1, <2>2 DEF ReservedHeld, ReservedByWorker, OwnerIs
  <2>. QED
    BY <1>1, <2>2, <2>3, <2>4, RecordsLeft DEF BookInvariant
<1>. QED
  BY <1>2, <1>3, <1>4

LEMMA CommitHeld ==
  ASSUME AudioHeld, TimersHold, BookInvariant, SoundHeld, CommitPlaying \/ RevokeRefused
  PROVE  AudioHeld'
<1>1. /\ UNCHANGED <<port, emergency, tw>> /\ UNCHANGED <<timers, manager>> /\ effects' = effects
      /\ aw.pc \in {"started", "refused"} /\ mailbox \in Boxes /\ aw.event.ticket \in Tickets
  BY DEF CommitPlaying, RevokeRefused, service, SoundHeld, HandHeld, AudioSteps
<1>2. aw'.pc \in {"idle", "late", "failed"}
  BY AtDone DEF CommitPlaying, RevokeRefused, Idle, SoundHeld, AudioSteps
<1>3. ReservedHeld'
  BY <1>2 DEF ReservedHeld
<1>4. CASE ~ReservedByWorker
  <2>1. /\ mailbox' = mailbox
        /\ aw'.pc = "late" \/ (aw'.pc = "failed" /\ aw'.event = aw.event)
    BY <1>4, AtDone DEF CommitPlaying, RevokeRefused, SoundHeld, AudioSteps
  <2>2. /\ \A u \in Tickets : Underway(u) => Underway(u)'
        /\ EndingAttention => EndingAttention'
    BY <1>1, <2>1 DEF Underway, EndingAttention, Events
  <2>3. ASSUME NEW u \in Tickets, u.key \notin restarted, Holds(timers[u.key], "admitted", u),
               Starting(u)
        PROVE  Starting(u)'
    <3>1. CASE mailbox.owner # None /\ mailbox.owner.ticket = u
      BY <2>1, <3>1 DEF Starting
    <3>2. CASE aw.event.ticket = u
      BY <1>1, <1>4, <2>3, <3>2 DEF AudioHeld, ReservedHeld
    <3>. QED
      BY <2>3, <3>1, <3>2 DEF Starting
  <2>. QED
    BY <1>1, <1>3, <2>2, <2>3, RecordsLeft DEF BookInvariant
<1>5. CASE ReservedByWorker
  <2>1. /\ mailbox.owner = [ticket |-> aw.event.ticket, epoch |-> aw.event.epoch,
                            phase |-> "reserved"]
        /\ aw.event.epoch \in Nat
    BY <1>1, <1>5, HandTyped, EventTyped DEF ReservedByWorker, OwnerIs, SoundHeld, HandHeld,
       AudioSteps, WithEvent
  <2>2. mailbox.owner \in Owners /\ mailbox.owner # None
    BY <1>1, <2>1, AlarmAssumption DEF Owners
  <2>3. CASE CommitPlaying
    <3>1. mailbox' = Play(mailbox) /\ aw'.pc = "idle"
      BY <1>5, <2>3 DEF CommitPlaying, Idle
    <3>2. /\ In(mailbox') = In(mailbox) /\ mailbox'.owner # None
          /\ mailbox'.owner.ticket = mailbox.owner.ticket
          /\ mailbox'.terminal = mailbox.terminal
      BY <1>1, <2>2, <3>1, PlayDone
    <3>3. /\ \A u \in Tickets : (Underway(u) => Underway(u)') /\ (Starting(u) => Starting(u)')
          /\ EndingAttention => EndingAttention'
      BY <1>1, <2>1, <3>1, <3>2, EventsIn DEF Underway, Starting, EndingAttention
    <3>. QED
      BY <1>1, <1>3, <3>3, RecordsLeft DEF BookInvariant
  <2>4. CASE RevokeRefused
    <3>1. mailbox' = AdvanceEpoch(mailbox) /\ aw'.pc = "failed" /\ aw'.event = aw.event
      BY <1>5, <2>4, AtDone DEF RevokeRefused, SoundHeld, AudioSteps
    <3>2. In(mailbox') = In(mailbox) /\ mailbox'.terminal = mailbox.terminal
      BY <1>1, <3>1, AdvanceDone
    <3>3. /\ \A u \in Tickets : (Underway(u) => Underway(u)') /\ (Starting(u) => Starting(u)')
          /\ EndingAttention => EndingAttention'
      BY <1>1, <2>1, <3>1, <3>2, EventsIn DEF Underway, Starting, EndingAttention
    <3>. QED
      BY <1>1, <1>3, <3>3, RecordsLeft DEF BookInvariant
  <2>. QED
    BY <2>3, <2>4
<1>. QED
  BY <1>4, <1>5

LEMMA AudioKept ==
  ASSUME AudioHeld, TimersHold, TimersHold', BookInvariant, SoundHeld, SoundHeld',
         [AlarmNext]_alarmVars
  PROVE  AudioHeld'
<1>1. HandHeld
  BY DEF SoundHeld
<1>2. CASE AttentionWorker
  BY <1>2, TakeHeld, HandleHeld, SettleHeld, ReserveHeld, CommitHeld, EndHeld DEF AttentionWorker
<1>3. CASE TimerWorker
  BY <1>1, <1>3, ClaimHeld, CompleteHeld, DispatchHeld, SettleHeld DEF TimerWorker
<1>4. CASE ApplyEffect \/ PublishOrdinary \/ EmergencyStop
  BY <1>4, EffectHeld, OrdinaryHeld, EndHeld
<1>5. CASE \E focused \in BOOLEAN : ObserveMainFocus(focused)
  BY <1>5, FocusAudioHeld
<1>6. CASE \E p \in Plugins : WindowOps(p) \/ ManagementOps(p)
  BY <1>1, <1>6, WindowHeld
<1>7. CASE UNCHANGED alarmVars
  <2>1. /\ UNCHANGED <<timers, manager>> /\ effects' = effects /\ UNCHANGED tw /\ UNCHANGED sound
        /\ UNCHANGED <<mailbox, aw>>
    BY <1>7 DEF alarmVars, manager, sound
  <2>2. ReservedHeld'
    BY <2>1 DEF AudioHeld, ReservedHeld, ReservedByWorker, OwnerIs, manager
  <2>. QED
    BY <2>1, <2>2, SoundSame, RecordsLeft DEF BookInvariant
<1>. QED
  BY <1>2, <1>3, <1>4, <1>5, <1>6, <1>7 DEF AlarmNext

-----------------------------------------------------------------------------
(* The theorems *)

AlarmInvariant == BookInvariant /\ TimersHold /\ SoundHeld /\ AudioHeld

LEMMA AlarmStarts == AlarmInit => AlarmInvariant
<1> SUFFICES ASSUME AlarmInit PROVE AlarmInvariant
  OBVIOUS
<1> USE DEF AlarmInit
<1>1. BookInvariant
  <2>1. WorkerTyped /\ effects \subseteq Tickets
    BY DEF WorkerTyped
  <2>2. BookTyped
    <3>1. saved \in Seq(Nat)
      BY EmptySeq
    <3>2. /\ active \in [Plugins -> 0..MaxActivation] /\ activation \in 0..MaxActivation
          /\ \A p \in Plugins : active[p] <= activation
      BY AlarmAssumption
    <3>. QED
      BY <3>1, <3>2 DEF BookTyped
  <2>. QED
    BY <2>1, <2>2 DEF BookInvariant
<1>2. \A k \in Keys : timers[k] = None
  OBVIOUS
<1>3. TimersHold
  BY <1>2 DEF TimersHold, TimersTyped, Queued, Running, SlotsHeld, RunsCounted, DueUnsaved, Saved
<1>4. /\ NewMailbox \in Boxes /\ In(NewMailbox) = {} /\ NewMailbox.owner = None
      /\ ~NewMailbox.terminal /\ ~NewMailbox.focused
  <2> DEFINE none == << >>
  <2>1. none \in Seq(EventRecords) /\ DOMAIN none = {}
    BY EmptySeq
  <2>2. NewMailbox = [events |-> none, epoch |-> 1, claimed |-> FALSE, owner |-> None,
                      focused |-> FALSE, terminal |-> FALSE]
    BY DEF NewMailbox
  <2> HIDE DEF none
  <2>. QED
    BY <2>1, <2>2 DEF Boxes, In
<1>5. aw = Idle /\ aw.pc = "idle" /\ mailbox = NewMailbox
  BY DEF Idle
<1>6. SoundHeld
  <2>1. AttentionTyped /\ HandHeld /\ InHand
    BY <1>5 DEF AttentionTyped, HandHeld, InHand, WithEvent, AudioSteps, Idle
  <2>2. PortOK(port) /\ port.loop = 0
    BY DEF PortOK
  <2>3. EndingHeld
    BY <1>4, <1>5 DEF EndingHeld
  <2>4. EventsHeld /\ FocusHeld /\ LoopHeld
    BY <1>4, <1>5, <2>2 DEF EventsHeld, FocusHeld, LoopHeld
  <2>. QED
    BY <1>4, <1>5, <2>1, <2>2, <2>3, <2>4 DEF SoundHeld
<1>7. AudioHeld
  <2>1. \A t \in Tickets : t.key \in Keys
    BY TicketTyped
  <2>. QED
    BY <1>2, <1>5, <2>1 DEF AudioHeld, RecordsActive, EffectsSpent, ReservedHeld, Accounts,
       Accounted, Holds
<1>. QED
  BY <1>1, <1>3, <1>6, <1>7 DEF AlarmInvariant

LEMMA AlarmStep ==
  ASSUME AlarmInvariant, [AlarmNext]_alarmVars
  PROVE  AlarmInvariant'
<1> USE DEF AlarmInvariant
<1>1. BookTyped /\ WorkerTyped /\ AttentionTyped /\ HandHeld /\ mailbox \in Boxes
  BY DEF BookInvariant, SoundHeld
<1>2. TimersHold'
  BY <1>1, TimersKept
<1>3. BookInvariant'
  BY <1>1, BookKept
<1>4. SoundHeld'
  BY SoundKept
<1>5. AudioHeld'
  BY <1>2, <1>4, AudioKept
<1>. QED
  BY <1>2, <1>3, <1>4, <1>5

\* The state of the timers, of the mailbox and of the sound keeps its shape and the
\* invariant the other theorems rest on, whatever the plugins and the bounds.
THEOREM AlarmCorrect == AlarmSpec => []AlarmInvariant
  BY AlarmStarts, AlarmStep, PTL DEF AlarmSpec

LEMMA QueueExact == TimersHold => RunningTimersQueued
<1> SUFFICES ASSUME TimersHold PROVE RunningTimersQueued
  OBVIOUS
<1>1. Queued /\ TimersTyped
  BY DEF TimersHold
<1>2. \A k \in Keys : Rec(timers[k]).phase = "running" <=> Running(k)
  BY <1>1, NewTyped DEF Rec, Running
<1> DEFINE running == {j \in Keys : Rec(timers[j]).phase = "running"}
<1>3. running = {j \in Keys : Running(j)}
  BY <1>2
<1> HIDE DEF running
<1>4. queue = {QueueItem(k, timers[k]) : k \in running}
  BY <1>1, <1>3 DEF Queued
<1>. QED
  BY <1>4 DEF RunningTimersQueued, running

\* The queue holds exactly one current item for every running timer.
THEOREM TimersQueued == AlarmSpec => []RunningTimersQueued
<1>1. AlarmInvariant => RunningTimersQueued
  BY QueueExact DEF AlarmInvariant
<1>. QED
  BY <1>1, AlarmCorrect, PTL

\* A sound that plays has an owner or a stop on its way, and never under focus an owner.
THEOREM SoundOwned == AlarmSpec => []SoundAccounted
<1>1. AlarmInvariant => SoundAccounted
  BY DEF AlarmInvariant, SoundHeld, LoopHeld, FocusHeld, SoundAccounted
<1>. QED
  BY <1>1, AlarmCorrect, PTL

\* Every ticket that was issued is on its way, starts, sounds or was given up.
THEOREM TicketsAccounted == AlarmSpec => []AudioTicketsAccounted
<1>1. ASSUME AlarmInvariant PROVE AudioTicketsAccounted
  <2> SUFFICES ASSUME NEW k \in Keys \ restarted, timers[k] # None, timers[k].audio # None
               PROVE  /\ timers[k].audio.state = "issued"
                           => Underway(timers[k].audio.ticket) \/ EndingAttention
                      /\ timers[k].audio.state = "admitted"
                           => Starting(timers[k].audio.ticket) \/ EndingAttention
    BY DEF AudioTicketsAccounted
  <2> DEFINE a == timers[k].audio
             t == a.ticket
  <2>1. a \in [state : AudioStates, ticket : Tickets] /\ t \in Tickets /\ t.key = k
    BY <1>1, SlotTicket DEF AlarmInvariant
  <2>2. a = [state |-> a.state, ticket |-> t]
    BY <2>1
  <2>3. Accounted(t)
    BY <1>1, <2>1 DEF AlarmInvariant, AudioHeld, Accounts
  <2>4. Holds(timers[t.key], a.state, t)
    BY <2>1, <2>2 DEF Holds
  <2> HIDE DEF a, t
  <2>. QED
    BY <2>3, <2>4 DEF Accounted, a, t
<1>. QED
  BY <1>1, AlarmCorrect, PTL

\* A message is saved once per round, and only while its plugin may send it and its
\* timer claims the round.
THEOREM MessagesOnce == AlarmSpec => MessageSavedOnce
<1> DEFINE once ==
      saved' # saved =>
          LET run == Last(saved') IN
          /\ run \notin {saved[i] : i \in DOMAIN saved}
          /\ \E p \in Plugins :
                /\ active[p] # 0 /\ granted[p]
                /\ timers[Key(p)] # None
                /\ timers[Key(p)].phase = "claiming" /\ timers[Key(p)].run = run
<1>1. ASSUME AlarmInvariant, [AlarmNext]_alarmVars PROVE once
  <2> SUFFICES ASSUME saved' # saved PROVE once
    OBVIOUS
  <2>1. CommitTimerClaim
    BY <1>1 DEF AlarmNext, alarmVars, TimerWorker, AttentionWorker, WindowOps, ManagementOps,
       WindowTimerStart, WindowTimerStop, WindowTimerReset, RevokePermission, GrantPermission,
       Disable, Activate, ApplyEffect, EmergencyStop, PublishOrdinary, ObserveMainFocus,
       TakeEvent, HandleFocus, HandleCancelled, HandleOrdinary, SettleTicket, CheckEpoch,
       AdmitAudioStart, ReserveOwner, StartTimerLoop, CommitPlaying, StopLate, RevokeRefused,
       FailTicket, CleanUp, ClaimNextDue, CompleteTimerClaim, DispatchTimer, ConfirmUnplaced
  <2> DEFINE t == tw.ticket
             r == timers[t.key]
             n == r.run
             p == t.key[1]
  <2>2. /\ tw.pc = "commit" /\ Eligible(t.key) /\ ClaimMatches(r, t)
        /\ saved' = Append(saved, n)
    BY <2>1 DEF CommitTimerClaim
  <2>3. t \in ClaimTickets(Keys) /\ t.key \in Keys
    BY <1>1, <2>2 DEF AlarmInvariant, BookInvariant, WorkerTyped, Idle, ClaimTickets
  <2>4. /\ r \in Timers /\ r # None /\ r.phase = "claiming" /\ r.claim = t /\ n \in Nat
        /\ n \notin Saved
    BY <1>1, <2>2, <2>3, RecordOf DEF ClaimMatches, AlarmInvariant, TimersHold, DueUnsaved,
       Timers, Records
  <2>5. p \in Plugins /\ active[p] = t.key[2] /\ granted[p] /\ t.key[2] # 0
        /\ t.key = <<p, active[p]>>
    BY <2>2, <2>3 DEF Eligible, Keys
  <2>6. Key(p) = t.key
    BY <2>5 DEF Key
  <2>7. r = timers[Key(p)] /\ n = r.run
    BY <2>6
  <2> HIDE DEF r, n, p, t
  <2>8. Last(saved') = n
    <3>1. saved \in Seq(Nat)
      BY <1>1 DEF AlarmInvariant, BookInvariant, BookTyped
    <3>. QED
      BY <2>2, <2>4, <3>1, AppendProperties DEF Last
  <2>. QED
    BY <2>4, <2>5, <2>7, <2>8 DEF Saved
<1>2. [AlarmNext]_alarmVars /\ AlarmInvariant => [once]_alarmVars
  BY <1>1
<1>3. AlarmInvariant /\ [][AlarmNext]_alarmVars /\ []AlarmInvariant => [][once]_alarmVars
  BY <1>2, PTL
<1>. QED
  BY <1>3, AlarmCorrect, PTL DEF AlarmSpec, MessageSavedOnce
=============================================================================
