----------------------------- MODULE PanelProofs -----------------------------
(***************************************************************************)
(* For any number of sessions, submissions, keys, pumps and focus          *)
(* requests, all at once: the page of a session is shown and told complete *)
(* only its newest submission, gets its keys in order and each one once,   *)
(* and nothing that a thread has to finish is left without that thread.    *)
(*                                                                         *)
(* What carries the proof is that a submission is pending only while the   *)
(* current one has been delivered, so that whoever delivers is the newest; *)
(* that one pump at most serves the session that lives, and knows by its   *)
(* own step whether the page has the key in flight; that a committed hide  *)
(* is in the queue under a number of its own; and that an answer for a     *)
(* focus request is stored in the moment its ticket goes, while the thread *)
(* of the request still has to come for it.                                *)
(***************************************************************************)
EXTENDS PanelProperties, Integers, TLAPS

-----------------------------------------------------------------------------
(* The invariant *)

PanelPhases == {"AwaitingReady", "Ready", "AwaitingAck", "Acknowledged"}
KeyPhases == {"none", "Prepared", "ReadyToDeliver", "Delivered", "Accomplished", "Cancelled"}
PanelRecords ==
    [epoch : Nat \ {0}, phase : PanelPhases, opening : {"mounting", "focusing", "open"},
     current : PanelRequests \cup {NoRequest}, pending : PanelRequests \cup {NoRequest},
     notified : PanelRequests \cup {NoRequest},
     armed : BOOLEAN, expected : Nat, next : Nat \ {0}, queue : Seq(Nat),
     flight : Nat, key : KeyPhases, pumping : BOOLEAN,
     newest : PanelRequests \cup {NoRequest}, pressed : Nat, got : Seq(Nat)]
PanelOK ==
    /\ panel \in PanelRecords \cup {NoPanel} /\ panels \in Nat
    /\ HasPanel => panel.epoch <= panels

AskSteps == {"unsent", "free", "buffered", "working", "answered", "acking", "acked", "failed",
             "expired", "ended"}
AskOfSession(s) == s # NoRequest => s \in PanelRequests /\ ask[s].epoch = panel.epoch
\* The newest submission is pending, or current; while it is pending the current one
\* has been delivered.
SubmissionsOrdered ==
    HasPanel =>
        /\ AskOfSession(panel.current) /\ AskOfSession(panel.pending)
        /\ panel.pending # NoRequest =>
              panel.pending = panel.newest /\ ask[panel.pending].step = "buffered"
        /\ panel.pending = NoRequest => panel.current = panel.newest
        /\ panel.current # NoRequest =>
              /\ ask[panel.current].step # "unsent"
              /\ panel.phase # "Ready" \/ panel.pending # NoRequest =>
                    ask[panel.current].step \in {"acking", "acked", "failed", "expired", "ended"}
        /\ panel.current = NoRequest => panel.phase \in {"AwaitingReady", "Ready"}
        /\ panel.phase = "AwaitingReady" =>
              panel.opening = "mounting" /\ panel.pending = NoRequest /\ panel.current = NoRequest
AsksOK ==
    /\ ask \in [PanelRequests -> [step : AskSteps, epoch : Nat]]
    /\ SubmissionsOrdered

PumpRecords == [step : {"rest", "claim", "focus", "send", "sent", "waiting", "failed"},
                epoch : Nat, key : Nat]
Serves(p) ==
    /\ pump[p].step \in {"focus", "send", "sent", "waiting", "failed"}
    /\ InSession(pump[p].epoch)
\* Keys are taken from the queue in order: Taken is the last one.
Taken == panel.next - Len(panel.queue) - 1
KeysOrdered ==
    HasPanel =>
        /\ panel.armed =>
              /\ \A i \in DOMAIN panel.queue : panel.queue[i] = Taken + i
              /\ panel.flight = NoKey => Len(panel.got) = Taken
              /\ panel.flight # NoKey => panel.flight = Taken
        /\ ~panel.armed => panel.queue = <<>>
        /\ panel.flight # NoKey =>
              /\ Len(panel.got) \in {panel.flight - 1, panel.flight}
              /\ panel.key \in {"Delivered", "Accomplished"} => Len(panel.got) = panel.flight
              /\ panel.key = "Prepared" => Len(panel.got) = panel.flight - 1
        /\ panel.got # <<>> => panel.got[Len(panel.got)] = Len(panel.got)
        /\ panel.phase = "AwaitingReady" =>
              /\ ~panel.armed /\ ~panel.pumping /\ panel.flight = NoKey
              /\ panel.next = 1 /\ panel.got = <<>>
\* One pump serves the key in flight, and knows how far it got.
PumpsOrdered ==
    /\ \A p \in Pumps : Serves(p) =>
          /\ pump[p].key # NoKey /\ panel.flight = pump[p].key
          /\ pump[p].step = "focus" =>
                Len(panel.got) = pump[p].key - 1 /\ panel.key \in {"Prepared", "Cancelled"}
          /\ pump[p].step = "send" =>
                Len(panel.got) = pump[p].key - 1 /\ panel.key \in {"ReadyToDeliver", "Cancelled"}
          /\ pump[p].step = "sent" =>
                /\ Len(panel.got) = pump[p].key
                /\ panel.key \in {"ReadyToDeliver", "Accomplished", "Cancelled"}
          /\ pump[p].step = "waiting" =>
                panel.key \in {"Delivered", "Accomplished", "Cancelled"}
    /\ \A p, q \in Pumps : Serves(p) /\ Serves(q) => p = q
    /\ \A p \in Pumps : pump[p].epoch <= panels
\* Whoever is needed is there.
KeysAttended ==
    HasPanel /\ panel.armed =>
        /\ panel.queue # <<>> => panel.pumping
        /\ panel.pumping /\ panel.flight = NoKey => \E p \in Pumps : pump[p].step = "claim"
        /\ panel.flight # NoKey => \E p \in Pumps : Serves(p)
        /\ panel.flight # NoKey => panel.key \notin {"Cancelled", "none"}
KeysOK ==
    /\ pump \in [Pumps -> PumpRecords]
    /\ KeysOrdered /\ PumpsOrdered /\ KeysAttended

\* The queue has the number of a committed ticket, and of no other live one.
HideTickets == [id : Nat \ {0}, phase : {"Admitted", "Observed", "Committed"}]
TimedHides == [id : Nat \ {0}, phase : {"Admitted", "Observed"}]
HidesOK ==
    /\ hideTimers \subseteq TimedHides
    /\ hideTicket \in HideTickets \cup {NoHide} /\ hideIds \in Nat /\ hides \in Seq(Nat)
    /\ ~HasPanel => hideTicket = NoHide
    /\ hideTicket # NoHide => hideTicket.id <= hideIds
    /\ hideTicket # NoHide /\ hideTicket.phase = "Committed"
          => \E i \in DOMAIN hides : hides[i] = hideTicket.id
    /\ hideTicket # NoHide /\ hideTicket.phase # "Committed"
          => \A i \in DOMAIN hides : hides[i] # hideTicket.id
    /\ \A i \in DOMAIN hides : hides[i] <= hideIds
    /\ \A i, j \in DOMAIN hides : hides[i] = hides[j] /\ hides[i] # Terminal => i = j

\* The ticket and the answers of focus requests, by where the main thread is.
FocusTickets == [request : FocusRequests, phase : {"Prepared", "NativeClaimed", "AwaitingAck"}]
Focuses(r) == hostFocus # NoFocus /\ hostFocus.request = r
FocusOK ==
    /\ hostFocus \in FocusTickets \cup {NoFocus}
    /\ request \in [FocusRequests -> {"unsent", "starting", "waiting", "cancelling", "ended"}]
    /\ outcome \in [FocusRequests -> {"none", "Noop", "AwaitingAck", "Failed"}]
    /\ settlements \subseteq FocusRequests /\ claims \subseteq FocusRequests
    /\ starts \subseteq FocusRequests
    /\ hostFocus # NoFocus => request[hostFocus.request] \notin {"unsent", "ended"}
    /\ \A r \in settlements : request[r] \notin {"unsent", "ended"} /\ ~Focuses(r)
    /\ \A r \in claims : panelMain = <<"focusing", r>>
    /\ \A r \in starts : /\ request[r] # "unsent" /\ r \notin settlements /\ outcome[r] = "none"
                         /\ panelMain # <<"focusing", r>> /\ panelMain # <<"asking", r>>
                         /\ Focuses(r) => hostFocus.phase = "Prepared"
    /\ \A r \in FocusRequests :
          /\ request[r] = "unsent" => outcome[r] = "none"
          /\ outcome[r] = "Noop" => ~Focuses(r) /\ r \notin settlements
          /\ panelMain = <<"focusing", r>> =>
                /\ request[r] # "unsent" /\ r \notin settlements /\ outcome[r] = "none"
                /\ Focuses(r) => hostFocus.phase = "NativeClaimed"
          /\ panelMain = <<"asking", r>> =>
                /\ request[r] # "unsent" /\ outcome[r] = "none"
                /\ Focuses(r) => hostFocus.phase = "AwaitingAck"

PanelInvariant == PanelOK /\ AsksOK /\ KeysOK /\ HidesOK /\ FocusOK

-----------------------------------------------------------------------------
(* What a step leaves alone *)

SameAsks ==
    HasPanel' => /\ HasPanel /\ panel'.epoch = panel.epoch /\ panel'.phase = panel.phase
                 /\ panel'.opening = panel.opening /\ panel'.current = panel.current
                 /\ panel'.pending = panel.pending /\ panel'.newest = panel.newest
SameKeys ==
    /\ UNCHANGED pump /\ panels' \in Nat /\ panels' >= panels
    /\ HasPanel' => /\ HasPanel /\ panel'.epoch = panel.epoch /\ panel'.got = panel.got
                    /\ panel'.armed = panel.armed /\ panel'.pumping = panel.pumping
                    /\ panel'.next = panel.next /\ panel'.queue = panel.queue
                    /\ panel'.flight = panel.flight /\ panel'.key = panel.key
                    /\ panel'.phase = "AwaitingReady" => panel.phase = "AwaitingReady"
AtRest == {<<"idle">>, <<"hiding">>}
SameFocus ==
    /\ UNCHANGED <<request, starts, outcome, settlements, claims>>
    /\ hostFocus' \in {hostFocus, NoFocus}
    /\ UNCHANGED panelMain \/ (panelMain \in AtRest /\ panelMain' \in AtRest)

LEMMA AsksFrame ==
  ASSUME AsksOK, SameAsks, UNCHANGED ask
  PROVE  AsksOK'
  BY DEF AsksOK, SameAsks, SubmissionsOrdered, AskOfSession

LEMMA KeysFrame ==
  ASSUME PanelOK, KeysOK, SameKeys
  PROVE  KeysOK'
<1>1. \A p \in Pumps : Serves(p)' => Serves(p)
  BY DEF Serves, SameKeys, InSession, HasPanel
<1>2. HasPanel' => \A p \in Pumps : Serves(p) => Serves(p)'
  BY DEF Serves, SameKeys, InSession, HasPanel
<1>3. KeysOrdered'
  BY DEF KeysOK, SameKeys, KeysOrdered, Taken
<1>4. PumpsOrdered'
  <2>1. \A p \in Pumps : pump'[p].epoch <= panels'
    BY DEF KeysOK, PumpsOrdered, SameKeys, PanelOK, PumpRecords
  <2>2. \A p \in Pumps : Serves(p)' => HasPanel'
    BY DEF Serves, InSession
  <2>. QED BY <1>1, <2>1, <2>2 DEF KeysOK, PumpsOrdered, SameKeys
<1>5. KeysAttended'
  BY <1>2 DEF KeysOK, KeysAttended, SameKeys
<1>. QED BY <1>3, <1>4, <1>5 DEF KeysOK, SameKeys

LEMMA HidesFrame ==
  ASSUME HidesOK, UNCHANGED <<hideTicket, hideIds, hideTimers, hides>>, HasPanel => HasPanel'
  PROVE  HidesOK'
  BY DEF HidesOK

LEMMA HidesDropped ==
  ASSUME HidesOK, UNCHANGED <<hideIds, hideTimers, hides>>, hideTicket' = NoHide
  PROVE  HidesOK'
  BY DEF HidesOK

LEMMA FocusFrame ==
  ASSUME FocusOK, SameFocus
  PROVE  FocusOK'
<1>1. \A r : Focuses(r)' => Focuses(r) /\ hostFocus' = hostFocus
  BY DEF Focuses, SameFocus
<1>2. /\ UNCHANGED <<request, starts, outcome, settlements, claims>>
      /\ hostFocus' \in {hostFocus, NoFocus}
  BY DEF SameFocus
<1>3. \A r : panelMain' = <<"focusing", r>> <=> panelMain = <<"focusing", r>>
  BY DEF SameFocus, AtRest
<1>4. \A r : panelMain' = <<"asking", r>> <=> panelMain = <<"asking", r>>
  BY DEF SameFocus, AtRest
<1>. QED BY <1>1, <1>2, <1>3, <1>4 DEF FocusOK

-----------------------------------------------------------------------------
(* The session *)

LEMMA Live ==
  ASSUME PanelOK
  PROVE  /\ HasPanel => panel \in PanelRecords
         /\ panel \in PanelRecords => HasPanel
  BY DEF PanelOK, HasPanel, NoPanel, PanelRecords

LEMMA NewPanelOK ==
  ASSUME NEW n \in Nat \ {0}
  PROVE  NewPanel(n) \in PanelRecords
  BY DEF NewPanel, PanelRecords, PanelPhases, KeyPhases, NoKey

LEMMA InitialState ==
  ASSUME PanelInit
  PROVE  PanelInvariant
<1>. USE DEF PanelInit, SessionInit, SubmissionsInit, KeysInit, FocusInit
<1>1. PanelOK
  BY DEF PanelOK, HasPanel
<1>2. AsksOK
  BY DEF AsksOK, SubmissionsOrdered, HasPanel, AskSteps
<1>3. KeysOK
  BY DEF KeysOK, KeysOrdered, PumpsOrdered, KeysAttended, HasPanel, PumpRecords, NoPump, Serves,
         InSession, NoKey
<1>4. HidesOK
  BY DEF HidesOK
<1>5. FocusOK
  BY DEF FocusOK, Focuses
<1>. QED BY <1>1, <1>2, <1>3, <1>4, <1>5 DEF PanelInvariant

\* A session that ends leaves nothing of the page, and nobody serves its key.
LEMMA SessionEnds ==
  ASSUME PanelInvariant, EndPanel, UNCHANGED <<panels, hideIds, hideTimers, hides, ask, pump>>, SameFocus
  PROVE  PanelInvariant'
<1>1. panel' = NoPanel /\ hideTicket' = NoHide /\ panels' = panels /\ ~HasPanel'
  BY DEF EndPanel, HasPanel
<1>2. PanelOK'
  BY <1>1 DEF PanelInvariant, PanelOK
<1>3. AsksOK'
  BY <1>1, AsksFrame DEF PanelInvariant, SameAsks
<1>4. KeysOK'
  BY <1>1, KeysFrame DEF PanelInvariant, SameKeys, PanelOK
<1>5. HidesOK'
  BY <1>1, HidesDropped DEF PanelInvariant
<1>6. FocusOK'
  BY FocusFrame DEF PanelInvariant
<1>. QED BY <1>2, <1>3, <1>4, <1>5, <1>6 DEF PanelInvariant

LEMMA OpenPanelStep ==
  ASSUME PanelInvariant, OpenPanel, UNCHANGED <<ask, pump>>, FocusAside
  PROVE  PanelInvariant'
<1>. USE DEF PanelInvariant
<1>1. /\ panels \in Nat /\ panels' = panels + 1 /\ panel' = NewPanel(panels + 1)
      /\ hideTicket' = NoHide
  BY DEF OpenPanel, PanelOK
<1>2. panel' \in PanelRecords
  BY <1>1, NewPanelOK
<1>3. /\ panel'.epoch = panels + 1 /\ panel'.phase = "AwaitingReady" /\ panel'.opening = "mounting"
      /\ panel'.current = NoRequest /\ panel'.pending = NoRequest /\ panel'.newest = NoRequest
      /\ ~panel'.armed /\ panel'.next = 1 /\ panel'.queue = <<>> /\ panel'.flight = NoKey
      /\ ~panel'.pumping /\ panel'.got = <<>>
  BY <1>1 DEF NewPanel
<1>4. PanelOK'
  BY <1>1, <1>2, <1>3 DEF PanelOK
<1>5. AsksOK'
  BY <1>3 DEF AsksOK, SubmissionsOrdered, AskOfSession
<1>6. KeysOK'
  <2>1. \A p \in Pumps : pump[p].epoch <= panels /\ pump[p].epoch \in Nat
    BY DEF KeysOK, PumpsOrdered, PumpRecords
  <2>2. \A p \in Pumps : ~Serves(p)'
    BY <2>1, <1>3, <1>1 DEF Serves, InSession
  <2>3. KeysOrdered' /\ KeysAttended'
    BY <1>3 DEF KeysOrdered, KeysAttended
  <2>4. PumpsOrdered'
    BY <2>1, <2>2, <1>1 DEF PumpsOrdered
  <2>. QED BY <2>3, <2>4 DEF KeysOK
<1>7. HidesOK'
  BY HidesDropped DEF OpenPanel
<1>8. FocusOK'
  BY FocusFrame DEF OpenPanel, FocusAside, SameFocus
<1>. QED BY <1>4, <1>5, <1>6, <1>7, <1>8

LEMMA PanelReadyStep ==
  ASSUME PanelInvariant, PanelReady, UNCHANGED <<ask, pump>>, FocusAside
  PROVE  PanelInvariant'
<1>. USE DEF PanelInvariant
<1>1. HasPanel /\ panel \in PanelRecords /\ panel.phase = "AwaitingReady"
  BY Live DEF PanelReady
<1>2. panel' = [panel EXCEPT !.phase = "Ready", !.armed = TRUE] /\ panels' = panels
  BY DEF PanelReady
<1>3. panel' \in PanelRecords
  BY <1>1, <1>2 DEF PanelRecords, PanelPhases
<1>4. /\ panel'.epoch = panel.epoch /\ panel'.phase = "Ready" /\ panel'.opening = panel.opening
      /\ panel'.current = panel.current /\ panel'.pending = panel.pending
      /\ panel'.newest = panel.newest
      /\ panel'.next = panel.next /\ panel'.queue = panel.queue /\ panel'.flight = panel.flight
      /\ panel'.pumping <=> panel.pumping
      /\ panel'.got = panel.got /\ panel'.key = panel.key
  BY <1>1, <1>2 DEF PanelRecords
<1>5. PanelOK'
  BY <1>1, <1>2, <1>3, <1>4 DEF PanelOK
<1>6. AsksOK'
  BY <1>1, <1>4 DEF AsksOK, SubmissionsOrdered, AskOfSession
<1>7. KeysOK'
  <2>1. /\ panel.next = 1 /\ panel.queue = <<>> /\ panel.flight = NoKey /\ ~panel.pumping
        /\ panel.got = <<>>
    BY <1>1 DEF KeysOK, KeysOrdered
  <2>2. HasPanel'
    BY <1>3, <1>5 DEF HasPanel, PanelRecords, NoPanel
  <2>3. \A p \in Pumps : Serves(p)' <=> Serves(p)
    BY <1>1, <2>2, <1>4 DEF Serves, InSession
  <2>4. KeysOrdered'
    <3>1. /\ panel'.got = <<>> /\ panel'.flight = NoKey /\ panel'.queue = <<>>
          /\ panel'.phase # "AwaitingReady"
      BY <2>1, <1>4
    <3>2. Len(<<>>) = 0 /\ DOMAIN <<>> = {}
      OBVIOUS
    <3>3. Len(panel'.queue) = 0 /\ Len(panel'.got) = 0 /\ DOMAIN panel'.queue = {}
      BY <3>1, <3>2
    <3>4. Taken' = 0
      BY <3>3, <2>1, <1>4 DEF Taken
    <3>. QED BY <3>1, <3>3, <3>4 DEF KeysOrdered
  <2>5. KeysAttended'
    BY <2>1, <1>4 DEF KeysAttended
  <2>6. PumpsOrdered'
    BY <2>3, <1>4, <1>2 DEF PumpsOrdered, KeysOK
  <2>. QED BY <2>4, <2>5, <2>6 DEF KeysOK
<1>8. HasPanel'
  BY <1>3 DEF HasPanel, PanelRecords, NoPanel
<1>9. HidesOK'
  BY <1>1, <1>8, HidesFrame DEF PanelReady, hideVars
<1>10. FocusOK'
  BY FocusFrame DEF PanelReady, FocusAside, SameFocus
<1>. QED BY <1>5, <1>6, <1>7, <1>9, <1>10

LEMMA MountedStep ==
  ASSUME PanelInvariant, Mounted, UNCHANGED <<ask, pump>>, FocusAside
  PROVE  PanelInvariant'
<1>. USE DEF PanelInvariant
<1>1. HasPanel /\ panel \in PanelRecords
  BY Live DEF Mounted
<1>2. PICK opening \in {"focusing", "open"} :
        panel' = [panel EXCEPT !.opening = opening] /\ panels' = panels
  BY DEF Mounted
<1>3. panel.phase # "AwaitingReady" 
  BY <1>1 DEF Mounted, AsksOK, SubmissionsOrdered
<1>4. panel' \in PanelRecords
  BY <1>1, <1>2 DEF PanelRecords
<1>5. /\ panel'.epoch = panel.epoch /\ panel'.phase = panel.phase
      /\ panel'.current = panel.current /\ panel'.pending = panel.pending
      /\ panel'.newest = panel.newest
      /\ panel'.next = panel.next /\ panel'.queue = panel.queue /\ panel'.flight = panel.flight
      /\ panel'.pumping = panel.pumping /\ panel'.armed = panel.armed
      /\ panel'.got = panel.got /\ panel'.key = panel.key
  BY <1>1, <1>2 DEF PanelRecords
<1>6. PanelOK' /\ HasPanel'
  BY <1>1, <1>2, <1>4, <1>5 DEF PanelOK, HasPanel, PanelRecords, NoPanel
<1>7. AsksOK'
  BY <1>1, <1>3, <1>5 DEF AsksOK, SubmissionsOrdered, AskOfSession
<1>8. KeysOK'
  BY <1>1, <1>2, <1>5, KeysFrame DEF SameKeys, PanelOK
<1>9. HidesOK'
  BY <1>6, HidesFrame DEF Mounted, hideVars
<1>10. FocusOK'
  BY FocusFrame DEF Mounted, FocusAside, SameFocus
<1>. QED BY <1>6, <1>7, <1>8, <1>9, <1>10

LEMMA PanelStays ==
  ASSUME PanelInvariant, UNCHANGED <<panel, panels, ask, pump>>
  PROVE  PanelOK' /\ AsksOK' /\ KeysOK' /\ (HasPanel' <=> HasPanel)
<1>1. PanelOK' /\ (HasPanel' <=> HasPanel)
  BY DEF PanelInvariant, PanelOK, HasPanel
<1>2. AsksOK'
  BY <1>1, AsksFrame DEF PanelInvariant, SameAsks
<1>3. KeysOK'
  BY <1>1, KeysFrame DEF PanelInvariant, SameKeys, PanelOK
<1>. QED BY <1>1, <1>2, <1>3

-----------------------------------------------------------------------------
(* Hides *)

\* A hide that left the queue leaves no ticket behind that waits for it.
LEMMA HideTaken ==
  ASSUME HidesOK, hides # <<>>, hides' = Tail(hides), UNCHANGED <<hideIds, hideTimers>>,
         \/ hideTicket' = NoHide
         \/ HasPanel' /\ hideTicket' = hideTicket /\ (hideTicket # NoHide => hideTicket.id # Head(hides))
  PROVE  HidesOK'
<1>1. /\ hides \in Seq(Nat) /\ Len(hides) \in Nat \ {0} /\ hides' \in Seq(Nat)
      /\ Len(hides') = Len(hides) - 1 /\ DOMAIN hides' = 1..(Len(hides) - 1)
      /\ DOMAIN hides = 1..Len(hides) /\ Head(hides) = hides[1]
      /\ \A i \in DOMAIN hides' : i + 1 \in DOMAIN hides /\ hides'[i] = hides[i + 1]
  BY DEF HidesOK
<1>2. \A i \in DOMAIN hides : i = 1 \/ (i - 1 \in DOMAIN hides' /\ hides'[i - 1] = hides[i])
  BY <1>1
<1>3. hideTicket' # NoHide /\ hideTicket'.phase = "Committed"
        => \E i \in DOMAIN hides' : hides'[i] = hideTicket'.id
  <2>. SUFFICES ASSUME hideTicket' # NoHide, hideTicket'.phase = "Committed"
                PROVE  \E i \in DOMAIN hides' : hides'[i] = hideTicket'.id
    OBVIOUS
  <2>1. hideTicket' = hideTicket /\ hideTicket.id # Head(hides)
    OBVIOUS
  <2>2. PICK i \in DOMAIN hides : hides[i] = hideTicket.id
    BY <2>1 DEF HidesOK
  <2>3. i # 1
    BY <2>1, <2>2, <1>1
  <2>. QED BY <2>1, <2>2, <2>3, <1>2
<1>4. hideTicket' # NoHide /\ hideTicket'.phase # "Committed"
        => \A i \in DOMAIN hides' : hides'[i] # hideTicket'.id
  BY <1>1 DEF HidesOK
<1>5. \A i \in DOMAIN hides' : hides'[i] <= hideIds'
  BY <1>1 DEF HidesOK
<1>6. \A i, j \in DOMAIN hides' : hides'[i] = hides'[j] /\ hides'[i] # Terminal => i = j
  <2>. SUFFICES ASSUME NEW i \in DOMAIN hides', NEW j \in DOMAIN hides',
                       hides'[i] = hides'[j], hides'[i] # Terminal
                PROVE  i = j
    OBVIOUS
  <2>1. hides[i + 1] = hides[j + 1] /\ hides[i + 1] # Terminal
    BY <1>1
  <2>2. i + 1 = j + 1
    BY <2>1, <1>1 DEF HidesOK
  <2>. QED BY <2>2, <1>1
<1>. QED BY <1>1, <1>3, <1>4, <1>5, <1>6 DEF HidesOK

\* A ticket is committed once: its number is new in the queue.
LEMMA HideScheduled ==
  ASSUME HidesOK, hideTicket # NoHide, hideTicket.phase # "Committed", ScheduleHide,
         UNCHANGED <<hideIds, panel>>, hideTimers' \subseteq hideTimers
  PROVE  HidesOK'
<1>1. CASE hideTicket' = NoHide /\ UNCHANGED hides
  BY <1>1 DEF HidesOK
<1>2. CASE /\ hideTicket' = [hideTicket EXCEPT !.phase = "Committed"]
           /\ hides' = Append(hides, hideTicket.id)
  <2>1. /\ hideTicket \in HideTickets /\ hideTicket' \in HideTickets
        /\ hideTicket'.id = hideTicket.id /\ hideTicket'.phase = "Committed"
    BY <1>2 DEF HidesOK, HideTickets
  <2>2. /\ hides \in Seq(Nat) /\ hides' \in Seq(Nat) /\ Len(hides) \in Nat
        /\ DOMAIN hides = 1..Len(hides) /\ DOMAIN hides' = 1..(Len(hides) + 1)
        /\ hides'[Len(hides) + 1] = hideTicket.id
        /\ \A i \in DOMAIN hides : hides'[i] = hides[i]
    BY <1>2, <2>1 DEF HidesOK, HideTickets
  <2>3. \A i \in DOMAIN hides' : i \in DOMAIN hides \/ i = Len(hides) + 1
    BY <2>2
  <2>4. \A i \in DOMAIN hides' : hides'[i] <= hideIds'
    BY <2>1, <2>2, <2>3 DEF HidesOK
  <2>5. \A i, j \in DOMAIN hides' : hides'[i] = hides'[j] /\ hides'[i] # Terminal => i = j
    BY <2>2, <2>3 DEF HidesOK
  <2>6. \E i \in DOMAIN hides' : hides'[i] = hideTicket'.id
    BY <2>1, <2>2
  <2>7. /\ HasPanel' /\ hideTicket'.id <= hideIds' /\ hideIds' \in Nat
        /\ hideTimers' \subseteq TimedHides
    BY <2>1 DEF HidesOK, HasPanel
  <2>. QED BY <2>1, <2>2, <2>4, <2>5, <2>6, <2>7 DEF HidesOK
<1>. QED BY <1>1, <1>2 DEF ScheduleHide

LEMMA HideHostStep ==
  ASSUME PanelInvariant, HideHost, UNCHANGED <<ask, pump>>, FocusAside
  PROVE  PanelInvariant'
<1>. USE DEF HideHost, HideHostFor
<1>1. CASE panelMain' = <<"hiding">> /\ HasPanel /\ EndPanel
  <2>1. SameFocus
    BY <1>1 DEF SameFocus, FocusAside, EndPanel, AtRest, PanelMainIdle
  <2>. QED BY <1>1, <2>1, SessionEnds
<1>2. CASE /\ UNCHANGED <<panel, hideTicket, hostFocus>>
           /\ UNCHANGED panelMain \/ panelMain' = <<"hiding">>
  <2>1. PanelOK' /\ AsksOK' /\ KeysOK' /\ (HasPanel' <=> HasPanel)
    BY <1>2, PanelStays
  <2>2. HidesOK'
    BY <1>2, <2>1, HidesFrame DEF PanelInvariant
  <2>3. FocusOK'
    BY <1>2, FocusFrame DEF PanelInvariant, SameFocus, FocusAside, AtRest, PanelMainIdle
  <2>. QED BY <2>1, <2>2, <2>3 DEF PanelInvariant
<1>. QED BY <1>1, <1>2

LEMMA HostHiddenStep ==
  ASSUME PanelInvariant, HostHidden, UNCHANGED <<ask, pump>>, FocusAside
  PROVE  PanelInvariant'
  BY SessionEnds DEF HostHidden, SameFocus, FocusAside, EndPanel, AtRest

LEMMA PanelEndsStep ==
  ASSUME PanelInvariant, PanelEnds, UNCHANGED <<ask, pump>>, FocusAside
  PROVE  PanelInvariant'
  BY SessionEnds DEF PanelEnds, SameFocus, FocusAside, EndPanel

LEMMA ShowHostStep ==
  ASSUME PanelInvariant, ShowHost, UNCHANGED <<ask, pump>>, FocusAside
  PROVE  PanelInvariant'
<1>1. PanelOK' /\ AsksOK' /\ KeysOK'
  BY PanelStays DEF ShowHost
<1>2. HidesOK'
  BY HidesDropped DEF PanelInvariant, ShowHost
<1>3. FocusOK'
  BY FocusFrame DEF PanelInvariant, SameFocus, FocusAside, ShowHost
<1>. QED BY <1>1, <1>2, <1>3 DEF PanelInvariant

LEMMA AdmitHideStep ==
  ASSUME PanelInvariant, AdmitHide, UNCHANGED <<ask, pump>>, FocusAside
  PROVE  PanelInvariant'
<1>1. PanelOK' /\ AsksOK' /\ KeysOK' /\ (HasPanel' <=> HasPanel)
  BY PanelStays DEF AdmitHide
<1>2. HidesOK'
  <2>1. /\ HasPanel /\ hideIds' = hideIds + 1 /\ hides' = hides
        /\ hideTicket' = [id |-> hideIds + 1, phase |-> "Admitted"]
    BY DEF AdmitHide
  <2>2. HidesOK
    BY DEF PanelInvariant
  <2>3. hideTicket' \in HideTickets /\ hideTicket'.id = hideIds + 1 /\ hideTicket'.phase = "Admitted"
    BY <2>1, <2>2 DEF HideTickets, HidesOK
  <2>4. /\ \A i \in DOMAIN hides' : hides'[i] <= hideIds' /\ hides'[i] # hideTicket'.id
        /\ hideIds \in Nat
    BY <2>1, <2>2, <2>3 DEF HidesOK
  <2>5. hideTimers' \subseteq TimedHides
    BY <2>4, <2>2 DEF AdmitHide, HidesOK, TimedHides
  <2>. QED BY <2>1, <2>2, <2>3, <2>4, <2>5, <1>1 DEF HidesOK
<1>3. FocusOK'
  BY FocusFrame DEF PanelInvariant, SameFocus, FocusAside, AdmitHide
<1>. QED BY <1>1, <1>2, <1>3 DEF PanelInvariant

LEMMA ObserveHideStep ==
  ASSUME PanelInvariant, ObserveHide, UNCHANGED <<ask, pump>>, FocusAside
  PROVE  PanelInvariant'
<1>1. PanelOK' /\ AsksOK' /\ KeysOK' /\ (HasPanel' <=> HasPanel)
  BY PanelStays DEF ObserveHide
<1>2. HidesOK'
  <2>1. /\ hideTicket # NoHide /\ hideTicket.phase = "Admitted" /\ hideIds' = hideIds
        /\ hides' = hides /\ hideTicket' = [hideTicket EXCEPT !.phase = "Observed"]
    BY DEF ObserveHide
  <2>2. HidesOK
    BY DEF PanelInvariant
  <2>3. hideTicket' \in HideTickets /\ hideTicket'.id = hideTicket.id /\ hideTicket'.phase = "Observed"
    BY <2>1, <2>2 DEF HideTickets, HidesOK
  <2>4. hideTimers' \subseteq TimedHides
    <3>1. hideTicket.id \in Nat \ {0}
      BY <2>1, <2>2 DEF HideTickets, HidesOK
    <3>. QED BY <3>1, <2>2 DEF ObserveHide, HidesOK, TimedHides
  <2>. QED BY <2>1, <2>2, <2>3, <2>4, <1>1 DEF HidesOK
<1>3. FocusOK'
  BY FocusFrame DEF PanelInvariant, SameFocus, FocusAside, ObserveHide
<1>. QED BY <1>1, <1>2, <1>3 DEF PanelInvariant

\* A timer that finds its ticket gone, or in another phase, does nothing.
LEMMA CommitStep ==
  ASSUME PanelInvariant, UNCHANGED <<ask, pump>>, FocusAside,
         CommitHide \/ \E t \in hideTimers : HideTimer(t)
  PROVE  PanelInvariant'
<1>1. UNCHANGED <<panel, panels, hideIds, hostFocus, panelMain>>
  BY DEF CommitHide, HideTimer
<1>2. PanelOK' /\ AsksOK' /\ KeysOK' /\ (HasPanel' <=> HasPanel)
  BY <1>1, PanelStays
<1>3. HidesOK'
  <2>1. CASE CommitHide
    BY <2>1, <1>1, HideScheduled DEF PanelInvariant, CommitHide
  <2>2. CASE \E t \in hideTimers : hideTicket = t /\ HideTimer(t)
    <3>1. ScheduleHide
      BY <2>2 DEF HideTimer
    <3>2. hideTicket # NoHide /\ hideTicket.phase # "Committed"
      BY <2>2 DEF PanelInvariant, HidesOK, TimedHides, NoHide
    <3>3. hideTimers' \subseteq hideTimers
      BY <2>2 DEF HideTimer
    <3>. QED BY <3>1, <3>2, <3>3, <1>1, HideScheduled DEF PanelInvariant
  <2>3. CASE UNCHANGED <<hideTicket, hides>>
    <3>1. hideTimers' \subseteq hideTimers
      BY DEF CommitHide, HideTimer
    <3>. QED BY <2>3, <3>1, <1>1, <1>2 DEF PanelInvariant, HidesOK
  <2>. QED BY <2>1, <2>2, <2>3 DEF HideTimer
<1>4. FocusOK'
  BY <1>1, FocusFrame DEF PanelInvariant, SameFocus, FocusAside
<1>. QED BY <1>2, <1>3, <1>4 DEF PanelInvariant

LEMMA RunHideStep ==
  ASSUME PanelInvariant, RunHide, UNCHANGED <<ask, pump>>, FocusAside
  PROVE  PanelInvariant'
<1>. USE DEF RunHide, HideHostFor
<1>1. HidesOK /\ (~HasPanel => hideTicket = NoHide)
  BY DEF PanelInvariant, HidesOK
<1>2. CASE panelMain' = <<"hiding">> /\ HasPanel /\ EndPanel
  <2>1. ~HasPanel' /\ hideTicket' = NoHide /\ panel' = NoPanel /\ panels' = panels
    BY <1>2 DEF EndPanel, HasPanel
  <2>2. PanelOK'
    BY <2>1 DEF PanelInvariant, PanelOK
  <2>3. AsksOK'
    BY <2>1, AsksFrame DEF PanelInvariant, SameAsks
  <2>4. KeysOK'
    BY <2>1, KeysFrame DEF PanelInvariant, SameKeys, PanelOK
  <2>5. HidesOK'
    BY <1>1, <2>1, HideTaken
  <2>6. FocusOK'
    BY <1>2, FocusFrame DEF PanelInvariant, SameFocus, FocusAside, EndPanel, AtRest, PanelMainIdle
  <2>. QED BY <2>2, <2>3, <2>4, <2>5, <2>6 DEF PanelInvariant
<1>3. CASE /\ UNCHANGED <<panel, hostFocus>>
           /\ UNCHANGED panelMain \/ panelMain' = <<"hiding">>
           /\ \/ ~HasPanel /\ UNCHANGED hideTicket
              \/ hideTicket' = IF hideTicket.id = Head(hides) /\ Head(hides) # Terminal THEN NoHide ELSE hideTicket
  <2>1. PanelOK' /\ AsksOK' /\ KeysOK' /\ (HasPanel' <=> HasPanel)
    BY <1>3, PanelStays
  <2>2. HidesOK'
    <3>1. \/ hideTicket' = NoHide
          \/ HasPanel' /\ hideTicket' = hideTicket /\ (hideTicket # NoHide => hideTicket.id # Head(hides))
      <4>1. hideTicket # NoHide => hideTicket.id \in Nat \ {0} /\ HasPanel
        BY <1>1 DEF HidesOK, HideTickets
      <4>. QED BY <4>1, <2>1, <1>1, <1>3 DEF Terminal
    <3>. QED BY <3>1, <1>1, HideTaken
  <2>3. FocusOK'
    BY <1>3, FocusFrame DEF PanelInvariant, SameFocus, FocusAside, AtRest, PanelMainIdle
  <2>. QED BY <2>1, <2>2, <2>3 DEF PanelInvariant
<1>. QED BY <1>2, <1>3

-----------------------------------------------------------------------------
(* Submissions *)

SameRoute ==
    /\ panel'.epoch = panel.epoch /\ panel'.got = panel.got
    /\ panel'.armed = panel.armed /\ panel'.pumping = panel.pumping
    /\ panel'.next = panel.next /\ panel'.queue = panel.queue
    /\ panel'.flight = panel.flight /\ panel'.key = panel.key
    /\ panel'.phase = "AwaitingReady" => panel.phase = "AwaitingReady"

\* A submission moves the page of its session; keys, hides and focus do not see it.
LEMMA SubmissionFrame ==
  ASSUME PanelInvariant, HasPanel, panel' \in PanelRecords, SameRoute, AsksOK',
         SameTickets, UNCHANGED pump, FocusAside
  PROVE  PanelInvariant'
<1>. USE DEF SameTickets, hideVars
<1>1. HasPanel'
  BY DEF HasPanel, PanelRecords, NoPanel
<1>2. PanelOK'
  BY <1>1 DEF PanelInvariant, PanelOK, SameRoute
<1>3. KeysOK'
  BY KeysFrame DEF PanelInvariant, PanelOK, SameKeys, SameRoute
<1>4. HidesOK'
  BY <1>1, HidesFrame DEF PanelInvariant
<1>5. FocusOK'
  BY FocusFrame DEF PanelInvariant, SameFocus, FocusAside
<1>. QED BY <1>2, <1>3, <1>4, <1>5 DEF PanelInvariant

LEMMA PanelStaysFrame ==
  ASSUME PanelInvariant, UNCHANGED panel, AsksOK', SameTickets, UNCHANGED pump, FocusAside
  PROVE  PanelInvariant'
<1>1. CASE HasPanel
  BY <1>1, Live, SubmissionFrame DEF SameRoute, PanelInvariant
<1>2. CASE ~HasPanel
  <2>. USE DEF SameTickets, hideVars
  <2>1. ~HasPanel'
    BY <1>2 DEF HasPanel
  <2>2. PanelOK'
    BY <2>1 DEF PanelInvariant, PanelOK
  <2>3. KeysOK'
    BY <2>1, KeysFrame DEF PanelInvariant, PanelOK, SameKeys
  <2>4. HidesOK'
    BY <1>2, HidesFrame DEF PanelInvariant
  <2>5. FocusOK'
    BY FocusFrame DEF PanelInvariant, SameFocus, FocusAside
  <2>. QED BY <2>2, <2>3, <2>4, <2>5 DEF PanelInvariant
<1>. QED BY <1>1, <1>2

Shown == {"acking", "acked", "failed", "expired", "ended"}

\* A worker that goes on leaves the order alone, unless it is the pending one.
LEMMA AskMoves ==
  ASSUME AsksOK, NEW s \in PanelRequests, NEW step \in AskSteps \ {"unsent"}, GoOn(s, step), SameAsks,
         HasPanel' => s # panel.pending,
         HasPanel' /\ s = panel.current /\ (panel.phase # "Ready" \/ panel.pending # NoRequest)
            => step \in Shown
  PROVE  AsksOK'
<1>1. /\ ask' \in [PanelRequests -> [step : AskSteps, epoch : Nat]]
      /\ ask'[s].step = step /\ ask'[s].epoch = ask[s].epoch
      /\ \A x \in PanelRequests \ {s} : ask'[x] = ask[x]
  BY DEF AsksOK, GoOn
<1>2. \A x \in PanelRequests : ask'[x].epoch = ask[x].epoch
  BY <1>1
<1>3. SubmissionsOrdered'
  <2>. SUFFICES ASSUME HasPanel'
                PROVE  SubmissionsOrdered'
    BY DEF SubmissionsOrdered
  <2>1. /\ HasPanel /\ panel'.epoch = panel.epoch /\ panel'.phase = panel.phase
        /\ panel'.opening = panel.opening /\ panel'.current = panel.current
        /\ panel'.pending = panel.pending /\ panel'.newest = panel.newest
    BY DEF SameAsks
  <2>2. SubmissionsOrdered
    BY DEF AsksOK
  <2>3. AskOfSession(panel.current)' /\ AskOfSession(panel.pending)'
    BY <2>1, <2>2, <1>2 DEF SubmissionsOrdered, AskOfSession
  <2>4. panel.pending # NoRequest => ask'[panel.pending] = ask[panel.pending]
    BY <2>1, <2>2, <1>1 DEF SubmissionsOrdered, AskOfSession
  <2>5. panel.current # NoRequest =>
            \/ ask'[panel.current] = ask[panel.current]
            \/ s = panel.current /\ ask'[panel.current].step = step
    BY <2>1, <2>2, <1>1 DEF SubmissionsOrdered, AskOfSession
  <2>. QED BY <2>1, <2>2, <2>3, <2>4, <2>5 DEF SubmissionsOrdered, Shown
<1>. QED BY <1>1, <1>3 DEF AsksOK

\* What the order says of a submission, by what its worker does.
LEMMA AskPlace ==
  ASSUME PanelInvariant, NEW s \in PanelRequests, HasPanel
  PROVE  /\ panel \in PanelRecords /\ SubmissionsOrdered
         /\ ask[s] \in [step : AskSteps, epoch : Nat] /\ s # NoRequest
         /\ s = panel.pending => ask[s].step = "buffered" /\ InSession(ask[s].epoch) /\ panel.newest = s
         /\ s = panel.current => ask[s].step # "unsent" /\ InSession(ask[s].epoch)
         /\ s = panel.current /\ ask[s].step \notin Shown
                => panel.phase = "Ready" /\ panel.pending = NoRequest /\ panel.newest = s
         /\ panel.pending = NoRequest => panel.newest = panel.current
         /\ panel.phase = "AwaitingReady" => panel.opening # "open" /\ s # panel.current
  BY PanelAssumption, Live DEF PanelInvariant, AsksOK, SubmissionsOrdered, AskOfSession, InSession, Shown

LEMMA SubmitStep ==
  ASSUME PanelInvariant, NEW s \in PanelRequests, SubmitToPanel(s), UNCHANGED pump, FocusAside
  PROVE  PanelInvariant'
<1>1. /\ HasPanel /\ panel.opening = "open" /\ ask[s].step = "unsent" /\ SameTickets
      /\ panel \in PanelRecords /\ SubmissionsOrdered /\ s # NoRequest
      /\ s # panel.pending /\ s # panel.current /\ panel.phase # "AwaitingReady"
  BY AskPlace DEF SubmitToPanel
<1>2. ask \in [PanelRequests -> [step : AskSteps, epoch : Nat]]
  BY DEF PanelInvariant, AsksOK
<1>3. panel.epoch \in Nat
  BY <1>1 DEF PanelRecords
<1>4. CASE panel.phase = "Ready"
  <2>1. /\ panel' = [panel EXCEPT !.pending = NoRequest, !.current = s, !.newest = s]
        /\ ask' = [ask EXCEPT ![s] = [step |-> "free", epoch |-> panel.epoch]]
    BY <1>4 DEF SubmitToPanel
  <2>2. /\ panel' \in PanelRecords /\ SameRoute /\ panel'.pending = NoRequest
        /\ panel'.current = s /\ panel'.newest = s /\ panel'.phase = panel.phase
        /\ panel'.opening = panel.opening
    BY <2>1, <1>1 DEF PanelRecords, SameRoute
  <2>3. /\ ask' \in [PanelRequests -> [step : AskSteps, epoch : Nat]]
        /\ ask'[s].step = "free" /\ ask'[s].epoch = panel.epoch
    BY <2>1, <1>2, <1>3 DEF AskSteps
  <2>4. AsksOK'
    BY <2>2, <2>3, <1>1, <1>4 DEF AsksOK, SubmissionsOrdered, AskOfSession, SameRoute
  <2>. QED BY <2>2, <2>4, <1>1, SubmissionFrame
<1>5. CASE panel.phase # "Ready"
  <2>1. /\ panel' = [panel EXCEPT !.pending = s, !.newest = s]
        /\ ask' = [ask EXCEPT ![s] = [step |-> "buffered", epoch |-> panel.epoch]]
    BY <1>5 DEF SubmitToPanel
  <2>2. /\ panel' \in PanelRecords /\ SameRoute /\ panel'.pending = s
        /\ panel'.current = panel.current /\ panel'.newest = s /\ panel'.phase = panel.phase
        /\ panel'.opening = panel.opening
    BY <2>1, <1>1 DEF PanelRecords, SameRoute
  <2>3. /\ ask' \in [PanelRequests -> [step : AskSteps, epoch : Nat]]
        /\ ask'[s].step = "buffered" /\ ask'[s].epoch = panel.epoch
        /\ panel.current # NoRequest => ask'[panel.current] = ask[panel.current]
    <3>1. panel.current # NoRequest => panel.current \in PanelRequests
      BY <1>1 DEF SubmissionsOrdered, AskOfSession
    <3>. QED BY <3>1, <2>1, <1>1, <1>2, <1>3 DEF AskSteps
  <2>4. AsksOK'
    BY <2>2, <2>3, <1>1, <1>5 DEF AsksOK, SubmissionsOrdered, AskOfSession, SameRoute
  <2>. QED BY <2>2, <2>4, <1>1, SubmissionFrame
<1>. QED BY <1>4, <1>5

\* Steps of a worker that leave the panel alone.
LEMMA WorkerMoves ==
  ASSUME PanelInvariant, NEW s \in PanelRequests, NEW step \in AskSteps \ {"unsent"}, GoOn(s, step),
         UNCHANGED panel, SameTickets, UNCHANGED pump, FocusAside,
         ask[s].step # "unsent",
         HasPanel => s # panel.pending,
         HasPanel /\ s = panel.current => ask[s].step \notin Shown \/ step \in Shown
  PROVE  PanelInvariant'
<1>1. HasPanel' => HasPanel
  BY DEF HasPanel
<1>2. SameAsks
  BY <1>1 DEF SameAsks
<1>3. HasPanel /\ s = panel.current /\ (panel.phase # "Ready" \/ panel.pending # NoRequest) => step \in Shown
  BY AskPlace
<1>4. AsksOK'
  BY <1>1, <1>2, <1>3, AskMoves DEF PanelInvariant
<1>. QED BY <1>4, PanelStaysFrame

LEMMA AdmitFreeStep ==
  ASSUME PanelInvariant, NEW s \in PanelRequests, AdmitFree(s), UNCHANGED pump, FocusAside
  PROVE  PanelInvariant'
<1>1. /\ ask[s].step = "free" /\ UNCHANGED panel /\ SameTickets
      /\ \E step \in {"working", "failed", "ended"} : GoOn(s, step)
  BY DEF AdmitFree, Admitted, sessionVars, SameTickets, hideVars
<1>2. HasPanel => s # panel.pending
  BY <1>1, AskPlace
<1>. QED BY <1>1, <1>2, WorkerMoves DEF AskSteps, Shown

LEMMA AdmitBufferedStep ==
  ASSUME PanelInvariant, NEW s \in PanelRequests, AdmitBuffered(s), UNCHANGED pump, FocusAside
  PROVE  PanelInvariant'
<1>0. ask[s].step = "buffered"
  BY DEF AdmitBuffered
<1>1. CASE ~(InSession(ask[s].epoch) /\ panel.pending = s) /\ GoOn(s, "ended") /\ UNCHANGED sessionVars
  <2>1. HasPanel => s # panel.pending
    BY <1>1, AskPlace
  <2>. QED BY <1>0, <1>1, <2>1, WorkerMoves DEF AskSteps, Shown, sessionVars, SameTickets, hideVars
<1>2. CASE /\ InSession(ask[s].epoch) /\ panel.pending = s /\ panel.phase = "Ready"
           /\ panel' = [panel EXCEPT !.pending = NoRequest, !.current = s]
           /\ Admitted(s) /\ SameTickets
  <2>1. HasPanel /\ panel \in PanelRecords /\ panel.newest = s /\ s # NoRequest
    BY <1>2, AskPlace DEF InSession
  <2>2. /\ panel' \in PanelRecords /\ SameRoute /\ panel'.pending = NoRequest
        /\ panel'.current = s /\ panel'.newest = s /\ panel'.phase = "Ready"
        /\ panel'.opening = panel.opening
    BY <2>1, <1>2 DEF PanelRecords, SameRoute
  <2>3. /\ ask' \in [PanelRequests -> [step : AskSteps, epoch : Nat]]
        /\ ask'[s].step # "unsent" /\ ask'[s].epoch = panel.epoch
    BY <1>2 DEF PanelInvariant, AsksOK, Admitted, GoOn, AskSteps, InSession
  <2>4. AsksOK'
    BY <2>1, <2>2, <2>3 DEF AsksOK, SubmissionsOrdered, AskOfSession, SameRoute
  <2>. QED BY <2>1, <2>2, <2>4, <1>2, SubmissionFrame
<1>3. CASE UNCHANGED <<panel, ask>> /\ SameTickets
  <2>1. HasPanel' => HasPanel
    BY <1>3 DEF HasPanel
  <2>2. AsksOK'
    BY <1>3, <2>1, AsksFrame DEF PanelInvariant, SameAsks
  <2>. QED BY <1>3, <2>2, PanelStaysFrame
<1>. QED BY <1>1, <1>2, <1>3 DEF AdmitBuffered

LEMMA RuntimeEndsStep ==
  ASSUME PanelInvariant, NEW s \in PanelRequests, RuntimeEnds(s), UNCHANGED pump, FocusAside
  PROVE  PanelInvariant'
<1>1. /\ ask[s].step = "working" /\ UNCHANGED panel /\ SameTickets
      /\ \E step \in {"answered", "failed", "ended"} : GoOn(s, step)
  BY DEF RuntimeEnds, sessionVars, SameTickets, hideVars
<1>2. HasPanel => s # panel.pending
  BY <1>1, AskPlace
<1>. QED BY <1>1, <1>2, WorkerMoves DEF AskSteps, Shown

LEMMA DeliverUpdateStep ==
  ASSUME PanelInvariant, NEW s \in PanelRequests, DeliverUpdate(s), UNCHANGED pump, FocusAside
  PROVE  PanelInvariant'
<1>0. ask[s].step = "answered" /\ SameTickets
  BY DEF DeliverUpdate
<1>1. CASE /\ IsCurrent(s) /\ panel.phase = "Ready"
           /\ panel' = [panel EXCEPT !.phase = "AwaitingAck"]
           /\ GoOn(s, "acking") \/ GoOn(s, "failed")
  <2>1. /\ HasPanel /\ panel \in PanelRecords /\ panel.newest = s /\ s # NoRequest
        /\ panel.current = s /\ panel.pending = NoRequest /\ ask[s].epoch = panel.epoch
    BY <1>0, <1>1, AskPlace DEF InSession, IsCurrent, Shown
  <2>2. /\ panel' \in PanelRecords /\ SameRoute /\ panel'.pending = NoRequest
        /\ panel'.current = s /\ panel'.newest = s /\ panel'.phase = "AwaitingAck"
    BY <2>1, <1>1 DEF PanelRecords, SameRoute, PanelPhases
  <2>3. /\ ask' \in [PanelRequests -> [step : AskSteps, epoch : Nat]]
        /\ ask'[s].step \in {"acking", "failed"} /\ ask'[s].epoch = panel.epoch
    BY <1>1, <2>1 DEF PanelInvariant, AsksOK, GoOn, AskSteps
  <2>4. AsksOK'
    BY <2>1, <2>2, <2>3 DEF AsksOK, SubmissionsOrdered, AskOfSession, SameRoute
  <2>. QED BY <2>1, <2>2, <2>4, <1>0, SubmissionFrame
<1>2. CASE GoOn(s, "ended") /\ UNCHANGED panel
  <2>1. HasPanel => s # panel.pending
    BY <1>0, AskPlace
  <2>. QED BY <1>0, <1>2, <2>1, WorkerMoves DEF AskSteps, Shown
<1>. QED BY <1>1, <1>2 DEF DeliverUpdate

LEMMA PageAckStep ==
  ASSUME PanelInvariant, NEW s \in PanelRequests, PageAck(s), UNCHANGED pump, FocusAside
  PROVE  PanelInvariant'
<1>0. /\ IsCurrent(s) /\ panel.phase = "AwaitingAck" /\ SameTickets /\ ask' = ask
      /\ panel' = [panel EXCEPT !.phase = "Acknowledged"]
  BY DEF PageAck
<1>1. HasPanel /\ panel \in PanelRecords /\ s # NoRequest /\ panel.current = s
  BY <1>0, AskPlace DEF InSession, IsCurrent
<1>2. /\ panel' \in PanelRecords /\ SameRoute /\ panel'.pending = panel.pending
      /\ panel'.current = s /\ panel'.newest = panel.newest /\ panel'.phase = "Acknowledged"
  BY <1>0, <1>1 DEF PanelRecords, SameRoute, PanelPhases
<1>3. AsksOK'
  BY <1>0, <1>1, <1>2 DEF AsksOK, SubmissionsOrdered, AskOfSession, SameRoute, PanelInvariant
<1>. QED BY <1>0, <1>1, <1>2, <1>3, SubmissionFrame

LEMMA FreePageStep ==
  ASSUME PanelInvariant, NEW s \in PanelRequests, FreePage(s), UNCHANGED pump, FocusAside
  PROVE  PanelInvariant'
<1>0. ask[s].step = "acking" /\ SameTickets
  BY DEF FreePage
<1>1. HasPanel => s # panel.pending
  BY <1>0, AskPlace
<1>2. CASE /\ IsCurrent(s) /\ panel.phase = "Acknowledged"
           /\ panel' = [panel EXCEPT !.phase = "Ready"] /\ GoOn(s, "acked")
  <2>1. HasPanel /\ panel \in PanelRecords /\ panel.current = s
    BY <1>2, AskPlace DEF InSession, IsCurrent
  <2>2. /\ panel' \in PanelRecords /\ SameRoute /\ panel'.pending = panel.pending
        /\ panel'.current = s /\ panel'.newest = panel.newest /\ panel'.phase = "Ready"
    BY <1>2, <2>1 DEF PanelRecords, SameRoute, PanelPhases
  <2>3. /\ ask' \in [PanelRequests -> [step : AskSteps, epoch : Nat]]
        /\ ask'[s].step = "acked" /\ ask'[s].epoch = ask[s].epoch
        /\ panel.pending # NoRequest => ask'[panel.pending] = ask[panel.pending]
    <3>1. panel.pending # NoRequest => panel.pending \in PanelRequests
      BY <2>1 DEF PanelInvariant, AsksOK, SubmissionsOrdered, AskOfSession
    <3>. QED BY <3>1, <1>1, <2>1, <1>2 DEF PanelInvariant, AsksOK, GoOn, AskSteps
  <2>4. AsksOK'
    BY <2>1, <2>2, <2>3, <1>1 DEF AsksOK, SubmissionsOrdered, AskOfSession, SameRoute, PanelInvariant
  <2>. QED BY <2>1, <2>2, <2>4, <1>0, SubmissionFrame
<1>3. CASE UNCHANGED panel /\ (GoOn(s, "ended") \/ GoOn(s, "expired"))
  BY <1>0, <1>1, <1>3, WorkerMoves DEF AskSteps, Shown
<1>. QED BY <1>2, <1>3 DEF FreePage

LEMMA PublishReadyStep ==
  ASSUME PanelInvariant, NEW s \in PanelRequests, PublishReady(s), UNCHANGED pump, FocusAside
  PROVE  PanelInvariant'
<1>0. ask[s].step = "acked" /\ SameTickets /\ \E step \in {"ended", "failed"} : GoOn(s, step)
  BY DEF PublishReady
<1>1. HasPanel => s # panel.pending
  BY <1>0, AskPlace
<1>2. CASE IsCurrent(s) /\ panel' = [panel EXCEPT !.notified = s]
  <2>1. HasPanel /\ panel \in PanelRecords
    BY <1>2, AskPlace DEF InSession, IsCurrent
  <2>2. /\ panel' \in PanelRecords /\ SameRoute /\ panel'.pending = panel.pending
        /\ panel'.current = panel.current /\ panel'.newest = panel.newest
        /\ panel'.phase = panel.phase /\ panel'.opening = panel.opening
    BY <1>2, <2>1 DEF PanelRecords, SameRoute
  <2>3. SameAsks
    BY <2>1, <2>2 DEF SameAsks, SameRoute
  <2>4. AsksOK'
    BY <1>0, <1>1, <2>1, <2>3, AskMoves DEF PanelInvariant, AskSteps, Shown
  <2>. QED BY <2>1, <2>2, <2>4, <1>0, SubmissionFrame
<1>3. CASE UNCHANGED panel
  BY <1>0, <1>1, <1>3, WorkerMoves DEF AskSteps, Shown
<1>. QED BY <1>2, <1>3 DEF PublishReady

LEMMA RollBackStep ==
  ASSUME PanelInvariant, NEW s \in PanelRequests, RollBack(s), UNCHANGED pump, FocusAside
  PROVE  PanelInvariant'
<1>0. /\ ask[s].step \in {"failed", "expired"} /\ GoOn(s, "ended")
      /\ UNCHANGED <<panels, hideIds, hideTimers, hides, panelMain>>
  BY DEF RollBack
<1>1. HasPanel => s # panel.pending
  BY <1>0, AskPlace
<1>2. CASE EndPanel
  <2>1. panel' = NoPanel /\ hideTicket' = NoHide /\ ~HasPanel'
    BY <1>2 DEF EndPanel, HasPanel
  <2>2. PanelOK'
    BY <1>0, <2>1 DEF PanelInvariant, PanelOK
  <2>3. AsksOK'
    BY <1>0, <2>1, AskMoves DEF PanelInvariant, SameAsks, AskSteps
  <2>4. KeysOK'
    BY <1>0, <2>1, KeysFrame DEF PanelInvariant, SameKeys, PanelOK
  <2>5. HidesOK'
    BY <1>0, <2>1, HidesDropped DEF PanelInvariant
  <2>6. FocusOK'
    BY <1>0, <1>2, FocusFrame DEF PanelInvariant, SameFocus, FocusAside, EndPanel
  <2>. QED BY <2>2, <2>3, <2>4, <2>5, <2>6 DEF PanelInvariant
<1>3. CASE UNCHANGED <<panel, hideTicket, hostFocus, dormant>>
  BY <1>0, <1>1, <1>3, WorkerMoves DEF AskSteps, Shown, SameTickets, hideVars
<1>. QED BY <1>2, <1>3 DEF RollBack

-----------------------------------------------------------------------------
(* Keys *)

SamePage ==
    /\ panel'.epoch = panel.epoch /\ panel'.phase = panel.phase /\ panel'.opening = panel.opening
    /\ panel'.current = panel.current /\ panel'.pending = panel.pending /\ panel'.newest = panel.newest

\* Keys move the route of the session; a page that fails asks for a hide.
LEMMA RouteFrame ==
  ASSUME PanelInvariant, HasPanel, panel' \in PanelRecords, SamePage, KeysOK', FocusAside,
         UNCHANGED <<panels, hideTicket, hideIds, hideTimers, hostFocus, panelMain, ask>>,
         hides' = hides \/ hides' = Append(hides, Terminal)
  PROVE  PanelInvariant'
<1>1. HasPanel'
  BY DEF HasPanel, PanelRecords, NoPanel
<1>2. PanelOK'
  BY <1>1 DEF PanelInvariant, PanelOK, SamePage
<1>3. AsksOK'
  BY AsksFrame DEF PanelInvariant, SameAsks, SamePage
<1>4. HidesOK'
  <2>1. CASE hides' = hides
    BY <2>1, <1>1, HidesFrame DEF PanelInvariant
  <2>2. CASE hides' = Append(hides, Terminal)
    <3>1. HidesOK /\ hides \in Seq(Nat) /\ hideIds \in Nat /\ Terminal \in Nat
      BY DEF PanelInvariant, HidesOK, Terminal
    <3>2. /\ hides' \in Seq(Nat) /\ DOMAIN hides = 1..Len(hides) /\ Len(hides) \in Nat
          /\ DOMAIN hides' = 1..(Len(hides) + 1) /\ hides'[Len(hides) + 1] = Terminal
          /\ \A i \in DOMAIN hides : i \in DOMAIN hides' /\ hides'[i] = hides[i]
      BY <2>2, <3>1
    <3>3. \A i \in DOMAIN hides' : i \in DOMAIN hides \/ hides'[i] = Terminal
      BY <3>2
    <3>4. hideTicket # NoHide => hideTicket.id # Terminal
      BY <3>1 DEF HidesOK, HideTickets, Terminal
    <3>5. \A i \in DOMAIN hides' : hides'[i] <= hideIds
      BY <3>1, <3>2, <3>3 DEF HidesOK, Terminal
    <3>6. \A i, j \in DOMAIN hides' : hides'[i] = hides'[j] /\ hides'[i] # Terminal => i = j
      BY <3>1, <3>2, <3>3 DEF HidesOK
    <3>. QED BY <1>1, <3>1, <3>2, <3>3, <3>4, <3>5, <3>6 DEF HidesOK
  <2>. QED BY <2>1, <2>2
<1>5. FocusOK'
  BY FocusFrame DEF PanelInvariant, SameFocus, FocusAside
<1>. QED BY <1>2, <1>3, <1>4, <1>5 DEF PanelInvariant

\* What the invariant says of the route of a session.
LEMMA RoutePlace ==
  ASSUME PanelInvariant
  PROVE  /\ KeysOrdered /\ PumpsOrdered /\ KeysAttended /\ pump \in [Pumps -> PumpRecords]
         /\ panels \in Nat
         /\ HasPanel =>
               /\ panel \in PanelRecords /\ panel.flight \in Nat /\ panel.next \in Nat /\ panel.armed \in BOOLEAN
               /\ panel.queue \in Seq(Nat) /\ panel.got \in Seq(Nat) /\ panel.pumping \in BOOLEAN
               /\ panel.epoch \in Nat /\ panel.epoch <= panels
BY Live DEF PanelInvariant, KeysOK, PanelOK, PanelRecords

\* A pump that fails still has to say so.
LEMMA PumpFails ==
  ASSUME PanelInvariant, NEW p \in Pumps, pump[p].step \in {"focus", "send", "sent", "waiting"},
         PumpTo(p, "failed"), UNCHANGED <<panel, panels>>
  PROVE  KeysOK'
<1>1. /\ pump' \in [Pumps -> PumpRecords] /\ pump'[p].step = "failed"
      /\ pump'[p].epoch = pump[p].epoch /\ pump'[p].key = pump[p].key
      /\ \A q \in Pumps \ {p} : pump'[q] = pump[q]
  BY RoutePlace DEF PumpTo, PumpRecords
<1>2. HasPanel' <=> HasPanel
  BY DEF HasPanel
<1>3. \A q \in Pumps : Serves(q)' <=> Serves(q)
  BY <1>1, <1>2 DEF Serves, InSession
<1>4. KeysOrdered'
  BY <1>2, RoutePlace DEF KeysOrdered, Taken
<1>5. PumpsOrdered'
  <2>1. \A q \in Pumps : pump'[q].key = pump[q].key /\ pump'[q].epoch = pump[q].epoch
    BY <1>1
  <2>2. \A q \in Pumps : pump'[q].step = "failed" \/ pump'[q].step = pump[q].step
    BY <1>1
  <2>. QED BY <1>3, <2>1, <2>2, RoutePlace DEF PumpsOrdered
<1>6. KeysAttended'
  <2>1. \A q \in Pumps : pump[q].step = "claim" => pump'[q].step = "claim"
    BY <1>1
  <2>. QED BY <1>2, <1>3, <2>1, RoutePlace DEF KeysAttended
<1>. QED BY <1>1, <1>4, <1>5, <1>6 DEF KeysOK

\* A pump that rests, looks for a key, or fails with the one it has.
Stops(q) ==
    \/ pump'[q].step \in {"rest", "claim"}
    \/ /\ pump'[q].step \in {pump[q].step, "failed"} /\ pump[q].step \notin {"rest", "claim"}
       /\ pump'[q].key = pump[q].key /\ pump'[q].epoch = pump[q].epoch

\* A route that takes no more keys: its key is cancelled, whoever still carries it.
LEMMA RouteDisarmed ==
  ASSUME PanelInvariant, HasPanel, HasPanel', panels' = panels, panel'.epoch = panel.epoch,
         panel'.phase = panel.phase, panel'.got = panel.got, panel'.flight = panel.flight,
         panel'.next = panel.next, ~panel'.armed, panel'.queue = <<>>, ~panel'.pumping,
         panel.flight # NoKey => panel'.key = "Cancelled",
         pump' \in [Pumps -> PumpRecords],
         \A q \in Pumps : pump'[q].epoch <= panels /\ Stops(q)
  PROVE  KeysOK'
<1>1. \A q \in Pumps : Serves(q)' => /\ Serves(q) /\ pump'[q].key = pump[q].key
                                     /\ pump'[q].step = "failed" \/ pump'[q].step = pump[q].step
  BY RoutePlace DEF Serves, InSession, PumpRecords, Stops
<1>2. PumpsOrdered'
  <2>1. \A q \in Pumps : Serves(q) => panel.flight # NoKey
    BY RoutePlace DEF PumpsOrdered
  <2>. QED BY <1>1, <2>1, RoutePlace DEF PumpsOrdered
<1>3. KeysOrdered'
  BY RoutePlace DEF KeysOrdered
<1>4. KeysAttended'
  BY DEF KeysAttended
<1>. QED BY <1>2, <1>3, <1>4 DEF KeysOK

LEMMA DisarmedOK ==
  ASSUME PanelInvariant, HasPanel, NEW n \in Nat,
         panel' = Disarmed \/ panel' = [Disarmed EXCEPT !.pressed = n]
  PROVE  /\ panel' \in PanelRecords /\ SamePage /\ HasPanel' 
         /\ panel'.got = panel.got /\ panel'.flight = panel.flight
         /\ panel'.next = panel.next /\ ~panel'.armed /\ panel'.queue = <<>> /\ ~panel'.pumping
         /\ panel.flight # NoKey => panel'.key = "Cancelled"
<1>1. panel \in PanelRecords
  BY RoutePlace
<1>a. PICK k \in KeyPhases :
        /\ Disarmed = [panel EXCEPT !.armed = FALSE, !.queue = <<>>, !.pumping = FALSE, !.key = k]
        /\ panel.flight # NoKey => k = "Cancelled"
  <2>1. panel.key \in KeyPhases /\ "Cancelled" \in KeyPhases
    BY <1>1 DEF PanelRecords, KeyPhases
  <2>2. Disarmed = [panel EXCEPT !.armed = FALSE, !.queue = <<>>, !.pumping = FALSE,
                                 !.key = IF panel.flight = NoKey THEN panel.key ELSE "Cancelled"]
    BY DEF Disarmed
  <2>. QED BY <2>1, <2>2
<1>b. <<>> \in Seq(Nat)
  OBVIOUS
<1>2. /\ Disarmed \in PanelRecords /\ Disarmed.epoch = panel.epoch /\ Disarmed.phase = panel.phase
      /\ Disarmed.opening = panel.opening /\ Disarmed.current = panel.current
      /\ Disarmed.pending = panel.pending /\ Disarmed.newest = panel.newest
      /\ Disarmed.got = panel.got /\ Disarmed.flight = panel.flight
      /\ Disarmed.next = panel.next /\ ~Disarmed.armed /\ Disarmed.queue = <<>> /\ ~Disarmed.pumping
      /\ panel.flight # NoKey => Disarmed.key = "Cancelled"
  BY <1>1, <1>a, <1>b DEF PanelRecords
<1>. HIDE DEF Disarmed
<1>3. panel' \in PanelRecords
  BY <1>2 DEF PanelRecords
<1>4. HasPanel'
  BY <1>3 DEF HasPanel, PanelRecords, NoPanel
<1>. QED BY <1>2, <1>3, <1>4 DEF PanelRecords, SamePage

\* A press that changes neither the route nor the pumps.
LEMMA PressDropped ==
  ASSUME PanelInvariant, PressKey, DropKey \/ DropKeyWhenFull, FocusAside
  PROVE  PanelInvariant'
<1>1. HasPanel /\ panel \in PanelRecords
  BY RoutePlace DEF PressKey
<1>2. UNCHANGED <<pump, panelMain, panels, hideIds, hideTimers, hides, ask>>
  BY DEF PressKey, DropKey, DropKeyWhenFull
<1>3. /\ panel' \in PanelRecords /\ SamePage /\ SameRoute
  <2>1. Sent \in Nat
    BY <1>1 DEF Sent, PanelRecords
  <2>2. CASE panel' = [panel EXCEPT !.pressed = Sent]
    BY <1>1, <2>1, <2>2 DEF PanelRecords, SamePage, SameRoute
  <2>3. CASE panel' = [panel EXCEPT !.pressed = Sent, !.expected = @ + 1]
    <3>. DEFINE X == panel.expected + 1
    <3>1. X \in Nat /\ panel' = [panel EXCEPT !.pressed = Sent, !.expected = X]
      BY <1>1, <2>3 DEF PanelRecords
    <3>. HIDE DEF X
    <3>. QED BY <1>1, <2>1, <3>1 DEF PanelRecords, SamePage, SameRoute
  <2>. QED BY <2>2, <2>3 DEF DropKey, DropKeyWhenFull
<1>4. panel' # NoPanel
  BY <1>3 DEF PanelRecords, NoPanel
<1>5. KeysOK'
  BY <1>1, <1>2, <1>3, KeysFrame, RoutePlace DEF PanelInvariant, SameKeys, SameRoute
<1>6. UNCHANGED <<hideTicket, hostFocus>>
  BY <1>4 DEF PressKey
<1>. QED BY <1>1, <1>2, <1>3, <1>5, <1>6, RouteFrame

LEMMA PressQueued ==
  ASSUME PanelInvariant, PressKey, QueueKey, FocusAside
  PROVE  PanelInvariant'
<1>1. /\ HasPanel /\ panel \in PanelRecords /\ panel.armed /\ panel.phase = "Ready"
      /\ UNCHANGED <<panelMain, panels, hideIds, hideTimers, hides, ask>>
  BY RoutePlace DEF PressKey, QueueKey, InSequence, Routed
<1>2. /\ panel' = [panel EXCEPT !.pressed = Sent, !.expected = @ + 1, !.next = @ + 1,
                                !.queue = Append(@, panel.next), !.pumping = TRUE]
      /\ IF panel.pumping THEN UNCHANGED pump
         ELSE \E p \in {q \in Pumps : pump[q] = NoPump} : pump' = [pump EXCEPT ![p].step = "claim"]
  BY DEF QueueKey
<1>3. /\ panel.next \in Nat /\ panel.queue \in Seq(Nat) /\ Sent \in Nat /\ panel.expected + 1 \in Nat
      /\ panel.next + 1 \in Nat \ {0} /\ Append(panel.queue, panel.next) \in Seq(Nat)
  <2>1. panel.next \in Nat /\ panel.queue \in Seq(Nat) /\ panel.pressed \in Nat /\ panel.expected \in Nat
    BY <1>1 DEF PanelRecords
  <2>. QED BY <2>1 DEF Sent
<1>4. /\ panel' \in PanelRecords /\ SamePage
      /\ panel'.next = panel.next + 1 /\ panel'.queue = Append(panel.queue, panel.next)
      /\ panel'.pumping = TRUE /\ panel'.armed = TRUE /\ panel'.got = panel.got
      /\ panel'.flight = panel.flight /\ panel'.key = panel.key
  <2>. DEFINE N == panel.next + 1
              Q == Append(panel.queue, panel.next)
              X == panel.expected + 1
  <2>1. /\ N \in Nat \ {0} /\ Q \in Seq(Nat) /\ X \in Nat /\ Sent \in Nat
        /\ panel' = [panel EXCEPT !.pressed = Sent, !.expected = X, !.next = N, !.queue = Q, !.pumping = TRUE]
    BY <1>2, <1>3
  <2>2. panel.armed = TRUE
    BY <1>1 DEF PanelRecords
  <2>. HIDE DEF N, Q, X
  <2>3. /\ panel' \in PanelRecords /\ SamePage
        /\ panel'.next = N /\ panel'.queue = Q
        /\ panel'.pumping = TRUE /\ panel'.armed = panel.armed /\ panel'.got = panel.got
        /\ panel'.flight = panel.flight /\ panel'.key = panel.key
    BY <1>1, <2>1 DEF PanelRecords, SamePage
  <2>. QED BY <2>2, <2>3 DEF N, Q
<1>5. panel' # NoPanel /\ HasPanel'
  BY <1>4 DEF PanelRecords, NoPanel, HasPanel
<1>6. /\ pump' \in [Pumps -> PumpRecords] /\ \E p \in Pumps : panel.pumping \/ pump'[p].step = "claim"
      /\ \A q \in Pumps : \/ pump'[q] = pump[q]
                          \/ /\ pump[q].step = "rest" /\ pump'[q].step = "claim"
                             /\ pump'[q].epoch = pump[q].epoch
  <2>1. CASE panel.pumping
    <3>1. \E p \in Pumps : TRUE
      BY <1>1, <2>1, RoutePlace DEF KeysAttended
    <3>. QED BY <2>1, <3>1, <1>2, RoutePlace
  <2>2. CASE ~panel.pumping
    <3>1. PICK p \in Pumps : pump[p] = NoPump /\ pump' = [pump EXCEPT ![p].step = "claim"]
      BY <2>2, <1>2
    <3>. QED BY <3>1, RoutePlace DEF NoPump, PumpRecords
  <2>. QED BY <2>1, <2>2
<1>7. \A q \in Pumps : /\ Serves(q)' <=> Serves(q)
                       /\ Serves(q) => pump'[q] = pump[q]
  BY <1>1, <1>4, <1>5, <1>6 DEF Serves, InSession, SamePage
<1>8. KeysOrdered'
  <2>1. /\ panel.queue \in Seq(Nat) /\ panel.next \in Nat /\ panel.flight \in Nat
        /\ Len(panel.queue) \in Nat /\ KeysOrdered
    BY <1>1, RoutePlace
  <2>2. Taken' = Taken
    BY <2>1, <1>4 DEF Taken
  <2>3. \A i \in DOMAIN panel'.queue : panel'.queue[i] = Taken + i
    <3>1. \A i \in DOMAIN panel.queue : panel.queue[i] = Taken + i
      BY <2>1, <1>1 DEF KeysOrdered
    <3>2. panel.next = Taken + Len(panel.queue) + 1
      BY <2>1 DEF Taken
    <3>3. /\ DOMAIN panel'.queue = 1..(Len(panel.queue) + 1) /\ DOMAIN panel.queue = 1..Len(panel.queue)
          /\ \A i \in DOMAIN panel.queue : panel'.queue[i] = panel.queue[i]
          /\ panel'.queue[Len(panel.queue) + 1] = panel.next
      BY <2>1, <1>4
    <3>4. \A i \in DOMAIN panel'.queue : i \in DOMAIN panel.queue \/ i = Len(panel.queue) + 1
      BY <3>3, <2>1
    <3>5. Taken \in Int
      BY <2>1 DEF Taken
    <3>. QED BY <3>1, <3>2, <3>3, <3>4, <3>5, <2>1
  <2>4. panel'.phase # "AwaitingReady"
    BY <1>1, <1>4 DEF SamePage
  <2>. HIDE DEF Taken
  <2>5. /\ panel.flight = NoKey => Len(panel.got) = Taken
        /\ panel.flight # NoKey => panel.flight = Taken
        /\ panel.flight # NoKey =>
              /\ Len(panel.got) \in {panel.flight - 1, panel.flight}
              /\ panel.key \in {"Delivered", "Accomplished"} => Len(panel.got) = panel.flight
              /\ panel.key = "Prepared" => Len(panel.got) = panel.flight - 1
        /\ panel.got # <<>> => panel.got[Len(panel.got)] = Len(panel.got)
    BY <2>1, <1>1 DEF KeysOrdered
  <2>. QED BY <2>2, <2>3, <2>4, <2>5, <1>4 DEF KeysOrdered
<1>9. PumpsOrdered'
  <2>1. \A q \in Pumps : pump'[q].epoch <= panels'
    BY <1>1, <1>6, RoutePlace DEF PumpsOrdered
  <2>. QED BY <2>1, <1>7, <1>4, RoutePlace DEF PumpsOrdered
<1>10. KeysAttended'
  <2>1. panel.pumping /\ panel.flight = NoKey => \E p \in Pumps : pump'[p].step = "claim"
    BY <1>1, <1>6, RoutePlace DEF KeysAttended
  <2>. QED BY <2>1, <1>1, <1>4, <1>6, <1>7, RoutePlace DEF KeysAttended
<1>11. KeysOK'
  BY <1>6, <1>8, <1>9, <1>10 DEF KeysOK
<1>12. UNCHANGED <<hideTicket, hostFocus>>
  BY <1>5 DEF PressKey
<1>. QED BY <1>1, <1>4, <1>11, <1>12, RouteFrame

LEMMA PressRefused ==
  ASSUME PanelInvariant, PressKey, RefuseKey, FocusAside
  PROVE  PanelInvariant'
<1>1. HasPanel /\ panel \in PanelRecords /\ UNCHANGED <<pump, panels, hideIds, hideTimers, hides, ask>>
  BY RoutePlace DEF PressKey, RefuseKey
<1>2. CASE panel' = NoPanel /\ panelMain' = <<"hiding">>
  <2>1. EndPanel
    BY <1>2 DEF PressKey, EndPanel
  <2>2. SameFocus
    BY <1>2, <2>1 DEF SameFocus, FocusAside, EndPanel, AtRest, PressKey, PanelMainIdle
  <2>. QED BY <1>1, <2>1, <2>2, SessionEnds
<1>3. CASE panel' = [Disarmed EXCEPT !.pressed = Sent] /\ UNCHANGED panelMain
  <2>1. Sent \in Nat
    BY <1>1 DEF Sent, PanelRecords
  <2>2. /\ panel' \in PanelRecords /\ SamePage /\ HasPanel'
        /\ panel'.got = panel.got /\ panel'.flight = panel.flight
        /\ panel'.next = panel.next /\ ~panel'.armed /\ panel'.queue = <<>> /\ ~panel'.pumping
        /\ panel.flight # NoKey => panel'.key = "Cancelled"
    BY <1>1, <1>3, <2>1, DisarmedOK
  <2>3. \A q \in Pumps : pump'[q] = pump[q] /\ pump[q] \in PumpRecords /\ pump[q].epoch <= panels
    BY <1>1, RoutePlace DEF PumpsOrdered
  <2>4. KeysOK'
    <3>1. /\ pump' \in [Pumps -> PumpRecords] /\ panels' = panels /\ panel'.epoch = panel.epoch
          /\ panel'.phase = panel.phase
      BY <1>1, <2>2, RoutePlace DEF SamePage
    <3>2. \A q \in Pumps : pump'[q].epoch <= panels /\ Stops(q)
      BY <2>3 DEF Stops, PumpRecords
    <3>. QED BY <1>1, <2>2, <3>1, <3>2, RouteDisarmed
  <2>5. panel' # NoPanel
    BY <2>2 DEF HasPanel
  <2>6. UNCHANGED <<hideTicket, hostFocus>>
    BY <2>5 DEF PressKey
  <2>. QED BY <1>1, <1>3, <2>2, <2>4, <2>6, RouteFrame
<1>. QED BY <1>2, <1>3 DEF RefuseKey

LEMMA ClaimKeyStep ==
  ASSUME PanelInvariant, NEW p \in Pumps, ClaimKey(p), FocusAside
  PROVE  PanelInvariant'
<1>. USE DEF SameSession, hideVars
<1>0. pump[p].step = "claim" /\ SameSession
  BY DEF ClaimKey
<1>1. CASE /\ HasPanel /\ panel.armed /\ panel.flight = NoKey /\ panel.queue # <<>>
           /\ panel' = [panel EXCEPT !.queue = Tail(@), !.flight = Head(panel.queue), !.key = "Prepared"]
           /\ pump' = [pump EXCEPT ![p] = [step |-> "focus", epoch |-> panel.epoch, key |-> Head(panel.queue)]]
  <2>. DEFINE K == Head(panel.queue)
              Q == Tail(panel.queue)
  <2>1. /\ panel \in PanelRecords /\ panel.queue \in Seq(Nat) /\ Len(panel.queue) \in Nat \ {0}
        /\ K \in Nat /\ Q \in Seq(Nat) /\ Len(Q) = Len(panel.queue) - 1
        /\ DOMAIN panel.queue = 1..Len(panel.queue) /\ DOMAIN Q = 1..Len(Q) /\ K = panel.queue[1]
        /\ \A i \in DOMAIN Q : i + 1 \in DOMAIN panel.queue /\ Q[i] = panel.queue[i + 1]
    BY <1>1, RoutePlace
  <2>2. /\ Taken \in Nat /\ Len(panel.got) = Taken /\ panel.next \in Nat
        /\ \A i \in DOMAIN panel.queue : panel.queue[i] = Taken + i
        /\ panel.got # <<>> => panel.got[Len(panel.got)] = Len(panel.got)
    BY <1>1, RoutePlace DEF KeysOrdered
  <2>3. K = Taken + 1 /\ K # NoKey
    BY <2>1, <2>2 DEF NoKey
  <2>4. /\ panel' = [panel EXCEPT !.queue = Q, !.flight = K, !.key = "Prepared"]
        /\ pump' = [pump EXCEPT ![p] = [step |-> "focus", epoch |-> panel.epoch, key |-> K]]
        /\ panel.epoch \in Nat /\ panel.epoch <= panels /\ InSession(panel.epoch)
    BY <1>1, RoutePlace DEF InSession
  <2>5. /\ \A i \in DOMAIN Q : Q[i] = Taken + 1 + i
        /\ panel.next - Len(Q) - 1 = Taken + 1
    <3>1. \A i \in DOMAIN Q : i \in Nat /\ Q[i] = Taken + (i + 1)
      BY <2>1, <2>2
    <3>2. panel.next - Len(Q) - 1 = Taken + 1
      BY <2>1, <2>2 DEF Taken
    <3>. QED BY <3>1, <3>2, <2>2
  <2>. HIDE DEF K, Q
  <2>6. /\ panel' \in PanelRecords /\ SamePage
        /\ panel'.next = panel.next /\ panel'.queue = Q /\ panel'.flight = K /\ panel'.key = "Prepared"
        /\ panel'.pumping = panel.pumping /\ panel'.armed = panel.armed /\ panel'.got = panel.got
    BY <2>1, <2>4 DEF PanelRecords, SamePage, KeyPhases
  <2>7. HasPanel' /\ panels' = panels
    BY <2>6, <1>0 DEF HasPanel, PanelRecords, NoPanel
  <2>8. /\ pump' \in [Pumps -> PumpRecords] /\ pump'[p].step = "focus" /\ pump'[p].key = K
        /\ pump'[p].epoch = panel.epoch /\ \A q \in Pumps \ {p} : pump'[q] = pump[q]
    BY <2>1, <2>4, RoutePlace DEF PumpRecords
  <2>9. \A q \in Pumps : ~Serves(q)
    BY <1>1, RoutePlace DEF PumpsOrdered
  <2>10. \A q \in Pumps : Serves(q)' <=> q = p
    BY <2>9, <2>8, <2>7, <2>6, <1>1 DEF Serves, InSession, SamePage
  <2>11. PumpsOrdered'
    <3>1. \A q \in Pumps : pump'[q].epoch <= panels'
      BY <2>4, <2>7, <2>8, RoutePlace DEF PumpsOrdered
    <3>2. Len(panel'.got) = pump'[p].key - 1
      BY <2>2, <2>3, <2>6, <2>8
    <3>. QED BY <3>1, <3>2, <2>3, <2>6, <2>8, <2>10 DEF PumpsOrdered
  <2>12. KeysOrdered'
    <3>1. Taken' = Taken + 1
      BY <2>5, <2>6 DEF Taken
    <3>2. panel'.phase # "AwaitingReady"
      BY <1>1, <2>6, RoutePlace DEF KeysOrdered, SamePage
    <3>. HIDE DEF Taken
    <3>3. Len(panel'.got) = panel'.flight - 1
      BY <2>2, <2>3, <2>6
    <3>4. panel'.flight = Taken' /\ panel'.flight # NoKey
      BY <3>1, <2>3, <2>6
    <3>5. \A i \in DOMAIN panel'.queue : panel'.queue[i] = Taken' + i
      BY <3>1, <2>5, <2>6
    <3>6. panel'.got # <<>> => panel'.got[Len(panel'.got)] = Len(panel'.got)
      BY <2>2, <2>6
    <3>. QED BY <3>2, <3>3, <3>4, <3>5, <3>6, <2>6, <1>1 DEF KeysOrdered
  <2>13. KeysAttended'
    BY <1>1, <2>3, <2>6, <2>8, <2>10, RoutePlace DEF KeysAttended
  <2>14. KeysOK'
    BY <2>8, <2>11, <2>12, <2>13 DEF KeysOK
  <2>. QED BY <1>0, <1>1, <2>6, <2>14, RouteFrame
<1>2. CASE /\ PumpEnds(p)
           /\ \/ UNCHANGED panel /\ ~(HasPanel /\ panel.armed /\ panel.flight = NoKey)
              \/ /\ HasPanel /\ panel.armed /\ panel.flight = NoKey /\ panel.queue = <<>>
                 /\ panel' = [panel EXCEPT !.pumping = FALSE]
  <2>1. /\ pump' \in [Pumps -> PumpRecords] /\ pump'[p].step = "rest" /\ pump'[p].epoch = 0
        /\ \A q \in Pumps \ {p} : pump'[q] = pump[q]
    BY <1>2, RoutePlace DEF PumpEnds, NoPump, PumpRecords, NoKey
  <2>2. /\ HasPanel =>
              /\ panel' \in PanelRecords /\ SamePage
              /\ panel'.next = panel.next /\ panel'.queue = panel.queue /\ panel'.flight = panel.flight
              /\ panel'.key = panel.key /\ panel'.armed = panel.armed /\ panel'.got = panel.got
              /\ panel'.pumping = panel.pumping \/ panel'.pumping = FALSE
        /\ ~HasPanel => UNCHANGED panel
    BY <1>2, RoutePlace DEF PanelRecords, SamePage
  <2>3. HasPanel' <=> HasPanel
    BY <2>2 DEF HasPanel, PanelRecords, NoPanel
  <2>4. \A q \in Pumps : Serves(q)' <=> Serves(q)
    BY <1>0, <2>1, <2>2, <2>3 DEF Serves, InSession, SamePage
  <2>5. \A q \in Pumps : Serves(q) => pump'[q] = pump[q]
    BY <1>0, <2>1 DEF Serves
  <2>6. PumpsOrdered'
    <3>1. \A q \in Pumps : pump'[q].epoch <= panels'
      BY <1>0, <2>1, RoutePlace DEF PumpsOrdered
    <3>2. \A q \in Pumps : Serves(q) => HasPanel
      BY DEF Serves, InSession
    <3>. QED BY <3>1, <3>2, <2>2, <2>4, <2>5, RoutePlace DEF PumpsOrdered
  <2>7. KeysOrdered'
    BY <2>2, <2>3, RoutePlace DEF KeysOrdered, Taken, SamePage
  <2>8. KeysAttended'
    <3>1. HasPanel /\ panel.armed /\ panel.flight = NoKey => ~panel'.pumping /\ panel'.queue = <<>>
      <4>1. HasPanel /\ panel.armed /\ panel.flight = NoKey =>
              panel' = [panel EXCEPT !.pumping = FALSE] /\ panel.queue = <<>> /\ panel \in PanelRecords
        BY <1>2, RoutePlace
      <4>. QED BY <4>1 DEF PanelRecords
    <3>2. HasPanel /\ panel.flight # NoKey /\ panel.armed => UNCHANGED panel
      BY <1>2
    <3>. QED BY <3>1, <3>2, <2>2, <2>3, <2>4, RoutePlace DEF KeysAttended
  <2>9. KeysOK'
    BY <2>1, <2>6, <2>7, <2>8 DEF KeysOK
  <2>10. CASE HasPanel
    BY <1>0, <2>2, <2>9, <2>10, RouteFrame
  <2>11. CASE ~HasPanel
    <3>1. PanelOK'
      BY <1>0, <2>2, <2>3, <2>11 DEF PanelInvariant, PanelOK
    <3>2. AsksOK'
      BY <1>0, <2>3, <2>11, AsksFrame DEF PanelInvariant, SameAsks
    <3>3. HidesOK'
      BY <1>0, <2>11, HidesFrame DEF PanelInvariant
    <3>4. FocusOK'
      BY <1>0, FocusFrame DEF PanelInvariant, SameFocus, FocusAside
    <3>. QED BY <2>9, <3>1, <3>2, <3>3, <3>4 DEF PanelInvariant
  <2>. QED BY <2>10, <2>11
<1>. QED BY <1>0, <1>1, <1>2 DEF ClaimKey

\* Pumps that leave the panel alone.
LEMMA PumpFrame ==
  ASSUME PanelInvariant, UNCHANGED panel, SameSession, KeysOK', FocusAside
  PROVE  PanelInvariant'
<1>. USE DEF SameSession, hideVars
<1>1. PanelOK' /\ (HasPanel' <=> HasPanel)
  BY DEF PanelInvariant, PanelOK, HasPanel
<1>2. AsksOK'
  BY <1>1, AsksFrame DEF PanelInvariant, SameAsks
<1>3. HidesOK'
  BY <1>1, HidesFrame DEF PanelInvariant
<1>4. FocusOK'
  BY FocusFrame DEF PanelInvariant, SameFocus, FocusAside
<1>. QED BY <1>1, <1>2, <1>3, <1>4 DEF PanelInvariant

\* How far the key in flight has come, by the phase of its ticket, and by the step
\* of the pump that serves it.
KeyProgress ==
    /\ panel.got # <<>> => panel.got[Len(panel.got)] = Len(panel.got)
    /\ Len(panel.got) \in {panel.flight - 1, panel.flight}
    /\ panel.key \in {"Delivered", "Accomplished"} => Len(panel.got) = panel.flight
    /\ panel.key = "Prepared" => Len(panel.got) = panel.flight - 1
    /\ panel.armed => panel.key \notin {"Cancelled", "none"}
StepProgress(step) ==
    /\ step = "focus" => Len(panel.got) = panel.flight - 1 /\ panel.key \in {"Prepared", "Cancelled"}
    /\ step = "send" => Len(panel.got) = panel.flight - 1 /\ panel.key \in {"ReadyToDeliver", "Cancelled"}
    /\ step = "sent" => /\ Len(panel.got) = panel.flight
                        /\ panel.key \in {"ReadyToDeliver", "Accomplished", "Cancelled"}
    /\ step = "waiting" => panel.key \in {"Delivered", "Accomplished", "Cancelled"}

\* The one pump that serves the key of the session.
LEMMA Server ==
  ASSUME PanelInvariant, NEW p \in Pumps, Serves(p)
  PROVE  /\ HasPanel /\ panel \in PanelRecords /\ panel.flight # NoKey /\ panel.flight = pump[p].key
         /\ panel.phase # "AwaitingReady"
         /\ pump[p].epoch = panel.epoch /\ KeyProgress /\ StepProgress(pump[p].step)
         /\ \A q \in Pumps \ {p} : ~Serves(q)
<1>1. HasPanel /\ panel \in PanelRecords /\ pump[p].epoch = panel.epoch
  BY RoutePlace DEF Serves, InSession
<1>2. /\ panel.flight # NoKey /\ panel.flight = pump[p].key /\ StepProgress(pump[p].step)
      /\ \A q \in Pumps \ {p} : ~Serves(q)
  BY RoutePlace DEF PumpsOrdered, StepProgress
<1>3. KeyProgress /\ panel.phase # "AwaitingReady"
  BY <1>1, <1>2, RoutePlace DEF KeyProgress, KeysOrdered, KeysAttended
<1>. QED BY <1>1, <1>2, <1>3

\* It goes on with the same key.
LEMMA ServerMoves ==
  ASSUME PanelInvariant, NEW p \in Pumps, Serves(p), SameSession, FocusAside,
         NEW step \in {"focus", "send", "sent", "waiting", "failed"},
         pump' = [pump EXCEPT ![p].step = step],
         panel' \in PanelRecords, SamePage, panel'.next = panel.next, panel'.queue = panel.queue,
         panel'.flight = panel.flight, panel'.armed = panel.armed, panel'.pumping = panel.pumping,
         KeyProgress', StepProgress(step)'
  PROVE  PanelInvariant'
<1>. USE DEF SameSession, hideVars
<1>1. /\ HasPanel /\ panel \in PanelRecords /\ panel.flight # NoKey /\ panel.flight = pump[p].key
      /\ panel.phase # "AwaitingReady"
      /\ pump[p].epoch = panel.epoch /\ \A q \in Pumps \ {p} : ~Serves(q)
  BY Server
<1>2. HasPanel'
  BY DEF HasPanel, PanelRecords, NoPanel
<1>3. /\ pump' \in [Pumps -> PumpRecords] /\ pump'[p].step = step /\ pump'[p].epoch = pump[p].epoch
      /\ pump'[p].key = pump[p].key /\ \A q \in Pumps \ {p} : pump'[q] = pump[q]
  BY RoutePlace DEF PumpRecords
<1>4. \A q \in Pumps : Serves(q)' <=> q = p
  BY <1>1, <1>2, <1>3 DEF Serves, InSession, SamePage
<1>5. KeysOrdered'
  BY <1>1, <1>2, RoutePlace DEF KeysOrdered, Taken, KeyProgress, SamePage
<1>6. PumpsOrdered'
  <2>1. \A q \in Pumps : pump'[q].epoch <= panels'
    BY <1>3, RoutePlace DEF PumpsOrdered
  <2>. QED BY <2>1, <1>1, <1>3, <1>4 DEF PumpsOrdered, StepProgress
<1>7. KeysAttended'
  BY <1>1, <1>4, RoutePlace DEF KeysAttended, KeyProgress
<1>8. KeysOK'
  BY <1>3, <1>5, <1>6, <1>7 DEF KeysOK
<1>. QED BY <1>1, <1>8, RouteFrame

LEMMA FocusPageStep ==
  ASSUME PanelInvariant, NEW p \in Pumps, FocusPage(p), FocusAside
  PROVE  PanelInvariant'
<1>0. pump[p].step = "focus" /\ SameSession
  BY DEF FocusPage
<1>1. CASE /\ Carries(p, {"Prepared"}) /\ panel' = [panel EXCEPT !.key = "ReadyToDeliver"]
           /\ PumpTo(p, "send")
  <2>1. Serves(p) /\ panel.key = "Prepared"
    BY <1>0, <1>1 DEF Serves, Carries, Owns
  <2>2. /\ panel \in PanelRecords /\ panel.flight \in Nat /\ KeyProgress
        /\ StepProgress("focus")
    BY <2>1, <1>0, Server, RoutePlace
  <2>3. /\ panel' \in PanelRecords /\ SamePage /\ panel'.next = panel.next /\ panel'.queue = panel.queue
        /\ panel'.flight = panel.flight /\ panel'.armed = panel.armed /\ panel'.pumping = panel.pumping
        /\ panel'.got = panel.got /\ panel'.key = "ReadyToDeliver"
    BY <1>1, <2>2 DEF PanelRecords, SamePage, KeyPhases
  <2>4. KeyProgress' /\ StepProgress("send")'
    BY <2>2, <2>3 DEF KeyProgress, StepProgress
  <2>. QED BY <1>0, <1>1, <2>1, <2>3, <2>4, ServerMoves DEF PumpTo
<1>2. CASE PumpTo(p, "failed") /\ UNCHANGED panel
  BY <1>0, <1>2, PumpFails, PumpFrame DEF SameSession
<1>. QED BY <1>1, <1>2 DEF FocusPage

LEMMA SendKeyStep ==
  ASSUME PanelInvariant, NEW p \in Pumps, SendKey(p), FocusAside
  PROVE  PanelInvariant'
<1>0. pump[p].step = "send" /\ SameSession
  BY DEF SendKey
<1>1. CASE InSession(pump[p].epoch) /\ panel' = [panel EXCEPT !.got = Append(@, pump[p].key)] /\ PumpTo(p, "sent")
  <2>. DEFINE G == Append(panel.got, pump[p].key)
  <2>1. Serves(p)
    BY <1>0, <1>1 DEF Serves
  <2>2. /\ panel \in PanelRecords /\ panel.flight \in Nat \ {0} /\ KeyProgress
        /\ StepProgress("send") /\ panel.flight = pump[p].key /\ panel.got \in Seq(Nat)
    BY <2>1, <1>0, Server, RoutePlace DEF NoKey
  <2>3. /\ G \in Seq(Nat) /\ Len(G) = panel.flight /\ G[Len(G)] = panel.flight
    BY <2>2 DEF StepProgress
  <2>4. panel' = [panel EXCEPT !.got = G]
    BY <1>1
  <2>. HIDE DEF G
  <2>5. /\ panel' \in PanelRecords /\ SamePage /\ panel'.next = panel.next /\ panel'.queue = panel.queue
        /\ panel'.flight = panel.flight /\ panel'.armed = panel.armed /\ panel'.pumping = panel.pumping
        /\ panel'.got = G /\ panel'.key = panel.key
    BY <2>2, <2>3, <2>4 DEF PanelRecords, SamePage
  <2>6. KeyProgress' /\ StepProgress("sent")'
    BY <2>2, <2>3, <2>5 DEF KeyProgress, StepProgress
  <2>. QED BY <1>0, <1>1, <2>1, <2>5, <2>6, ServerMoves DEF PumpTo
<1>2. CASE PumpTo(p, "sent") /\ UNCHANGED panel /\ ~InSession(pump[p].epoch)
  <2>1. /\ pump' \in [Pumps -> PumpRecords] /\ pump'[p].epoch = pump[p].epoch
        /\ pump'[p].step = "sent" /\ \A q \in Pumps \ {p} : pump'[q] = pump[q]
    BY <1>2, RoutePlace DEF PumpTo, PumpRecords
  <2>2. HasPanel' <=> HasPanel
    BY <1>2 DEF HasPanel
  <2>3. \A q \in Pumps : /\ Serves(q)' <=> Serves(q)
                         /\ Serves(q) => q # p
    BY <1>2, <2>1, <2>2 DEF Serves, InSession
  <2>4. KeysOrdered'
    BY <1>2, <2>2, RoutePlace DEF KeysOrdered, Taken
  <2>5. PumpsOrdered'
    <3>1. \A q \in Pumps : pump'[q].epoch <= panels'
      BY <1>0, <2>1, RoutePlace DEF PumpsOrdered, SameSession
    <3>. QED BY <3>1, <1>2, <2>1, <2>3, RoutePlace DEF PumpsOrdered
  <2>6. KeysAttended'
    <3>1. \A q \in Pumps : pump[q].step = "claim" => pump'[q].step = "claim"
      BY <1>0, <2>1
    <3>. QED BY <1>2, <2>2, <2>3, <3>1, RoutePlace DEF KeysAttended
  <2>7. KeysOK'
    BY <2>1, <2>4, <2>5, <2>6 DEF KeysOK
  <2>. QED BY <1>0, <1>2, <2>7, PumpFrame
<1>3. CASE PumpTo(p, "failed") /\ UNCHANGED panel
  BY <1>0, <1>3, PumpFails, PumpFrame DEF SameSession
<1>. QED BY <1>1, <1>2, <1>3 DEF SendKey

LEMMA MarkDeliveredStep ==
  ASSUME PanelInvariant, NEW p \in Pumps, MarkDelivered(p), FocusAside
  PROVE  PanelInvariant'
<1>0. pump[p].step = "sent" /\ SameSession
  BY DEF MarkDelivered
<1>1. CASE /\ Carries(p, {"ReadyToDeliver"}) /\ panel' = [panel EXCEPT !.key = "Delivered"]
           /\ PumpTo(p, "waiting")
  <2>1. Serves(p)
    BY <1>0, <1>1 DEF Serves, Carries, Owns
  <2>2. /\ panel \in PanelRecords /\ panel.flight \in Nat /\ KeyProgress
        /\ StepProgress("sent")
    BY <2>1, <1>0, Server, RoutePlace
  <2>3. /\ panel' \in PanelRecords /\ SamePage /\ panel'.next = panel.next /\ panel'.queue = panel.queue
        /\ panel'.flight = panel.flight /\ panel'.armed = panel.armed /\ panel'.pumping = panel.pumping
        /\ panel'.got = panel.got /\ panel'.key = "Delivered"
    BY <1>1, <2>2 DEF PanelRecords, SamePage, KeyPhases
  <2>4. KeyProgress' /\ StepProgress("waiting")'
    BY <2>2, <2>3 DEF KeyProgress, StepProgress
  <2>. QED BY <1>0, <1>1, <2>1, <2>3, <2>4, ServerMoves DEF PumpTo
<1>2. CASE Carries(p, {"Accomplished"}) /\ PumpTo(p, "waiting") /\ UNCHANGED panel
  <2>1. Serves(p) /\ panel.key = "Accomplished"
    BY <1>0, <1>2 DEF Serves, Carries, Owns
  <2>2. panel \in PanelRecords /\ KeyProgress
    BY <2>1, Server
  <2>3. KeyProgress' /\ StepProgress("waiting")' /\ SamePage
    BY <1>2, <2>1, <2>2 DEF KeyProgress, StepProgress, SamePage
  <2>. QED BY <1>0, <1>2, <2>1, <2>2, <2>3, ServerMoves DEF PumpTo
<1>3. CASE PumpTo(p, "failed") /\ UNCHANGED panel
  BY <1>0, <1>3, PumpFails, PumpFrame DEF SameSession
<1>. QED BY <1>1, <1>2, <1>3 DEF MarkDelivered

LEMMA PageAcksKeyStep ==
  ASSUME PanelInvariant, PageAcksKey, FocusAside
  PROVE  PanelInvariant'
<1>0. /\ HasPanel /\ panel.flight # NoKey /\ panel.key \in {"ReadyToDeliver", "Delivered"}
      /\ panel.got # <<>> /\ panel.got[Len(panel.got)] = panel.flight
      /\ panel' = [panel EXCEPT !.key = "Accomplished"] /\ pump' = pump /\ SameSession
  BY DEF PageAcksKey
<1>1. panel \in PanelRecords /\ Len(panel.got) = panel.flight /\ panel.flight \in Nat
  BY <1>0, RoutePlace DEF KeysOrdered
<1>2. /\ panel' \in PanelRecords /\ SamePage /\ panel'.next = panel.next /\ panel'.queue = panel.queue
      /\ panel'.flight = panel.flight /\ panel'.armed = panel.armed /\ panel'.pumping = panel.pumping
      /\ panel'.got = panel.got /\ panel'.key = "Accomplished"
  BY <1>0, <1>1 DEF PanelRecords, SamePage, KeyPhases
<1>3. HasPanel'
  BY <1>2 DEF HasPanel, PanelRecords, NoPanel
<1>4. \A q \in Pumps : Serves(q)' <=> Serves(q)
  BY <1>0, <1>2, <1>3 DEF Serves, InSession, SamePage
<1>5. KeysOrdered'
  BY <1>0, <1>1, <1>2, RoutePlace DEF KeysOrdered, Taken, SamePage
<1>6. PumpsOrdered'
  <2>1. \A q \in Pumps : Serves(q) => pump[q].step \notin {"focus", "send"}
    <3>. SUFFICES ASSUME NEW q \in Pumps, Serves(q)
                  PROVE  pump[q].step \notin {"focus", "send"}
      OBVIOUS
    <3>1. StepProgress(pump[q].step)
      BY Server
    <3>. QED BY <3>1, <1>1 DEF StepProgress
  <2>2. panels' = panels
    BY <1>0 DEF SameSession
  <2>. QED BY <1>0, <1>2, <1>4, <2>1, <2>2, RoutePlace DEF PumpsOrdered
<1>7. KeysAttended'
  BY <1>0, <1>2, <1>4, RoutePlace DEF KeysAttended
<1>8. KeysOK'
  BY <1>0, <1>5, <1>6, <1>7, RoutePlace DEF KeysOK
<1>. QED BY <1>0, <1>2, <1>8, RouteFrame DEF SameSession, hideVars

\* A pump that leaves no session without the one that serves it.
LEMMA PumpLeaves ==
  ASSUME PanelInvariant, NEW p \in Pumps, pump[p].step # "claim", PumpEnds(p), UNCHANGED <<panel, panels>>,
         HasPanel /\ panel.armed => ~Serves(p)
  PROVE  KeysOK'
<1>1. /\ pump' \in [Pumps -> PumpRecords] /\ pump'[p].step = "rest" /\ pump'[p].epoch = 0
      /\ \A q \in Pumps \ {p} : pump'[q] = pump[q]
  BY RoutePlace DEF PumpEnds, NoPump, PumpRecords, NoKey
<1>2. HasPanel' <=> HasPanel
  BY DEF HasPanel
<1>3. \A q \in Pumps : Serves(q)' <=> Serves(q) /\ q # p
  BY <1>1, <1>2 DEF Serves, InSession
<1>4. KeysOrdered'
  BY <1>2, RoutePlace DEF KeysOrdered, Taken
<1>5. PumpsOrdered'
  <2>1. \A q \in Pumps : pump'[q].epoch <= panels'
    BY <1>1, RoutePlace DEF PumpsOrdered
  <2>. QED BY <2>1, <1>1, <1>3, RoutePlace DEF PumpsOrdered
<1>6. KeysAttended'
  <2>1. \A q \in Pumps : pump[q].step = "claim" => pump'[q].step = "claim"
    BY <1>1
  <2>. QED BY <2>1, <1>2, <1>3, RoutePlace DEF KeysAttended
<1>. QED BY <1>1, <1>4, <1>5, <1>6 DEF KeysOK

LEMMA AwaitKeyAckStep ==
  ASSUME PanelInvariant, NEW p \in Pumps, AwaitKeyAck(p), FocusAside
  PROVE  PanelInvariant'
<1>0. pump[p].step = "waiting" /\ SameSession
  BY DEF AwaitKeyAck
<1>1. CASE /\ Carries(p, {"Accomplished"})
           /\ panel' = [panel EXCEPT !.flight = NoKey, !.key = "none"]
           /\ PumpTo(p, "claim")
  <2>1. Serves(p) /\ panel.key = "Accomplished"
    BY <1>0, <1>1 DEF Serves, Carries, Owns
  <2>2. /\ panel \in PanelRecords /\ HasPanel /\ KeyProgress /\ panel.phase # "AwaitingReady"
        /\ panel.flight # NoKey /\ \A q \in Pumps \ {p} : ~Serves(q)
    BY <2>1, Server
  <2>3. /\ panel' \in PanelRecords /\ SamePage /\ panel'.next = panel.next /\ panel'.queue = panel.queue
        /\ panel'.flight = NoKey /\ panel'.armed = panel.armed /\ panel'.pumping = panel.pumping
        /\ panel'.got = panel.got
    BY <1>1, <2>2 DEF PanelRecords, SamePage, KeyPhases, NoKey
  <2>4. HasPanel' /\ panels' = panels
    BY <1>0, <2>3 DEF HasPanel, PanelRecords, NoPanel, SameSession
  <2>5. /\ pump' \in [Pumps -> PumpRecords] /\ pump'[p].step = "claim" /\ pump'[p].epoch = pump[p].epoch
        /\ \A q \in Pumps \ {p} : pump'[q] = pump[q]
    BY <1>1, RoutePlace DEF PumpTo, PumpRecords
  <2>6. \A q \in Pumps : ~Serves(q)'
    BY <2>2, <2>3, <2>4, <2>5 DEF Serves, InSession, SamePage
  <2>7. KeysOrdered'
    BY <2>1, <2>2, <2>3, RoutePlace DEF KeysOrdered, Taken, SamePage
  <2>8. PumpsOrdered'
    BY <2>4, <2>5, <2>6, RoutePlace DEF PumpsOrdered
  <2>9. KeysAttended'
    BY <2>2, <2>3, <2>5, RoutePlace DEF KeysAttended
  <2>10. KeysOK'
    BY <2>5, <2>7, <2>8, <2>9 DEF KeysOK
  <2>. QED BY <1>0, <2>2, <2>3, <2>10, RouteFrame DEF SameSession, hideVars
<1>2. CASE Carries(p, {"Delivered"}) /\ panel' = Disarmed /\ PumpTo(p, "failed")
  <2>1. HasPanel
    BY <1>2 DEF Carries, Owns, InSession
  <2>2. /\ panel' \in PanelRecords /\ SamePage /\ HasPanel'
        /\ panel'.got = panel.got /\ panel'.flight = panel.flight
        /\ panel'.next = panel.next /\ ~panel'.armed /\ panel'.queue = <<>> /\ ~panel'.pumping
        /\ panel.flight # NoKey => panel'.key = "Cancelled"
    BY <1>2, <2>1, DisarmedOK
  <2>3. pump' \in [Pumps -> PumpRecords] /\ \A q \in Pumps : pump'[q].epoch <= panels /\ Stops(q)
    <3>1. /\ pump' \in [Pumps -> PumpRecords] /\ pump'[p].step = "failed" /\ pump'[p].epoch = pump[p].epoch
          /\ pump'[p].key = pump[p].key /\ \A q \in Pumps \ {p} : pump'[q] = pump[q]
      BY <1>2, RoutePlace DEF PumpTo, PumpRecords
    <3>. QED BY <3>1, <1>0, RoutePlace DEF Stops, PumpsOrdered
  <2>4. panels' = panels /\ panel'.epoch = panel.epoch /\ panel'.phase = panel.phase
    BY <1>0, <2>2 DEF SameSession, SamePage
  <2>5. KeysOK'
    BY <2>1, <2>2, <2>3, <2>4, RouteDisarmed
  <2>. QED BY <1>0, <2>1, <2>2, <2>5, RouteFrame DEF SameSession, hideVars
<1>3. CASE ~Carries(p, {"Accomplished", "Delivered"}) /\ PumpEnds(p) /\ UNCHANGED panel
  <2>1. HasPanel /\ panel.armed => ~Serves(p)
    BY <1>0, <1>3, Server DEF Carries, Owns, StepProgress, KeyProgress, InSession
  <2>. QED BY <1>0, <1>3, <2>1, PumpLeaves, PumpFrame DEF SameSession
<1>. QED BY <1>1, <1>2, <1>3 DEF AwaitKeyAck

LEMMA FailKeyStep ==
  ASSUME PanelInvariant, NEW p \in Pumps, FailKey(p), FocusAside
  PROVE  PanelInvariant'
<1>0. /\ pump[p].step = "failed" /\ PumpEnds(p)
      /\ UNCHANGED <<panels, hideTicket, hideIds, hideTimers, hostFocus, panelMain, dormant, ask>>
  BY DEF FailKey
<1>1. CASE /\ Owns(p) /\ panel' = Disarmed
           /\ hides' = Append(hides, Terminal) \/ UNCHANGED hides
  <2>1. HasPanel
    BY <1>1 DEF Owns, InSession
  <2>2. /\ panel' \in PanelRecords /\ SamePage /\ HasPanel'
        /\ panel'.got = panel.got /\ panel'.flight = panel.flight
        /\ panel'.next = panel.next /\ ~panel'.armed /\ panel'.queue = <<>> /\ ~panel'.pumping
        /\ panel.flight # NoKey => panel'.key = "Cancelled"
    BY <1>1, <2>1, DisarmedOK
  <2>3. pump' \in [Pumps -> PumpRecords] /\ \A q \in Pumps : pump'[q].epoch <= panels /\ Stops(q)
    <3>1. /\ pump' \in [Pumps -> PumpRecords] /\ pump'[p].step = "rest" /\ pump'[p].epoch = 0
          /\ \A q \in Pumps \ {p} : pump'[q] = pump[q]
      BY <1>0, RoutePlace DEF PumpEnds, NoPump, PumpRecords, NoKey
    <3>2. \A q \in Pumps : pump'[q].epoch <= panels
      BY <3>1, RoutePlace DEF PumpsOrdered
    <3>3. \A q \in Pumps : Stops(q)
      BY <3>1 DEF Stops
    <3>. QED BY <3>1, <3>2, <3>3
  <2>4. panels' = panels /\ panel'.epoch = panel.epoch /\ panel'.phase = panel.phase
    BY <1>0, <2>2 DEF SamePage
  <2>5. KeysOK'
    BY <2>1, <2>2, <2>3, <2>4, RouteDisarmed
  <2>. QED BY <1>0, <1>1, <2>1, <2>2, <2>5, RouteFrame
<1>2. CASE ~Owns(p) /\ UNCHANGED <<panel, hides>>
  <2>1. ~Serves(p)
    BY <1>0, <1>2, Server DEF Owns, InSession
  <2>. QED BY <1>0, <1>2, <2>1, PumpLeaves, PumpFrame DEF SameSession, hideVars
<1>. QED BY <1>1, <1>2 DEF FailKey

-----------------------------------------------------------------------------
(* The focus of the launcher *)

LEMMA FocusOnly ==
  ASSUME PanelInvariant, Unrelated, FocusOK'
  PROVE  PanelInvariant'
<1>. USE DEF Unrelated, hideVars
<1>1. PanelOK' /\ AsksOK' /\ KeysOK' /\ (HasPanel' <=> HasPanel)
  BY PanelStays
<1>2. HidesOK'
  BY <1>1, HidesFrame DEF PanelInvariant
<1>. QED BY <1>1, <1>2 DEF PanelInvariant

\* What the invariant says of the ticket of a request.
LEMMA FocusTicket ==
  ASSUME FocusOK
  PROVE  /\ hostFocus \in FocusTickets \cup {NoFocus}
         /\ \A r : FocusOf(r, {"Prepared", "NativeClaimed", "AwaitingAck"}) <=> Focuses(r)
         /\ \A r, phase : FocusOf(r, {phase}) /\ phase # "none" => Focuses(r) /\ hostFocus.phase = phase
         /\ \A r : Focuses(r) => r \in FocusRequests /\ request[r] \notin {"unsent", "ended"}
         /\ \A r, q : Focuses(r) /\ Focuses(q) => r = q
<1>1. hostFocus \in FocusTickets \cup {NoFocus}
  BY DEF FocusOK
<1>2. NoFocus.phase = "none"
  BY DEF NoFocus
<1>3. NoFocus \notin FocusTickets
  BY <1>2 DEF FocusTickets
<1>. QED BY <1>1, <1>2, <1>3 DEF FocusOK, FocusOf, Focuses, FocusTickets

LEMMA PrepareFocusStep ==
  ASSUME PanelInvariant, NEW r \in FocusRequests, PrepareFocus(r)
  PROVE  PanelInvariant'
<1>1. FocusOK
  BY DEF PanelInvariant
<1>2. /\ request[r] = "unsent" /\ hostFocus' = [request |-> r, phase |-> "Prepared"]
      /\ UNCHANGED <<panelMain, outcome, settlements, claims>> /\ Unrelated
      /\ starts' \in {starts, starts \cup {r}}
      /\ request' = [request EXCEPT ![r] = "starting"] \/ request' = [request EXCEPT ![r] = "cancelling"]
  BY DEF PrepareFocus, RequestTo
<1>3. /\ hostFocus' \in FocusTickets /\ hostFocus' # NoFocus /\ hostFocus'.request = r
      /\ hostFocus'.phase = "Prepared"
  BY <1>2 DEF FocusTickets, NoFocus
<1>4. \A q : Focuses(q)' <=> q = r
  BY <1>3 DEF Focuses
<1>5. /\ request' \in [FocusRequests -> {"unsent", "starting", "waiting", "cancelling", "ended"}]
      /\ request'[r] \in {"starting", "cancelling"} /\ \A q \in FocusRequests \ {r} : request'[q] = request[q]
  BY <1>1, <1>2 DEF FocusOK
<1>6. /\ r \notin starts /\ r \notin settlements /\ r \notin claims /\ outcome[r] = "none"
      /\ panelMain # <<"focusing", r>> /\ panelMain # <<"asking", r>>
  BY <1>1, <1>2 DEF FocusOK
<1>7. FocusOK'
  <2>1. \A q \in settlements' : request'[q] \notin {"unsent", "ended"} /\ ~Focuses(q)'
    BY <1>1, <1>2, <1>4, <1>5, <1>6 DEF FocusOK
  <2>2. \A q \in starts' :
           /\ request'[q] # "unsent" /\ q \notin settlements' /\ outcome'[q] = "none"
           /\ panelMain' # <<"focusing", q>> /\ panelMain' # <<"asking", q>>
           /\ Focuses(q)' => hostFocus'.phase = "Prepared"
    BY <1>1, <1>2, <1>3, <1>4, <1>5, <1>6 DEF FocusOK
  <2>3. \A q \in FocusRequests :
          /\ request'[q] = "unsent" => outcome'[q] = "none"
          /\ outcome'[q] = "Noop" => ~Focuses(q)' /\ q \notin settlements'
          /\ panelMain' = <<"focusing", q>> =>
                /\ request'[q] # "unsent" /\ q \notin settlements' /\ outcome'[q] = "none"
                /\ Focuses(q)' => hostFocus'.phase = "NativeClaimed"
          /\ panelMain' = <<"asking", q>> =>
                /\ request'[q] # "unsent" /\ outcome'[q] = "none"
                /\ Focuses(q)' => hostFocus'.phase = "AwaitingAck"
    BY <1>1, <1>2, <1>4, <1>5, <1>6 DEF FocusOK
  <2>4. starts' \subseteq FocusRequests
    BY <1>1, <1>2 DEF FocusOK
  <2>. QED BY <1>1, <1>2, <1>3, <1>5, <2>1, <2>2, <2>3, <2>4 DEF FocusOK
<1>. QED BY <1>2, <1>7, FocusOnly

\* The thread of a request ends it, or goes on.
LEMMA RequestMoves ==
  ASSUME FocusOK, NEW r \in FocusRequests, request[r] # "unsent",
         NEW step \in {"waiting", "cancelling", "ended"}, RequestTo(r, step),
         UNCHANGED <<panelMain, starts, outcome, claims>>,
         hostFocus' \in {hostFocus, NoFocus},
         settlements' \subseteq settlements,
         step = "ended" => ~Focuses(r)' /\ r \notin settlements'
  PROVE  FocusOK'
<1>1. /\ request' \in [FocusRequests -> {"unsent", "starting", "waiting", "cancelling", "ended"}]
      /\ request'[r] = step /\ \A q \in FocusRequests \ {r} : request'[q] = request[q]
  BY DEF FocusOK, RequestTo
<1>2. \A q : Focuses(q)' => Focuses(q) /\ hostFocus' = hostFocus
  BY DEF Focuses
<1>3. \A q \in FocusRequests : request'[q] = "unsent" <=> request[q] = "unsent"
  BY <1>1
<1>4. hostFocus' # NoFocus => request'[hostFocus'.request] \notin {"unsent", "ended"}
  <2>. SUFFICES ASSUME hostFocus' # NoFocus
                PROVE  request'[hostFocus'.request] \notin {"unsent", "ended"}
    OBVIOUS
  <2>1. hostFocus' = hostFocus /\ hostFocus.request \in FocusRequests
    BY DEF FocusOK, FocusTickets
  <2>2. hostFocus.request = r => step # "ended"
    BY <2>1 DEF Focuses
  <2>. QED BY <2>1, <2>2, <1>1 DEF FocusOK
<1>5. \A q \in settlements' : request'[q] \notin {"unsent", "ended"} /\ ~Focuses(q)'
  BY <1>1, <1>2 DEF FocusOK
<1>6. \A q \in starts' :
         /\ request'[q] # "unsent" /\ q \notin settlements' /\ outcome'[q] = "none"
         /\ panelMain' # <<"focusing", q>> /\ panelMain' # <<"asking", q>>
         /\ Focuses(q)' => hostFocus'.phase = "Prepared"
  BY <1>2, <1>3 DEF FocusOK
<1>7. \A q \in FocusRequests :
        /\ request'[q] = "unsent" => outcome'[q] = "none"
        /\ outcome'[q] = "Noop" => ~Focuses(q)' /\ q \notin settlements'
        /\ panelMain' = <<"focusing", q>> =>
              /\ request'[q] # "unsent" /\ q \notin settlements' /\ outcome'[q] = "none"
              /\ Focuses(q)' => hostFocus'.phase = "NativeClaimed"
        /\ panelMain' = <<"asking", q>> =>
              /\ request'[q] # "unsent" /\ outcome'[q] = "none"
              /\ Focuses(q)' => hostFocus'.phase = "AwaitingAck"
  BY <1>2, <1>3 DEF FocusOK
<1>. QED BY <1>1, <1>4, <1>5, <1>6, <1>7 DEF FocusOK

LEMMA ReceiveStartStep ==
  ASSUME PanelInvariant, NEW r \in FocusRequests, ReceiveStart(r)
  PROVE  PanelInvariant'
<1>1. FocusOK
  BY DEF PanelInvariant
<1>2. /\ request[r] = "starting"
      /\ UNCHANGED <<hostFocus, panelMain, starts, outcome, settlements, claims>> /\ Unrelated
      /\ \E step \in {"waiting", "cancelling", "ended"} :
            RequestTo(r, step) /\ (step = "ended" => outcome[r] = "Noop")
  BY DEF ReceiveStart
<1>3. outcome[r] = "Noop" => ~Focuses(r)' /\ r \notin settlements'
  BY <1>1, <1>2 DEF FocusOK, Focuses
<1>4. FocusOK'
  BY <1>1, <1>2, <1>3, RequestMoves
<1>. QED BY <1>2, <1>4, FocusOnly

LEMMA RequestEndsStep ==
  ASSUME PanelInvariant, NEW r \in FocusRequests, GiveUpFocus(r) \/ AwaitFocus(r)
  PROVE  PanelInvariant'
<1>1. FocusOK
  BY DEF PanelInvariant
<1>2. /\ request[r] \in {"cancelling", "waiting"} /\ RequestTo(r, "ended") /\ CancelFocus(r)
      /\ UNCHANGED <<panelMain, starts, outcome, claims>> /\ Unrelated
  BY DEF GiveUpFocus, AwaitFocus, CancelFocus
<1>3. /\ hostFocus' \in {hostFocus, NoFocus} /\ settlements' \subseteq settlements
      /\ ~Focuses(r)' /\ r \notin settlements'
  <2>1. CASE r \in settlements /\ settlements' = settlements \ {r} /\ UNCHANGED hostFocus
    BY <2>1, <1>1 DEF FocusOK, Focuses
  <2>2. CASE /\ r \notin settlements /\ UNCHANGED settlements
             /\ hostFocus' = IF FocusOf(r, {"Prepared", "NativeClaimed", "AwaitingAck"}) THEN NoFocus ELSE hostFocus
    <3>1. hostFocus' = IF Focuses(r) THEN NoFocus ELSE hostFocus
      BY <2>2, <1>1, FocusTicket
    <3>. QED BY <2>2, <3>1 DEF Focuses
  <2>. QED BY <2>1, <2>2, <1>2 DEF CancelFocus
<1>4. FocusOK'
  BY <1>1, <1>2, <1>3, RequestMoves
<1>. QED BY <1>2, <1>4, FocusOnly

\* The main thread does something for one request, which has not ended.
FocusMoved(r) ==
    /\ UNCHANGED request /\ starts' \subseteq starts
    /\ outcome' \in [FocusRequests -> {"none", "Noop", "AwaitingAck", "Failed"}]
    /\ hostFocus' \in FocusTickets \cup {NoFocus}
    /\ hostFocus' # NoFocus => hostFocus # NoFocus /\ hostFocus'.request = hostFocus.request
    /\ claims' \subseteq FocusRequests /\ settlements' \subseteq FocusRequests
    /\ \A q \in claims' : panelMain' = <<"focusing", q>>
    /\ \A q \in FocusRequests \ {r} :
          /\ outcome'[q] = outcome[q] /\ (q \in settlements' => q \in settlements)
          /\ Focuses(q)' => hostFocus' = hostFocus
          /\ panelMain' # <<"focusing", q>> /\ panelMain' # <<"asking", q>>
    /\ r \in settlements' => request[r] \notin {"unsent", "ended"} /\ ~Focuses(r)'
    /\ r \notin starts'
    /\ outcome'[r] = "Noop" => ~Focuses(r)' /\ r \notin settlements'
    /\ panelMain' = <<"focusing", r>> =>
          /\ r \notin settlements' /\ outcome'[r] = "none"
          /\ Focuses(r)' => hostFocus'.phase = "NativeClaimed"
    /\ panelMain' = <<"asking", r>> =>
          outcome'[r] = "none" /\ (Focuses(r)' => hostFocus'.phase = "AwaitingAck")

LEMMA FocusMoves ==
  ASSUME FocusOK, NEW r \in FocusRequests, request[r] # "unsent", FocusMoved(r)
  PROVE  FocusOK'
<1>. USE DEF FocusMoved
<1>1. \A q : Focuses(q)' => Focuses(q)
  BY DEF Focuses
<1>2. hostFocus' # NoFocus => request'[hostFocus'.request] \notin {"unsent", "ended"}
  BY DEF FocusOK
<1>3. \A q \in settlements' : request'[q] \notin {"unsent", "ended"} /\ ~Focuses(q)'
  <2>. SUFFICES ASSUME NEW q \in settlements'
                PROVE  request'[q] \notin {"unsent", "ended"} /\ ~Focuses(q)'
    OBVIOUS
  <2>1. CASE q = r
    BY <2>1
  <2>2. CASE q # r
    <3>1. q \in settlements
      BY <2>2
    <3>. QED BY <3>1, <1>1 DEF FocusOK
  <2>. QED BY <2>1, <2>2
<1>4. \A q \in starts' :
         /\ request'[q] # "unsent" /\ q \notin settlements' /\ outcome'[q] = "none"
         /\ panelMain' # <<"focusing", q>> /\ panelMain' # <<"asking", q>>
         /\ Focuses(q)' => hostFocus'.phase = "Prepared"
  <2>. SUFFICES ASSUME NEW q \in starts'
                PROVE  /\ request'[q] # "unsent" /\ q \notin settlements' /\ outcome'[q] = "none"
                       /\ panelMain' # <<"focusing", q>> /\ panelMain' # <<"asking", q>>
                       /\ Focuses(q)' => hostFocus'.phase = "Prepared"
    OBVIOUS
  <2>1. q \in starts /\ q \in FocusRequests \ {r}
    BY DEF FocusOK
  <2>. QED BY <2>1, <1>1 DEF FocusOK
<1>5. \A q \in FocusRequests :
        /\ request'[q] = "unsent" => outcome'[q] = "none"
        /\ outcome'[q] = "Noop" => ~Focuses(q)' /\ q \notin settlements'
        /\ panelMain' = <<"focusing", q>> =>
              /\ request'[q] # "unsent" /\ q \notin settlements' /\ outcome'[q] = "none"
              /\ Focuses(q)' => hostFocus'.phase = "NativeClaimed"
        /\ panelMain' = <<"asking", q>> =>
              /\ request'[q] # "unsent" /\ outcome'[q] = "none"
              /\ Focuses(q)' => hostFocus'.phase = "AwaitingAck"
  <2>1. \A q \in FocusRequests \ {r} :
          /\ request'[q] = "unsent" => outcome'[q] = "none"
          /\ outcome'[q] = "Noop" => ~Focuses(q)' /\ q \notin settlements'
    BY <1>1 DEF FocusOK
  <2>2. \A q \in FocusRequests \ {r} : panelMain' # <<"focusing", q>> /\ panelMain' # <<"asking", q>>
    OBVIOUS
  <2>. QED BY <2>1, <2>2
<1>6. starts' \subseteq FocusRequests
  BY DEF FocusOK
<1>. QED BY <1>2, <1>3, <1>4, <1>5, <1>6 DEF FocusOK

LEMMA StartFocusStep ==
  ASSUME PanelInvariant, NEW r \in FocusRequests, StartFocus(r)
  PROVE  PanelInvariant'
<1>1. FocusOK
  BY DEF PanelInvariant
<1>2. /\ r \in starts /\ panelMain = <<"idle">> /\ starts' = starts \ {r}
      /\ UNCHANGED <<request, settlements>> /\ Unrelated
  BY DEF StartFocus, PanelMainIdle
<1>3. /\ request[r] # "unsent" /\ r \notin settlements /\ outcome[r] = "none" /\ claims = {}
      /\ outcome \in [FocusRequests -> {"none", "Noop", "AwaitingAck", "Failed"}]
      /\ hostFocus \in FocusTickets \cup {NoFocus} /\ settlements \subseteq FocusRequests
  BY <1>1, <1>2 DEF FocusOK
<1>4. CASE ~FocusOf(r, {"Prepared"}) /\ StartEnds(r, "Noop") /\ UNCHANGED <<hostFocus, claims>>
  <2>1. ~Focuses(r)
    BY <1>1, <1>2, <1>4 DEF FocusOK, Focuses, FocusOf
  <2>2. FocusMoved(r)
    BY <1>2, <1>3, <1>4, <2>1 DEF FocusMoved, StartEnds, Focuses
  <2>. QED BY <1>1, <1>2, <1>3, <2>2, FocusMoves, FocusOnly
<1>5. CASE FocusOf(r, {"Prepared"}) /\ hostFocus' = NoFocus /\ StartEnds(r, "Failed") /\ UNCHANGED claims
  <2>1. FocusMoved(r)
    BY <1>2, <1>3, <1>5 DEF FocusMoved, StartEnds, Focuses
  <2>. QED BY <1>1, <1>2, <1>3, <2>1, FocusMoves, FocusOnly
<1>6. CASE /\ FocusOf(r, {"Prepared"}) /\ FocusPhase("NativeClaimed")
           /\ claims' = claims \cup {r} /\ panelMain' = <<"focusing", r>> /\ UNCHANGED outcome
  <2>1. hostFocus \in FocusTickets /\ hostFocus.request = r
    BY <1>3, <1>6 DEF FocusOf, NoFocus
  <2>2. hostFocus' \in FocusTickets /\ hostFocus'.request = r /\ hostFocus'.phase = "NativeClaimed"
    BY <1>6, <2>1 DEF FocusPhase, FocusTickets
  <2>3. hostFocus # NoFocus
    BY <1>6 DEF FocusOf, NoFocus
  <2>4. \A q \in FocusRequests \ {r} : ~Focuses(q)'
    BY <2>2 DEF Focuses
  <2>5. FocusMoved(r)
    BY <1>2, <1>3, <1>6, <2>1, <2>2, <2>3, <2>4 DEF FocusMoved
  <2>. QED BY <1>1, <1>2, <1>3, <2>5, FocusMoves, FocusOnly
<1>. QED BY <1>4, <1>5, <1>6 DEF StartFocus

LEMMA ConfirmFocusStep ==
  ASSUME PanelInvariant, NEW r \in FocusRequests, ConfirmFocus(r)
  PROVE  PanelInvariant'
<1>1. FocusOK
  BY DEF PanelInvariant
<1>2. /\ panelMain = <<"focusing", r>> /\ claims' = claims \ {r}
      /\ UNCHANGED <<request, starts>> /\ Unrelated
  BY DEF ConfirmFocus
<1>3. /\ request[r] # "unsent" /\ r \notin settlements /\ outcome[r] = "none" /\ r \notin starts
      /\ outcome \in [FocusRequests -> {"none", "Noop", "AwaitingAck", "Failed"}]
      /\ hostFocus \in FocusTickets \cup {NoFocus} /\ settlements \subseteq FocusRequests
      /\ Focuses(r) => hostFocus.phase = "NativeClaimed"
  BY <1>1, <1>2 DEF FocusOK
<1>4. claims' = {}
  BY <1>1, <1>2 DEF FocusOK
<1>5. CASE ~FocusOf(r, {"NativeClaimed"}) /\ StartEnds(r, "Noop") /\ UNCHANGED <<hostFocus, settlements>>
  <2>1. ~Focuses(r)
    BY <1>3, <1>5 DEF Focuses, FocusOf
  <2>2. FocusMoved(r)
    BY <1>2, <1>3, <1>4, <1>5, <2>1 DEF FocusMoved, StartEnds, Focuses
  <2>. QED BY <1>1, <1>2, <1>3, <2>2, FocusMoves, FocusOnly
<1>6. CASE /\ FocusOf(r, {"NativeClaimed"}) /\ hostFocus' = NoFocus
           /\ StartEnds(r, "Failed")
           /\ UNCHANGED settlements \/ settlements' = settlements \cup {r}
  <2>1. request[r] \notin {"unsent", "ended"}
    BY <1>1, <1>6, FocusTicket
  <2>2. FocusMoved(r)
    BY <1>2, <1>3, <1>4, <1>6, <2>1 DEF FocusMoved, StartEnds, Focuses
  <2>. QED BY <1>1, <1>2, <1>3, <2>2, FocusMoves, FocusOnly
<1>7. CASE /\ FocusOf(r, {"NativeClaimed"}) /\ FocusPhase("AwaitingAck")
           /\ panelMain' = <<"asking", r>> /\ UNCHANGED <<outcome, settlements>>
  <2>1. hostFocus \in FocusTickets /\ hostFocus.request = r
    BY <1>3, <1>7 DEF FocusOf, NoFocus
  <2>2. hostFocus' \in FocusTickets /\ hostFocus'.request = r /\ hostFocus'.phase = "AwaitingAck"
    BY <1>7, <2>1 DEF FocusPhase, FocusTickets
  <2>3. hostFocus # NoFocus
    BY <1>7 DEF FocusOf, NoFocus
  <2>4. \A q \in FocusRequests \ {r} : ~Focuses(q)'
    BY <2>2 DEF Focuses
  <2>5. FocusMoved(r)
    BY <1>2, <1>3, <1>4, <1>7, <2>1, <2>2, <2>3, <2>4 DEF FocusMoved
  <2>. QED BY <1>1, <1>2, <1>3, <2>5, FocusMoves, FocusOnly
<1>. QED BY <1>5, <1>6, <1>7 DEF ConfirmFocus

LEMMA AskLauncherStep ==
  ASSUME PanelInvariant, NEW r \in FocusRequests, AskLauncher(r)
  PROVE  PanelInvariant'
<1>1. FocusOK
  BY DEF PanelInvariant
<1>2. /\ panelMain = <<"asking", r>> /\ UNCHANGED <<request, starts, claims>> /\ Unrelated
  BY DEF AskLauncher
<1>3. /\ request[r] # "unsent" /\ outcome[r] = "none" /\ r \notin starts /\ claims = {}
      /\ outcome \in [FocusRequests -> {"none", "Noop", "AwaitingAck", "Failed"}]
      /\ hostFocus \in FocusTickets \cup {NoFocus} /\ settlements \subseteq FocusRequests
      /\ r \in settlements => request[r] \notin {"unsent", "ended"} /\ ~Focuses(r)
  BY <1>1, <1>2 DEF FocusOK
<1>4. CASE StartEnds(r, "AwaitingAck") /\ UNCHANGED <<hostFocus, settlements>>
  <2>1. FocusMoved(r)
    BY <1>2, <1>3, <1>4 DEF FocusMoved, StartEnds, Focuses
  <2>. QED BY <1>1, <1>2, <1>3, <2>1, FocusMoves, FocusOnly
<1>5. CASE /\ CancelFocus(r)
           /\ StartEnds(r, IF hostFocus' # hostFocus \/ settlements' # settlements THEN "Failed" ELSE "Noop")
  <2>1. /\ hostFocus' \in {hostFocus, NoFocus} /\ settlements' \subseteq settlements
        /\ ~Focuses(r)' /\ r \notin settlements'
    <3>1. CASE r \in settlements /\ settlements' = settlements \ {r} /\ UNCHANGED hostFocus
      BY <3>1, <1>3 DEF Focuses
    <3>2. CASE /\ r \notin settlements /\ UNCHANGED settlements
               /\ hostFocus' = IF FocusOf(r, {"Prepared", "NativeClaimed", "AwaitingAck"}) THEN NoFocus ELSE hostFocus
      <4>1. hostFocus' = IF Focuses(r) THEN NoFocus ELSE hostFocus
        BY <3>2, <1>1, FocusTicket
      <4>. QED BY <3>2, <4>1 DEF Focuses
    <3>. QED BY <3>1, <3>2, <1>5 DEF CancelFocus
  <2>2. /\ outcome' \in [FocusRequests -> {"none", "Noop", "AwaitingAck", "Failed"}]
        /\ \A q \in FocusRequests \ {r} : outcome'[q] = outcome[q]
        /\ panelMain' = <<"idle">>
    BY <1>3, <1>5 DEF StartEnds
  <2>3. FocusMoved(r)
    BY <1>2, <1>3, <2>1, <2>2 DEF FocusMoved, Focuses
  <2>. QED BY <1>1, <1>2, <1>3, <2>3, FocusMoves, FocusOnly
<1>. QED BY <1>4, <1>5 DEF AskLauncher

LEMMA LauncherAcksStep ==
  ASSUME PanelInvariant, NEW r \in FocusRequests, LauncherAcks(r)
  PROVE  PanelInvariant'
<1>1. FocusOK
  BY DEF PanelInvariant
<1>2. /\ panelMain = <<"idle">> /\ UNCHANGED <<panelMain, request, starts, outcome, claims>> /\ Unrelated
  BY DEF LauncherAcks, PanelMainIdle
<1>3. CASE UNCHANGED <<hostFocus, settlements>>
  BY <1>1, <1>2, <1>3, FocusFrame, FocusOnly DEF SameFocus
<1>4. CASE FocusOf(r, {"AwaitingAck"}) /\ hostFocus' = NoFocus /\ settlements' = settlements \cup {r}
  <2>1. Focuses(r) /\ hostFocus.phase = "AwaitingAck" /\ request[r] \notin {"unsent", "ended"}
    BY <1>1, <1>4, FocusTicket
  <2>2. r \notin starts /\ outcome[r] # "Noop" /\ claims = {}
    BY <1>1, <1>2, <2>1 DEF FocusOK
  <2>3. FocusMoved(r)
    BY <1>1, <1>2, <1>4, <2>1, <2>2 DEF FocusMoved, FocusOK, Focuses
  <2>. QED BY <1>1, <1>2, <2>1, <2>3, FocusMoves, FocusOnly
<1>. QED BY <1>3, <1>4 DEF LauncherAcks

-----------------------------------------------------------------------------
(* The composed panel *)

LEMMA SessionStep ==
  ASSUME PanelInvariant, SessionNext \/ HideNext, UNCHANGED <<ask, pump>>, FocusAside
  PROVE  PanelInvariant'
  BY OpenPanelStep, PanelReadyStep, MountedStep, PanelEndsStep, HideHostStep, HostHiddenStep,
     ShowHostStep, AdmitHideStep, ObserveHideStep, CommitStep, RunHideStep
  DEF SessionNext, HideNext

LEMMA SubmissionsStep ==
  ASSUME PanelInvariant, SubmissionsNext, UNCHANGED pump, FocusAside
  PROVE  PanelInvariant'
  BY SubmitStep, PageAckStep, AdmitFreeStep, AdmitBufferedStep, RuntimeEndsStep, DeliverUpdateStep,
     FreePageStep, PublishReadyStep, RollBackStep
  DEF SubmissionsNext, SubmissionStep

LEMMA KeysStep ==
  ASSUME PanelInvariant, KeysNext, FocusAside
  PROVE  PanelInvariant'
<1>1. CASE PressKey
  BY <1>1, PressDropped, PressQueued, PressRefused DEF PressKey
<1>. QED BY <1>1, PageAcksKeyStep, ClaimKeyStep, FocusPageStep, SendKeyStep, MarkDeliveredStep,
            AwaitKeyAckStep, FailKeyStep
         DEF KeysNext, PumpStep

LEMMA FocusStep ==
  ASSUME PanelInvariant, FocusNext
  PROVE  PanelInvariant'
  BY PrepareFocusStep, ReceiveStartStep, RequestEndsStep, StartFocusStep, ConfirmFocusStep,
     AskLauncherStep, LauncherAcksStep
  DEF FocusNext

LEMMA Stutter ==
  ASSUME PanelInvariant, UNCHANGED panelVars
  PROVE  PanelInvariant'
<1>. USE DEF panelVars, focusVars, keyVars, submissionVars, sessionVars
<1>1. PanelOK' /\ AsksOK' /\ KeysOK' /\ (HasPanel' <=> HasPanel)
  BY PanelStays
<1>2. HidesOK'
  BY <1>1, HidesFrame DEF PanelInvariant
<1>3. FocusOK'
  BY FocusFrame DEF PanelInvariant, SameFocus
<1>. QED BY <1>1, <1>2, <1>3 DEF PanelInvariant

LEMMA Step ==
  ASSUME PanelInvariant, [PanelNext]_panelVars
  PROVE  PanelInvariant'
  BY SessionStep, SubmissionsStep, KeysStep, FocusStep, Stutter DEF PanelNext

\* The invariant of the whole panel (ControllerCore with its threads).
THEOREM PanelSound == PanelSpec => []PanelInvariant
<1>1. PanelInit => PanelInvariant
  BY InitialState
<1>2. PanelInvariant /\ [PanelNext]_panelVars => PanelInvariant'
  BY Step
<1>. QED BY <1>1, <1>2, PTL DEF PanelSpec

-----------------------------------------------------------------------------
(* What the page of a session gets to see *)

\* Steps that neither show, nor complete, nor send the page anything.
PageSeesNothing ==
    HasPanel /\ panel'.epoch = panel.epoch =>
        /\ panel'.phase = "AwaitingAck" => panel.phase = "AwaitingAck"
        /\ panel'.notified = panel.notified /\ panel'.got = panel.got

LEMMA EndSeesNothing ==
  ASSUME PanelInvariant, panel' = NoPanel
  PROVE  PageSeesNothing
  BY Live DEF PanelInvariant, PageSeesNothing, NoPanel, PanelRecords

LEMMA SameSeesNothing ==
  ASSUME UNCHANGED panel
  PROVE  PageSeesNothing
  BY DEF PageSeesNothing

LEMMA SessionSeesNothing ==
  ASSUME PanelInvariant, SessionNext \/ HideNext
  PROVE  PageSeesNothing
<1>1. CASE OpenPanel
  <2>1. HasPanel => panel.epoch <= panels /\ panels \in Nat /\ panel.epoch \in Nat
    BY RoutePlace
  <2>2. panel'.epoch = panels + 1
    BY <1>1 DEF OpenPanel, NewPanel
  <2>. QED BY <2>1, <2>2 DEF PageSeesNothing
<1>2. CASE PanelReady \/ Mounted
  <2>1. HasPanel /\ panel \in PanelRecords
    BY <1>2, RoutePlace DEF PanelReady, Mounted
  <2>2. CASE panel' = [panel EXCEPT !.phase = "Ready", !.armed = TRUE]
    BY <2>1, <2>2 DEF PageSeesNothing, PanelRecords
  <2>3. CASE \E opening \in {"focusing", "open"} : panel' = [panel EXCEPT !.opening = opening]
    BY <2>1, <2>3 DEF PageSeesNothing, PanelRecords
  <2>. QED BY <1>2, <2>2, <2>3 DEF PanelReady, Mounted
<1>3. CASE panel' = NoPanel \/ UNCHANGED panel
  BY <1>3, EndSeesNothing, SameSeesNothing
<1>. QED BY <1>1, <1>2, <1>3
     DEF SessionNext, HideNext, PanelEnds, HideHost, HideHostFor, HostHidden, ShowHost, AdmitHide,
         ObserveHide, CommitHide, RunHide, HideTimer, EndPanel

LEMMA SubmissionSeesNothing ==
  ASSUME PanelInvariant, NEW s \in PanelRequests,
         SubmitToPanel(s) \/ PageAck(s) \/ AdmitFree(s) \/ AdmitBuffered(s) \/ RuntimeEnds(s)
            \/ FreePage(s) \/ RollBack(s)
  PROVE  PageSeesNothing
<1>1. CASE HasPanel /\ \/ panel' = [panel EXCEPT !.pending = NoRequest, !.current = s, !.newest = s]
                       \/ panel' = [panel EXCEPT !.pending = s, !.newest = s]
                       \/ panel' = [panel EXCEPT !.pending = NoRequest, !.current = s]
                       \/ panel' = [panel EXCEPT !.phase = "Acknowledged"]
                       \/ panel' = [panel EXCEPT !.phase = "Ready"]
  <2>1. panel \in PanelRecords
    BY <1>1, RoutePlace
  <2>. QED BY <1>1, <2>1 DEF PageSeesNothing, PanelRecords
<1>2. CASE panel' = NoPanel \/ UNCHANGED panel
  BY <1>2, EndSeesNothing, SameSeesNothing
<1>. QED BY <1>1, <1>2
     DEF SubmitToPanel, PageAck, AdmitFree, AdmitBuffered, RuntimeEnds, FreePage, RollBack, EndPanel,
         IsCurrent, InSession, sessionVars

LEMMA KeysSeeNothing ==
  ASSUME PanelInvariant,
         \/ PressKey \/ PageAcksKey
         \/ \E p \in Pumps : \/ ClaimKey(p) \/ FocusPage(p) \/ MarkDelivered(p) \/ AwaitKeyAck(p)
                             \/ FailKey(p)
  PROVE  PageSeesNothing
<1>1. CASE HasPanel
  <2>1. panel \in PanelRecords
    BY <1>1, RoutePlace
  <2>2. CASE panel' = Disarmed \/ panel' = [Disarmed EXCEPT !.pressed = Sent]
    <3>1. panel' = Disarmed => panel'.phase = panel.phase /\ panel'.notified = panel.notified /\ panel'.got = panel.got
      BY <2>1 DEF Disarmed, PanelRecords
    <3>2. panel' = [Disarmed EXCEPT !.pressed = Sent]
             => panel'.phase = panel.phase /\ panel'.notified = panel.notified /\ panel'.got = panel.got
      BY <2>1 DEF Disarmed, PanelRecords
    <3>. QED BY <2>2, <3>1, <3>2 DEF PageSeesNothing
  <2>3. CASE PageAcksKey \/ \E p \in Pumps : ClaimKey(p) \/ FocusPage(p) \/ MarkDelivered(p)
    <3>1. panel'.phase = panel.phase /\ panel'.notified = panel.notified /\ panel'.got = panel.got
      BY <2>1, <2>3, <1>1 DEF PageAcksKey, ClaimKey, FocusPage, MarkDelivered, PanelRecords
    <3>. QED BY <3>1 DEF PageSeesNothing
  <2>4. CASE \E p \in Pumps : AwaitKeyAck(p) \/ FailKey(p)
    <3>1. CASE panel' = [panel EXCEPT !.flight = NoKey, !.key = "none"]
      BY <2>1, <3>1 DEF PageSeesNothing, PanelRecords
    <3>. QED BY <2>2, <2>4, <3>1, SameSeesNothing DEF AwaitKeyAck, FailKey
  <2>5. CASE PressKey
    <3>1. CASE DropKey \/ DropKeyWhenFull \/ QueueKey
      <4>1. panel'.phase = panel.phase /\ panel'.notified = panel.notified /\ panel'.got = panel.got
        BY <2>1, <3>1 DEF DropKey, DropKeyWhenFull, QueueKey, PanelRecords
      <4>. QED BY <4>1 DEF PageSeesNothing
    <3>2. CASE RefuseKey
      BY <2>2, <3>2, EndSeesNothing DEF RefuseKey
    <3>. QED BY <2>5, <3>1, <3>2 DEF PressKey
  <2>. QED BY <2>3, <2>4, <2>5
<1>. QED BY <1>1 DEF PageSeesNothing

LEMMA FocusSeesNothing ==
  ASSUME FocusNext
  PROVE  PageSeesNothing
  BY SameSeesNothing
  DEF FocusNext, PrepareFocus, ReceiveStart, GiveUpFocus, AwaitFocus, StartFocus, ConfirmFocus,
      AskLauncher, LauncherAcks, Unrelated

ShownIsNewest ==
    HasPanel /\ InSession(panels') /\ panel'.epoch = panel.epoch =>
        /\ panel'.phase = "AwaitingAck" /\ panel.phase # "AwaitingAck" => panel'.current = panel'.newest
        /\ panel'.notified # panel.notified => panel'.notified = panel'.newest
KeyIsNext ==
    HasPanel /\ panel'.epoch = panel.epoch /\ panel'.got # panel.got =>
        /\ panel'.got = Append(panel.got, Len(panel.got) + 1)
        /\ panel.flight = Len(panel.got) + 1

LEMMA NothingSeen ==
  ASSUME PageSeesNothing
  PROVE  ShownIsNewest /\ KeyIsNext
  BY DEF PageSeesNothing, ShownIsNewest, KeyIsNext

\* The answer of the current submission comes while none is pending: it is the newest.
LEMMA DeliverShows ==
  ASSUME PanelInvariant, NEW s \in PanelRequests, DeliverUpdate(s)
  PROVE  ShownIsNewest /\ KeyIsNext
<1>1. CASE /\ IsCurrent(s) /\ panel.phase = "Ready"
           /\ panel' = [panel EXCEPT !.phase = "AwaitingAck"]
  <2>1. /\ HasPanel /\ panel \in PanelRecords /\ panel.newest = s /\ panel.current = s
    BY <1>1, AskPlace DEF InSession, IsCurrent, Shown, DeliverUpdate
  <2>2. /\ panel'.current = s /\ panel'.newest = s /\ panel'.notified = panel.notified
        /\ panel'.got = panel.got
    BY <1>1, <2>1 DEF PanelRecords
  <2>. QED BY <2>2 DEF ShownIsNewest, KeyIsNext
<1>2. CASE UNCHANGED panel
  BY <1>2, SameSeesNothing, NothingSeen
<1>. QED BY <1>1, <1>2 DEF DeliverUpdate

LEMMA PublishShows ==
  ASSUME PanelInvariant, NEW s \in PanelRequests, PublishReady(s)
  PROVE  ShownIsNewest /\ KeyIsNext
<1>1. CASE /\ IsCurrent(s) /\ panel.phase = "Ready" /\ panel.pending = NoRequest
           /\ panel' = [panel EXCEPT !.notified = s]
  <2>1. /\ HasPanel /\ panel \in PanelRecords /\ panel.newest = s
    BY <1>1, AskPlace DEF InSession, IsCurrent
  <2>2. /\ panel'.newest = s /\ panel'.notified = s /\ panel'.phase = panel.phase
        /\ panel'.got = panel.got
    BY <1>1, <2>1 DEF PanelRecords
  <2>. QED BY <2>2 DEF ShownIsNewest, KeyIsNext
<1>2. CASE UNCHANGED panel
  BY <1>2, SameSeesNothing, NothingSeen
<1>. QED BY <1>1, <1>2 DEF PublishReady

\* The key a pump sends is the one in flight, and the page has had all before it.
LEMMA SendShows ==
  ASSUME PanelInvariant, NEW p \in Pumps, SendKey(p)
  PROVE  ShownIsNewest /\ KeyIsNext
<1>1. CASE InSession(pump[p].epoch) /\ panel' = [panel EXCEPT !.got = Append(@, pump[p].key)]
  <2>1. Serves(p) /\ pump[p].step = "send"
    BY <1>1 DEF Serves, SendKey
  <2>2. /\ panel \in PanelRecords /\ panel.flight \in Nat /\ panel.got \in Seq(Nat)
        /\ panel.flight = pump[p].key /\ StepProgress("send")
    BY <2>1, Server, RoutePlace
  <2>3. panel.flight = Len(panel.got) + 1
    BY <2>2 DEF StepProgress
  <2>4. /\ panel'.got = Append(panel.got, pump[p].key) /\ panel'.phase = panel.phase
        /\ panel'.notified = panel.notified
    BY <1>1, <2>2 DEF PanelRecords
  <2>. QED BY <2>2, <2>3, <2>4 DEF ShownIsNewest, KeyIsNext
<1>2. CASE UNCHANGED panel
  BY <1>2, SameSeesNothing, NothingSeen
<1>. QED BY <1>1, <1>2 DEF SendKey

LEMMA StepShows ==
  ASSUME PanelInvariant, [PanelNext]_panelVars
  PROVE  ShownIsNewest /\ KeyIsNext
<1>1. CASE SessionNext \/ HideNext
  BY <1>1, SessionSeesNothing, NothingSeen
<1>2. CASE SubmissionsNext
  BY <1>2, SubmissionSeesNothing, NothingSeen, DeliverShows, PublishShows DEF SubmissionsNext, SubmissionStep
<1>3. CASE KeysNext
  BY <1>3, KeysSeeNothing, NothingSeen, SendShows DEF KeysNext, PumpStep
<1>4. CASE FocusNext
  BY <1>4, FocusSeesNothing, NothingSeen
<1>5. CASE UNCHANGED panelVars
  BY <1>5, SameSeesNothing, NothingSeen DEF panelVars, focusVars, keyVars, submissionVars, sessionVars
<1>. QED BY <1>1, <1>2, <1>3, <1>4, <1>5 DEF PanelNext

\* The page is shown, and told complete, nothing but the newest submission
\* (claim_delivery_settlement, publish_settled_ready).
THEOREM NewestIsShown == PanelSpec => NewestShown
<1>1. PanelInvariant /\ [PanelNext]_panelVars => [ShownIsNewest]_panelVars
  BY StepShows
<1>2. NewestShown <=> [][ShownIsNewest]_panelVars
  BY PTL DEF NewestShown, ShownIsNewest
<1>. QED BY <1>1, <1>2, PanelSound, PTL DEF PanelSpec

\* Keys reach the page in order, one at a time (claim_next_host_key).
THEOREM KeysComeInOrder == PanelSpec => KeysInOrder
<1>1. PanelInvariant /\ [PanelNext]_panelVars => [KeyIsNext]_panelVars
  BY StepShows
<1>2. KeysInOrder <=> [][KeyIsNext]_panelVars
  BY PTL DEF KeysInOrder, KeyIsNext
<1>. QED BY <1>1, <1>2, PanelSound, PTL DEF PanelSpec

\* Keys, committed hides, focus tickets and their answers have a thread that ends them
\* (start_host_key_pump, schedule_committed_panel_hide, start_host_input_focus).
THEOREM NothingIsForgotten == PanelSpec => []NothingForgotten
<1>1. PanelInvariant => NothingForgotten
  <2>. SUFFICES ASSUME PanelInvariant
                PROVE  NothingForgotten
    OBVIOUS
  <2>1. KeysServed
    BY RoutePlace DEF KeysServed, KeysAttended, PumpsOrdered, Owns, Serves
  <2>2. HideQueuedOnce
    BY DEF PanelInvariant, HidesOK, HideQueuedOnce
  <2>3. FocusSettled
    BY DEF PanelInvariant, FocusOK, FocusSettled
  <2>. QED BY <2>1, <2>2, <2>3 DEF NothingForgotten
<1>. QED BY <1>1, PanelSound, PTL
=============================================================================
