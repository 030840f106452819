---------------------------- MODULE WindowProofs ----------------------------
(***************************************************************************)
(* For any number of submissions and generations of the plugin: the leases *)
(* of a session are exactly the calls and hides under way in it, whoever   *)
(* closes, replaces or removes its window meanwhile; a hide acts on the    *)
(* session it was admitted for; no blur hides a document whose picker is   *)
(* open; and a closed session never comes back to life.                    *)
(*                                                                         *)
(* What carries the proof is that a session number is given out once, that *)
(* every thread with a lease holds it in the session of the window, so     *)
(* that a window without leases may be replaced, and that a session is     *)
(* closed before anybody waits to hide it, so that no picker can open in   *)
(* it any more.                                                            *)
(***************************************************************************)
EXTENDS WindowProperties, FiniteSetTheorems, TLAPS

-----------------------------------------------------------------------------
(* The invariant *)

Closed == {"closing", "revoked"}
HideOps == {"hideWait"} \cup HidingOps
\* What a thread does without a lease and without a session to hide.
Quiet == {"rest", "remove", "removeWait", "destroyLabel", "closing", "closeWait",
          "open", "focusing", "focused", "notFocused"}
Moving == Quiet \ {"focusing"}
Ops == Quiet \cup LeaseOps \cup HideOps
Tasks == [op : Ops, session : Nat, doc : Nat, blurred : BOOLEAN]

\* The window of a session.
Shaped(w) ==
    /\ w = [owner |-> w.owner, gen |-> w.gen, session |-> w.session, doc |-> w.doc,
            phase |-> w.phase, life |-> w.life, leases |-> w.leases, pinned |-> w.pinned,
            focused |-> w.focused, revoked |-> w.revoked, request |-> w.request]
    /\ w.session \in Nat /\ w.session > 0
    /\ w.doc \in Nat /\ w.doc > 0
    /\ w.leases \in Nat

WindowTypeOK ==
    /\ sessions \in Nat /\ documents \in Nat
    /\ thread \in [Threads -> Tasks]
    /\ HasWindow => Shaped(window)

\* Session numbers are given out once.
SessionsGiven ==
    /\ HasWindow => window.session <= sessions
    /\ \A t \in Threads : thread[t].session <= sessions

\* Every lease is held in the session of the window.
LeasesOwned ==
    \A t \in Threads : thread[t].op \in LeaseOps => IsSession(thread[t].session)

\* Who waits to hide the window of a session, or hides it, has closed the session.
HidesClose ==
    \A t \in Threads : thread[t].op \in HideOps =>
        /\ thread[t].doc > 0
        /\ IsSession(thread[t].session) =>
              /\ window.life \in Closed
              /\ thread[t].blurred => picking # thread[t].doc

\* While the main thread sets the focus for the picker, the picker waits for it.
FocusAsked == thread["main"].op = "focus" => thread["picker"].op = "focusing"

WindowInvariant ==
    WindowTypeOK /\ SessionsGiven /\ LeasesOwned /\ LeasesExact /\ HidesClose /\ FocusAsked

\* One step of ClosedStaysClosed.
StaysClosed ==
    HasWindow /\ window.life \in Closed /\ window'.session = window.session
        => window'.life \in Closed

-----------------------------------------------------------------------------
(* The leases *)

LEMMA FewThreads == IsFiniteSet(Threads)
<1>1. IsFiniteSet({"main"}) /\ IsFiniteSet({"picker"}) /\ IsFiniteSet({"disabling"})
  BY FS_Singleton
<1>2. IsFiniteSet({"main"} \cup {"picker"})
  BY <1>1, FS_Union
<1>3. IsFiniteSet({"main"} \cup {"picker"} \cup {"disabling"})
  BY <1>1, <1>2, FS_Union
<1>4. Threads = {"main"} \cup {"picker"} \cup {"disabling"}
  BY DEF Threads
<1>. QED BY <1>3, <1>4

\* The holders of a session, one more and one less.
LEMMA HoldersFacts ==
  ASSUME NEW S \in SUBSET Threads
  PROVE  /\ IsFiniteSet(S) /\ Cardinality(S) \in Nat
         /\ Cardinality(S) = 0 <=> S = {}
         /\ \A t \in Threads \ S : Cardinality(S \cup {t}) = Cardinality(S) + 1
         /\ \A t \in S : Cardinality(S \ {t}) = Cardinality(S) - 1
<1>1. IsFiniteSet(S) /\ Cardinality(S) \in Nat
  BY FewThreads, FS_Subset, FS_CardinalityType
<1>2. Cardinality(S) = 0 <=> S = {}
  BY <1>1, FS_EmptySet
<1>3. \A t \in Threads \ S : Cardinality(S \cup {t}) = Cardinality(S) + 1
  BY <1>1, FS_AddElement
<1>4. \A t \in S : Cardinality(S \ {t}) = Cardinality(S) - 1
  BY <1>1, FS_RemoveElement
<1>. QED BY <1>1, <1>2, <1>3, <1>4

\* A window without leases is nobody's.
LEMMA NoLease ==
  ASSUME WindowInvariant, ~Leased
  PROVE  \A t \in Threads : thread[t].op \notin LeaseOps
<1>1. CASE ~HasWindow
  BY <1>1 DEF WindowInvariant, LeasesOwned, IsSession
<1>2. CASE HasWindow
  <2>1. window.leases = 0
    BY <1>2 DEF WindowInvariant, WindowTypeOK, Shaped, Leased
  <2>2. LeaseHolders(window.session) = {}
    <3>1. LeaseHolders(window.session) \in SUBSET Threads
      BY DEF LeaseHolders
    <3>. QED BY <1>2, <2>1, <3>1, HoldersFacts DEF WindowInvariant, LeasesExact
  <2>. QED BY <2>2 DEF WindowInvariant, LeasesOwned, LeaseHolders, IsSession
<1>. QED BY <1>1, <1>2

-----------------------------------------------------------------------------
(* The kinds of steps *)

\* Threads without a lease go from one quiet stage to another, or give up a hide.
QuietThreads ==
    /\ thread' \in [Threads -> Tasks]
    /\ \A t \in Threads :
          \/ thread'[t] = thread[t]
          \/ /\ thread[t].op \in Moving \cup {"hideWait"} /\ thread'[t].op \in Quiet
             /\ \/ thread'[t].session \in {0, thread[t].session}
                \/ HasWindow /\ thread'[t].session = window.session

\* The session stays, with its leases, and closed if it is.
Touches(w, v) ==
    /\ Shaped(v) /\ v.session = w.session /\ v.doc = w.doc /\ v.leases = w.leases
    /\ w.life \in Closed => v.life \in Closed
TouchStep ==
    /\ window' = window \/ (HasWindow /\ Touches(window, window'))
    /\ QuietThreads /\ UNCHANGED <<sessions, documents>>
    /\ picking' \in {picking, 0}

\* A window without leases is replaced or removed.
ReplaceStep ==
    /\ ~Leased /\ QuietThreads /\ UNCHANGED picking
    /\ documents' \in Nat /\ sessions' \in Nat
    /\ \/ window' = NoWindow /\ sessions' = sessions
       \/ /\ Shaped(window') /\ sessions' = sessions + 1
          /\ window'.session = sessions + 1 /\ window'.leases = 0

LEMMA QuietHolders ==
  ASSUME WindowInvariant, QuietThreads, NEW n
  PROVE  /\ LeaseHolders(n)' = LeaseHolders(n)
         /\ \A t \in Threads : thread'[t].op \in LeaseOps \cup HideOps =>
                                  thread'[t] = thread[t]
<1>1. \A t \in Threads : thread'[t].op \in LeaseOps \cup HideOps \/ thread[t].op \in LeaseOps
                            => thread'[t] = thread[t]
  BY DEF QuietThreads, Moving, Quiet, LeaseOps, HideOps, HidingOps
<1>. QED BY <1>1 DEF LeaseHolders

LEMMA QuietFocus ==
  ASSUME WindowInvariant, QuietThreads
  PROVE  FocusAsked'
BY DEF WindowInvariant, FocusAsked, QuietThreads, Moving, Quiet, Threads

LEMMA TouchKeeps ==
  ASSUME WindowInvariant, TouchStep
  PROVE  WindowInvariant' /\ StaysClosed
<1>1. /\ HasWindow' <=> HasWindow
      /\ HasWindow => /\ Shaped(window') /\ window'.session = window.session
                      /\ window'.leases = window.leases
                      /\ window.life \in Closed => window'.life \in Closed
  <2>1. CASE window' = window
    BY <2>1 DEF WindowInvariant, WindowTypeOK, HasWindow
  <2>2. CASE HasWindow /\ Touches(window, window')
    <3>1. Shaped(window') /\ window'.session # 0
      BY <2>2 DEF Touches, Shaped
    <3>2. window' # NoWindow
      BY <3>1 DEF NoWindow
    <3>. QED BY <2>2, <3>1, <3>2 DEF Touches, HasWindow
  <2>. QED BY <2>1, <2>2 DEF TouchStep
<1>2. /\ QuietThreads /\ sessions' = sessions /\ documents' = documents
      /\ picking' \in {picking, 0}
  BY DEF TouchStep
<1>3. /\ \A n : LeaseHolders(n)' = LeaseHolders(n)
      /\ \A t \in Threads : thread'[t].op \in LeaseOps \cup HideOps => thread'[t] = thread[t]
  BY <1>2, QuietHolders
<1>4. WindowTypeOK'
  BY <1>1, <1>2 DEF WindowInvariant, WindowTypeOK, QuietThreads
<1>5. SessionsGiven'
  <2>1. \A t \in Threads : thread'[t].session <= sessions
    BY <1>2 DEF WindowInvariant, WindowTypeOK, SessionsGiven, QuietThreads, Tasks, Shaped
  <2>. QED BY <1>1, <1>2, <2>1 DEF WindowInvariant, SessionsGiven
<1>6. LeasesOwned'
  BY <1>1, <1>3 DEF WindowInvariant, LeasesOwned, IsSession
<1>7. LeasesExact'
  <2>1. HasWindow' => window'.leases = Cardinality(LeaseHolders(window.session)')
    BY <1>1, <1>3 DEF WindowInvariant, LeasesExact
  <2>. QED BY <1>1, <2>1 DEF LeasesExact, LeaseHolders
<1>8. HidesClose'
  BY <1>1, <1>2, <1>3 DEF WindowInvariant, WindowTypeOK, HidesClose, IsSession, Tasks
<1>9. StaysClosed /\ FocusAsked'
  BY <1>1, <1>2, QuietFocus DEF StaysClosed
<1>. QED BY <1>4, <1>5, <1>6, <1>7, <1>8, <1>9 DEF WindowInvariant

LEMMA ReplaceKeeps ==
  ASSUME WindowInvariant, ReplaceStep
  PROVE  WindowInvariant' /\ StaysClosed
<1>1. QuietThreads /\ \A t \in Threads : thread[t].op \notin LeaseOps
  BY NoLease DEF ReplaceStep
<1>2. \A t \in Threads : thread'[t].op \in LeaseOps \cup HideOps => thread'[t] = thread[t]
  BY <1>1, QuietHolders
<1>3. \A t \in Threads : thread'[t].op \notin LeaseOps
  BY <1>1, <1>2
<1>4. \A n : LeaseHolders(n)' = {}
  BY <1>3 DEF LeaseHolders
<1>5. /\ sessions \in Nat /\ sessions' \in Nat /\ sessions' >= sessions
      /\ HasWindow' => /\ Shaped(window') /\ window'.session = sessions + 1
                       /\ sessions' = sessions + 1 /\ window'.leases = 0
  BY DEF WindowInvariant, WindowTypeOK, ReplaceStep, HasWindow
<1>6. WindowTypeOK'
  BY <1>1, <1>5 DEF WindowTypeOK, QuietThreads, ReplaceStep
<1>7. \A t \in Threads : thread'[t].session \in Nat /\ thread'[t].session <= sessions
  BY <1>1 DEF WindowInvariant, WindowTypeOK, SessionsGiven, QuietThreads, Tasks, Shaped
<1>8. SessionsGiven'
  BY <1>5, <1>7 DEF SessionsGiven
<1>9. LeasesOwned'
  BY <1>3 DEF LeasesOwned
<1>10. LeasesExact'
  <2>1. LeaseHolders(window.session)' = {}
    BY <1>3 DEF LeaseHolders
  <2>. QED BY <1>5, <2>1, FS_EmptySet DEF LeasesExact
<1>11. HidesClose'
  <2>1. \A t \in Threads : HasWindow' => window'.session # thread'[t].session
    BY <1>5, <1>7
  <2>. QED BY <1>2, <2>1 DEF WindowInvariant, HidesClose, IsSession
<1>12. StaysClosed
  <2> SUFFICES ASSUME HasWindow, window'.session = window.session
               PROVE  FALSE
    BY DEF StaysClosed
  <2>1. window.session \in Nat /\ window.session > 0 /\ window.session <= sessions
    BY DEF WindowInvariant, WindowTypeOK, SessionsGiven, Shaped
  <2>2. window' = NoWindow
    BY <1>5, <2>1 DEF HasWindow
  <2>. QED BY <2>1, <2>2 DEF NoWindow
<1>13. FocusAsked'
  BY <1>1, QuietFocus
<1>. QED BY <1>6, <1>8, <1>9, <1>10, <1>11, <1>12, <1>13 DEF WindowInvariant

\* The main thread takes a lease for a call of the page or for the focus.
TakeStep ==
    /\ HasWindow /\ window' = WithLease
    /\ thread["main"].op \in Quiet
    /\ thread' \in [Threads -> Tasks]
    /\ thread'["main"].op \in {"call", "focus"}
    /\ thread'["main"].session = window.session /\ FocusAsked'
    /\ \A t \in Threads \ {"main"} :
          \/ thread'[t] = thread[t]
          \/ /\ thread[t].op \in Quiet /\ thread'[t].op \in Quiet
             /\ thread'[t].session = thread[t].session
    /\ UNCHANGED <<sessions, documents, picking>>

\* And drops it.
DropStep ==
    /\ thread["main"].op \in {"call", "focus"}
    /\ DropLease(thread["main"].session)
    /\ thread' \in [Threads -> Tasks] /\ thread'["main"] = Resting
    /\ \A t \in Threads \ {"main"} :
          \/ thread'[t] = thread[t]
          \/ /\ thread[t].op \in Quiet /\ thread'[t].op \in Quiet
             /\ thread'[t].session = thread[t].session
    /\ UNCHANGED <<sessions, documents, picking>>

\* The window with another number of leases.
LEMMA Recounted ==
  ASSUME NEW w, Shaped(w), NEW n \in Nat
  PROVE  LET v == [w EXCEPT !.leases = n]
         IN  Shaped(v) /\ v.session = w.session /\ v.doc = w.doc /\ v.life = w.life
             /\ v.leases = n
<1> DEFINE v == [w EXCEPT !.leases = n]
<1>1. v = [owner |-> w.owner, gen |-> w.gen, session |-> w.session, doc |-> w.doc,
           phase |-> w.phase, life |-> w.life, leases |-> n, pinned |-> w.pinned,
           focused |-> w.focused, revoked |-> w.revoked, request |-> w.request]
  BY DEF Shaped
<1> HIDE DEF v
<1>2. Shaped(v) /\ v.session = w.session /\ v.doc = w.doc /\ v.life = w.life /\ v.leases = n
  BY <1>1 DEF Shaped
<1>. QED BY <1>2 DEF v

\* A step that leaves the session its number, document and closing, and gives its
\* leases to the new holders.
LEMMA SessionKeeps ==
  ASSUME WindowInvariant, HasWindow, Shaped(window'),
         window'.session = window.session,
         window.life \in Closed => window'.life \in Closed,
         window'.leases = Cardinality(LeaseHolders(window.session)'),
         UNCHANGED <<sessions, documents>>,
         thread' \in [Threads -> Tasks],
         \A t \in Threads : thread'[t].session \in {thread[t].session, window.session, 0},
         \A t \in Threads : thread'[t].op \in LeaseOps =>
             thread'[t].session = window.session,
         \A t \in Threads : thread'[t].op \in HideOps =>
             /\ thread'[t].doc > 0
             /\ thread'[t].session = window.session =>
                   window'.life \in Closed /\ (thread'[t].blurred => picking' # thread'[t].doc),
         FocusAsked'
  PROVE  WindowInvariant' /\ StaysClosed
<1>1. Shaped(window) /\ window.session \in Nat /\ window.session <= sessions
      /\ sessions \in Nat /\ window.session > 0
  BY DEF WindowInvariant, WindowTypeOK, SessionsGiven, Shaped
<1>2. HasWindow'
  BY <1>1 DEF HasWindow, NoWindow
<1>3. WindowTypeOK'
  BY DEF WindowInvariant, WindowTypeOK
<1>4. SessionsGiven'
  <2>1. \A t \in Threads : thread[t].session <= sessions
    BY DEF WindowInvariant, SessionsGiven
  <2>. QED BY <1>1, <2>1 DEF SessionsGiven
<1>5. LeasesOwned'
  BY <1>2 DEF LeasesOwned, IsSession
<1>6. LeasesExact'
  BY DEF LeasesExact, LeaseHolders
<1>7. HidesClose'
  BY DEF HidesClose, IsSession
<1>8. StaysClosed
  BY DEF StaysClosed
<1>. QED BY <1>3, <1>4, <1>5, <1>6, <1>7, <1>8 DEF WindowInvariant

LEMMA TakeKeeps ==
  ASSUME WindowInvariant, TakeStep
  PROVE  WindowInvariant' /\ StaysClosed
<1>1. HasWindow /\ Shaped(window) /\ window.leases \in Nat /\ window.leases + 1 \in Nat
  BY DEF WindowInvariant, WindowTypeOK, TakeStep, Shaped
<1>2. /\ Shaped(window') /\ window'.session = window.session
      /\ window'.life = window.life /\ window'.leases = window.leases + 1
  BY <1>1, Recounted DEF TakeStep, WithLease
<1>3. /\ \A t \in Threads \ {"main"} : thread'[t].op \in LeaseOps \cup HideOps
                                       \/ thread[t].op \in LeaseOps => thread'[t] = thread[t]
      /\ thread["main"].op \notin LeaseOps /\ thread'["main"].op \in LeaseOps
      /\ thread'["main"].op \notin HideOps /\ "main" \in Threads
      /\ thread'["main"].session = window.session
  BY DEF TakeStep, Quiet, LeaseOps, HideOps, HidingOps, Threads
<1>4. LeaseHolders(window.session)' = LeaseHolders(window.session) \cup {"main"}
      /\ "main" \notin LeaseHolders(window.session)
      /\ LeaseHolders(window.session) \in SUBSET Threads
  BY <1>2, <1>3 DEF LeaseHolders
<1>5. Cardinality(LeaseHolders(window.session)') = window.leases + 1
  BY <1>1, <1>3, <1>4, HoldersFacts DEF WindowInvariant, LeasesExact
<1>6. \A t \in Threads : thread'[t].session \in {thread[t].session, window.session, 0}
  BY <1>3 DEF TakeStep
<1>7. \A t \in Threads : thread'[t].op \in LeaseOps => thread'[t].session = window.session
  BY <1>3 DEF WindowInvariant, LeasesOwned, IsSession
<1>8. \A t \in Threads : thread'[t].op \in HideOps =>
         /\ thread'[t].doc > 0
         /\ thread'[t].session = window.session =>
               window'.life \in Closed /\ (thread'[t].blurred => picking' # thread'[t].doc)
  BY <1>1, <1>2, <1>3 DEF WindowInvariant, HidesClose, IsSession, TakeStep
<1>. QED BY <1>1, <1>2, <1>5, <1>6, <1>7, <1>8, SessionKeeps DEF TakeStep

\* A lease that somebody holds is counted.
LEMMA HeldLease ==
  ASSUME WindowInvariant, NEW t \in Threads, thread[t].op \in LeaseOps
  PROVE  /\ HasWindow /\ Shaped(window) /\ window.session = thread[t].session
         /\ window.leases \in Nat /\ window.leases > 0 /\ window.leases - 1 \in Nat
         /\ t \in LeaseHolders(window.session)
         /\ LeaseHolders(window.session) \in SUBSET Threads
         /\ Cardinality(LeaseHolders(window.session)) = window.leases
<1>1. HasWindow /\ window.session = thread[t].session /\ Shaped(window)
      /\ window.leases \in Nat
  BY DEF WindowInvariant, WindowTypeOK, LeasesOwned, IsSession, Shaped
<1>2. t \in LeaseHolders(window.session) /\ LeaseHolders(window.session) \in SUBSET Threads
  BY <1>1 DEF LeaseHolders
<1>3. Cardinality(LeaseHolders(window.session)) = window.leases
  BY <1>1 DEF WindowInvariant, LeasesExact
<1>4. window.leases # 0
  BY <1>2, <1>3, HoldersFacts
<1>. QED BY <1>1, <1>2, <1>3, <1>4

\* One holder less.
LEMMA ReleasedKeeps ==
  ASSUME WindowInvariant, NEW t \in Threads, thread[t].op \in LeaseOps,
         Shaped(window'), window'.session = window.session,
         window.life \in Closed => window'.life \in Closed,
         window'.leases = window.leases - 1,
         UNCHANGED <<sessions, documents>>, picking' = picking,
         thread' \in [Threads -> Tasks],
         thread'[t].op \in Quiet, thread'[t].session \in {0, window.session},
         \A u \in Threads \ {t} :
            \/ thread'[u] = thread[u]
            \/ /\ thread[u].op \in Quiet /\ thread'[u].op \in Quiet
               /\ thread'[u].session = thread[u].session,
         FocusAsked'
  PROVE  WindowInvariant' /\ StaysClosed
<1>1. /\ HasWindow /\ Shaped(window) /\ window.session = thread[t].session
      /\ window.leases \in Nat /\ window.leases > 0
      /\ t \in LeaseHolders(window.session)
      /\ LeaseHolders(window.session) \in SUBSET Threads
      /\ Cardinality(LeaseHolders(window.session)) = window.leases
  BY HeldLease
<1>2. /\ \A u \in Threads \ {t} : thread'[u].op \in LeaseOps \cup HideOps
                                  \/ thread[u].op \in LeaseOps => thread'[u] = thread[u]
      /\ thread'[t].op \notin LeaseOps /\ thread'[t].op \notin HideOps
  BY DEF Quiet, LeaseOps, HideOps, HidingOps
<1>3. LeaseHolders(window.session)' = LeaseHolders(window.session) \ {t}
  BY <1>2 DEF LeaseHolders
<1>4. Cardinality(LeaseHolders(window.session)') = window.leases - 1
  BY <1>1, <1>3, HoldersFacts
<1>5. \A u \in Threads : thread'[u].session \in {thread[u].session, window.session, 0}
  OBVIOUS
<1>6. \A u \in Threads : thread'[u].op \in LeaseOps => thread'[u].session = window.session
  BY <1>2 DEF WindowInvariant, LeasesOwned, IsSession
<1>7. \A u \in Threads : thread'[u].op \in HideOps =>
         /\ thread'[u].doc > 0
         /\ thread'[u].session = window.session =>
               window'.life \in Closed /\ (thread'[u].blurred => picking' # thread'[u].doc)
  BY <1>1, <1>2 DEF WindowInvariant, HidesClose, IsSession
<1>. QED BY <1>1, <1>4, <1>5, <1>6, <1>7, SessionKeeps

LEMMA DropKeeps ==
  ASSUME WindowInvariant, DropStep
  PROVE  WindowInvariant' /\ StaysClosed
<1>1. thread["main"].op \in LeaseOps /\ "main" \in Threads
  BY DEF DropStep, LeaseOps, Threads
<1>2. /\ HasWindow /\ Shaped(window) /\ window.session = thread["main"].session
      /\ window.leases \in Nat /\ window.leases > 0 /\ window.leases - 1 \in Nat
  BY <1>1, HeldLease
<1>3. window' = [window EXCEPT !.leases = window.leases - 1]
  BY <1>2 DEF DropStep, DropLease, IsSession
<1>4. /\ Shaped(window') /\ window'.session = window.session
      /\ window'.life = window.life /\ window'.leases = window.leases - 1
  BY <1>2, <1>3, Recounted
<1>5. thread'["main"].op \in Quiet /\ thread'["main"].session \in {0, window.session}
  BY DEF DropStep, Resting, Quiet
<1>6. FocusAsked'
  BY DEF DropStep, Resting, FocusAsked
<1>. QED BY <1>1, <1>4, <1>5, <1>6, ReleasedKeeps DEF DropStep

-----------------------------------------------------------------------------
(* Hides *)

\* A session that is updated once, and twice.
LEMMA Updated ==
  ASSUME NEW w, Shaped(w), NEW x
  PROVE  /\ Shaped([w EXCEPT !.life = x])
         /\ [w EXCEPT !.life = x].session = w.session /\ [w EXCEPT !.life = x].doc = w.doc
         /\ [w EXCEPT !.life = x].leases = w.leases /\ [w EXCEPT !.life = x].life = x
         /\ Touches(w, [w EXCEPT !.request = x]) /\ [w EXCEPT !.request = x].life = w.life
         /\ Touches(w, [w EXCEPT !.focused = x]) /\ [w EXCEPT !.focused = x].life = w.life
         /\ Touches(w, [w EXCEPT !.phase = x]) /\ Touches(w, [w EXCEPT !.pinned = x])
         /\ Touches(w, [w EXCEPT !.revoked = x])
<1>1. /\ Shaped([w EXCEPT !.life = x])
      /\ [w EXCEPT !.life = x].session = w.session /\ [w EXCEPT !.life = x].doc = w.doc
      /\ [w EXCEPT !.life = x].leases = w.leases /\ [w EXCEPT !.life = x].life = x
  BY DEF Shaped
<1>2. Touches(w, [w EXCEPT !.request = x]) /\ [w EXCEPT !.request = x].life = w.life
  BY DEF Shaped, Touches
<1>3. Touches(w, [w EXCEPT !.focused = x]) /\ [w EXCEPT !.focused = x].life = w.life
  BY DEF Shaped, Touches
<1>4. Touches(w, [w EXCEPT !.phase = x]) /\ Touches(w, [w EXCEPT !.pinned = x])
      /\ Touches(w, [w EXCEPT !.revoked = x])
  BY DEF Shaped, Touches
<1>. QED BY <1>1, <1>2, <1>3, <1>4

LEMMA UpdatedTwice ==
  ASSUME NEW w, Shaped(w), NEW a, NEW b, NEW c
  PROVE  /\ [w EXCEPT !.life = a, !.request = b] = [[w EXCEPT !.life = a] EXCEPT !.request = b]
         /\ [w EXCEPT !.life = a, !.request = b, !.focused = c]
               = [[w EXCEPT !.life = a, !.request = b] EXCEPT !.focused = c]
<1>1. [w EXCEPT !.life = a, !.request = b] = [[w EXCEPT !.life = a] EXCEPT !.request = b]
  BY DEF Shaped
<1>2. [w EXCEPT !.life = a, !.request = b, !.focused = c]
         = [[w EXCEPT !.life = a, !.request = b] EXCEPT !.focused = c]
  BY DEF Shaped
<1>. QED BY <1>1, <1>2

\* The window of a session that is closed: it has its document and leases still.
Closes(w, v, life) ==
    Shaped(v) /\ v.session = w.session /\ v.doc = w.doc /\ v.leases = w.leases /\ v.life = life

LEMMA ClosedFor ==
  ASSUME NEW w, Shaped(w), NEW life
  PROVE  /\ Closes(w, [w EXCEPT !.life = life, !.request = FALSE], life)
         /\ Closes(w, [w EXCEPT !.life = life, !.request = FALSE, !.focused = FALSE], life)
<1> DEFINE v1 == [w EXCEPT !.life = life]
           v2 == [v1 EXCEPT !.request = FALSE]
           v3 == [v2 EXCEPT !.focused = FALSE]
<1>1. Closes(w, v1, life)
  BY Updated DEF Closes
<1> HIDE DEF v1
<1>2. Touches(v1, v2) /\ v2.life = v1.life
  BY <1>1, Updated DEF Closes
<1> HIDE DEF v2
<1>3. Closes(w, v2, life)
  BY <1>1, <1>2 DEF Closes, Touches
<1>4. Touches(v2, v3) /\ v3.life = v2.life
  BY <1>3, Updated DEF Closes
<1> HIDE DEF v3
<1>5. Closes(w, v3, life)
  BY <1>3, <1>4 DEF Closes, Touches
<1>6. [w EXCEPT !.life = life, !.request = FALSE] = v2
  BY UpdatedTwice DEF v1, v2
<1>7. [w EXCEPT !.life = life, !.request = FALSE, !.focused = FALSE] = v3
  BY <1>6, UpdatedTwice DEF v3
<1>. QED BY <1>3, <1>5, <1>6, <1>7

LEMMA ClosingFacts ==
  ASSUME Shaped(window)
  PROVE  /\ Closes(window, Closing, "closing")
         /\ Closes(window, Revoked, "revoked") /\ Closes(window, RevokedDocument, "revoked")
         /\ \A x : /\ Closes(window, [Revoked EXCEPT !.pinned = x], "revoked")
                   /\ Closes(window, [Revoked EXCEPT !.focused = x], "revoked")
<1>1. Closes(window, Closing, "closing") /\ Closes(window, Revoked, "revoked")
  BY ClosedFor DEF Closing, Revoked
<1> DEFINE r == Revoked
<1> HIDE DEF r
<1>2. Closes(window, r, "revoked")
  BY <1>1 DEF r
<1>3. ASSUME NEW x PROVE /\ Closes(window, [r EXCEPT !.revoked = x], "revoked")
                         /\ Closes(window, [r EXCEPT !.pinned = x], "revoked")
                         /\ Closes(window, [r EXCEPT !.focused = x], "revoked")
  <2>1. /\ Touches(r, [r EXCEPT !.revoked = x]) /\ Touches(r, [r EXCEPT !.pinned = x])
        /\ Touches(r, [r EXCEPT !.focused = x])
    BY <1>2, Updated DEF Closes
  <2>2. /\ [r EXCEPT !.revoked = x].life = r.life /\ [r EXCEPT !.pinned = x].life = r.life
        /\ [r EXCEPT !.focused = x].life = r.life
    BY <1>2 DEF Closes, Shaped
  <2>. QED BY <1>2, <2>1, <2>2 DEF Closes, Touches
<1>. QED BY <1>1, <1>3 DEF r, RevokedDocument

\* With another number of leases.
LEMMA ClosesRecounted ==
  ASSUME NEW w, NEW v, NEW life, Closes(w, v, life), NEW n \in Nat
  PROVE  LET u == [v EXCEPT !.leases = n]
         IN  Shaped(u) /\ u.session = w.session /\ u.doc = w.doc /\ u.life = life
             /\ u.leases = n
BY Recounted DEF Closes

BeginHideStep(t, d, blurred) ==
    /\ HasWindow /\ window.doc = d /\ thread[t].op \in Moving
    /\ BeginHide(t, d, blurred)
    /\ picking' \in {picking, 0} /\ (blurred => picking' # d)
    /\ UNCHANGED <<sessions, documents>>

LEMMA BeginHideKeeps ==
  ASSUME WindowInvariant, NEW t \in Threads, NEW d, NEW blurred \in BOOLEAN,
         BeginHideStep(t, d, blurred)
  PROVE  WindowInvariant' /\ StaysClosed
<1> DEFINE task(op) == [op |-> op, session |-> window.session, doc |-> d,
                        blurred |-> blurred]
<1>1. Shaped(window) /\ HasWindow /\ window.session \in Nat /\ d \in Nat /\ d > 0
      /\ window.leases \in Nat
  BY DEF WindowInvariant, WindowTypeOK, BeginHideStep, Shaped
<1>2. task("hideWait") \in Tasks /\ task("hiding") \in Tasks
  BY <1>1 DEF Tasks, Ops, HideOps, HidingOps
<1>3. thread \in [Threads -> Tasks]
  BY DEF WindowInvariant, WindowTypeOK
<1>4. ASSUME NEW op \in {"hideWait", "hiding"}, thread' = [thread EXCEPT ![t] = task(op)]
      PROVE  /\ thread' \in [Threads -> Tasks]
             /\ \A u \in Threads : thread'[u].session \in {thread[u].session, window.session, 0}
             /\ \A u \in Threads \ {t} : thread'[u] = thread[u]
             /\ thread'[t] = task(op)
             /\ FocusAsked'
  <2>1. /\ thread' \in [Threads -> Tasks]
        /\ \A u \in Threads : thread'[u].session \in {thread[u].session, window.session, 0}
        /\ \A u \in Threads \ {t} : thread'[u] = thread[u]
        /\ thread'[t] = task(op) /\ thread'[t].op = op
    BY <1>2, <1>3, <1>4
  <2> HIDE DEF task
  <2>2. FocusAsked'
    BY <2>1 DEF WindowInvariant, FocusAsked, BeginHideStep, Moving, Threads
  <2>. QED BY <2>1, <2>2
<1>5. ASSUME NEW op \in {"hideWait", "hiding"}, thread' = [thread EXCEPT ![t] = task(op)],
             window'.life \in Closed
      PROVE  \A u \in Threads : thread'[u].op \in HideOps =>
                /\ thread'[u].doc > 0
                /\ thread'[u].session = window.session =>
                      window'.life \in Closed
                      /\ (thread'[u].blurred => picking' # thread'[u].doc)
  <2> SUFFICES ASSUME NEW u \in Threads, thread'[u].op \in HideOps
               PROVE  thread'[u].doc > 0
                      /\ (thread'[u].session = window.session =>
                             (thread'[u].blurred => picking' # thread'[u].doc))
    BY <1>5
  <2>1. CASE u = t
    BY <1>1, <1>4, <1>5, <2>1 DEF BeginHideStep
  <2>2. CASE u # t
    <3>1. thread'[u] = thread[u] /\ thread[u].doc > 0 /\ thread[u].doc \in Nat
      BY <1>3, <1>4, <1>5, <2>2 DEF WindowInvariant, HidesClose, Tasks
    <3>. QED BY <1>1, <3>1 DEF WindowInvariant, HidesClose, IsSession, BeginHideStep
  <2>. QED BY <2>1, <2>2
<1>6. CASE Leased
  <2>1. window' = Closing /\ thread' = [thread EXCEPT ![t] = task("hideWait")]
    BY <1>6 DEF BeginHideStep, BeginHide
  <2>2. /\ Shaped(window') /\ window'.session = window.session
        /\ window'.life \in Closed /\ window'.leases = window.leases
    BY <1>1, <2>1, ClosingFacts DEF Closes, Closed
  <2>3. /\ \A u \in Threads : thread'[u].op \in LeaseOps \/ thread[u].op \in LeaseOps
                                 => thread'[u] = thread[u]
    BY <1>4, <2>1 DEF BeginHideStep, Moving, Quiet, LeaseOps, HidingOps
  <2>4. LeaseHolders(window.session)' = LeaseHolders(window.session)
    BY <2>2, <2>3 DEF LeaseHolders
  <2>5. window'.leases = Cardinality(LeaseHolders(window.session)')
    BY <1>1, <2>2, <2>4 DEF WindowInvariant, LeasesExact
  <2>6. \A u \in Threads : thread'[u].op \in LeaseOps => thread'[u].session = window.session
    BY <2>3 DEF WindowInvariant, LeasesOwned, IsSession
  <2> HIDE DEF task
  <2>. QED BY <1>1, <1>4, <1>5, <2>1, <2>2, <2>5, <2>6, SessionKeeps DEF BeginHideStep
<1>7. CASE ~Leased
  <2>1. window' = [Closing EXCEPT !.leases = 1]
        /\ thread' = [thread EXCEPT ![t] = task("hiding")]
    BY <1>7 DEF BeginHideStep, BeginHide
  <2>2. /\ Shaped(window') /\ window'.session = window.session
        /\ window'.life \in Closed /\ window'.leases = 1
    BY <1>1, <2>1, ClosingFacts, ClosesRecounted DEF Closed
  <2>3. \A u \in Threads : thread[u].op \notin LeaseOps
    BY <1>7, NoLease
  <2>4. thread'[t].op \in LeaseOps /\ thread'[t].session = window.session
        /\ \A u \in Threads \ {t} : thread'[u].op \notin LeaseOps
    BY <1>4, <2>1, <2>3 DEF LeaseOps, HidingOps
  <2>5. LeaseHolders(window.session)' = {t}
    BY <2>2, <2>4 DEF LeaseHolders
  <2>6. window'.leases = Cardinality(LeaseHolders(window.session)')
    BY <2>2, <2>5, FS_Singleton
  <2>7. \A u \in Threads : thread'[u].op \in LeaseOps => thread'[u].session = window.session
    BY <2>4
  <2> HIDE DEF task
  <2>. QED BY <1>1, <1>4, <1>5, <2>1, <2>2, <2>6, <2>7, SessionKeeps DEF BeginHideStep
<1>. QED BY <1>6, <1>7

\* A hide that has waited goes on, is given up, or waits again.
LEMMA AwaitHideKeeps ==
  ASSUME WindowInvariant, NEW t \in Threads, AwaitHide(t)
  PROVE  WindowInvariant' /\ StaysClosed
<1>1. /\ thread[t].op = "hideWait" /\ thread \in [Threads -> Tasks]
      /\ UNCHANGED <<sessions, documents, picking>>
  BY DEF AwaitHide, WindowInvariant, WindowTypeOK
<1>2. CASE UNCHANGED <<window, thread>>
  <2>1. TouchStep
    BY <1>1, <1>2 DEF TouchStep, QuietThreads
  <2>. QED BY <2>1, TouchKeeps
<1>3. CASE UNCHANGED window /\ Rest(t)
  <2>1. Resting \in Tasks
    BY DEF Resting, Tasks, Ops, Quiet
  <2>2. /\ thread' \in [Threads -> Tasks] /\ thread'[t] = Resting
        /\ \A u \in Threads \ {t} : thread'[u] = thread[u]
    BY <1>1, <1>3, <2>1 DEF Rest
  <2>3. QuietThreads
    <3>1. Resting.op \in Quiet /\ Resting.session = 0
      BY DEF Resting, Quiet
    <3>. QED BY <1>1, <2>2, <3>1 DEF QuietThreads
  <2>4. TouchStep
    BY <1>1, <1>3, <2>3 DEF TouchStep
  <2>. QED BY <2>4, TouchKeeps
<1>4. CASE /\ IsSession(thread[t].session) /\ OfDocument(thread[t].doc) /\ ~Leased
           /\ window.life = "closing"
           /\ window' = [window EXCEPT !.leases = 1] /\ Do(t, "hiding")
  <2>1. HasWindow /\ Shaped(window) /\ thread[t].session = window.session
    BY <1>4 DEF WindowInvariant, WindowTypeOK, IsSession
  <2>2. /\ Shaped(window') /\ window'.session = window.session
        /\ window'.life = "closing" /\ window'.leases = 1
    BY <1>4, <2>1, Recounted
  <2>3. \A u \in Threads : thread[u].op \notin LeaseOps
    BY <1>4, NoLease
  <2>4. /\ thread' \in [Threads -> Tasks]
        /\ thread'[t].op = "hiding" /\ thread'[t].session = thread[t].session
        /\ thread'[t].doc = thread[t].doc /\ thread'[t].blurred = thread[t].blurred
        /\ \A u \in Threads \ {t} : thread'[u] = thread[u]
    <3>1. [thread[t] EXCEPT !.op = "hiding"] \in Tasks
      BY <1>1 DEF Tasks, Ops, HideOps, HidingOps
    <3>2. thread' = [thread EXCEPT ![t] = [thread[t] EXCEPT !.op = "hiding"]]
      BY <1>4 DEF Do
    <3>3. thread[t] \in Tasks
      BY <1>1
    <3>. QED BY <1>1, <3>1, <3>2, <3>3 DEF Tasks
  <2>5. LeaseHolders(window.session)' = {t}
    BY <2>1, <2>2, <2>3, <2>4 DEF LeaseHolders, LeaseOps, HidingOps
  <2>6. window'.leases = Cardinality(LeaseHolders(window.session)')
    BY <2>2, <2>5, FS_Singleton
  <2>7. /\ \A u \in Threads : thread'[u].op \in LeaseOps => thread'[u].session = window.session
        /\ \A u \in Threads : thread'[u].session \in {thread[u].session, window.session, 0}
    BY <2>1, <2>3, <2>4
  <2>8. \A u \in Threads : thread'[u].op \in HideOps =>
            /\ thread'[u].doc > 0
            /\ thread'[u].session = window.session =>
                  window'.life \in Closed /\ (thread'[u].blurred => picking' # thread'[u].doc)
    <3>1. \A u \in Threads : thread'[u].op \in HideOps => thread[u].op \in HideOps
      BY <1>1, <2>4 DEF HideOps
    <3>2. \A u \in Threads : /\ thread'[u].doc = thread[u].doc
                             /\ thread'[u].blurred = thread[u].blurred
                             /\ thread'[u].session = thread[u].session
      BY <2>4
    <3>. QED BY <1>1, <2>1, <2>2, <3>1, <3>2
             DEF WindowInvariant, HidesClose, IsSession, Closed
  <2>9. (window.life \in Closed => window'.life \in Closed) /\ FocusAsked'
    BY <1>1, <2>2, <2>4 DEF Closed, WindowInvariant, FocusAsked, Threads
  <2>. QED BY <1>1, <2>1, <2>2, <2>4, <2>6, <2>7, <2>8, <2>9, SessionKeeps
<1>. QED BY <1>2, <1>3, <1>4 DEF AwaitHide

LEMMA HideNativeKeeps ==
  ASSUME WindowInvariant, NEW t \in Threads, HideNative(t)
  PROVE  WindowInvariant' /\ StaysClosed
<1>1. /\ thread[t].op = "hiding" /\ thread \in [Threads -> Tasks] /\ thread[t] \in Tasks
      /\ UNCHANGED <<window, sessions, documents, picking>>
  BY DEF HideNative, WindowInvariant, WindowTypeOK, core
<1>2. thread[t].op \in LeaseOps /\ thread[t].op \in HideOps
  BY <1>1 DEF LeaseOps, HideOps, HidingOps
<1>3. /\ HasWindow /\ Shaped(window) /\ window.session = thread[t].session
      /\ Cardinality(LeaseHolders(window.session)) = window.leases
  BY <1>2, HeldLease
<1>4. PICK op \in {"hidden", "notHidden"} :
          thread' = [thread EXCEPT ![t] = [thread[t] EXCEPT !.op = op]]
  BY DEF HideNative, Do
<1>5. [thread[t] EXCEPT !.op = op] \in Tasks
  BY <1>1 DEF Tasks, Ops, HideOps, HidingOps
<1>6. /\ thread' \in [Threads -> Tasks]
      /\ thread'[t].op = op /\ thread'[t].session = thread[t].session
      /\ thread'[t].doc = thread[t].doc /\ thread'[t].blurred = thread[t].blurred
      /\ \A u \in Threads \ {t} : thread'[u] = thread[u]
  BY <1>1, <1>4, <1>5 DEF Tasks
<1>7. thread'[t].op \in LeaseOps /\ thread'[t].op \in HideOps
  BY <1>6 DEF LeaseOps, HideOps, HidingOps
<1>8. LeaseHolders(window.session)' = LeaseHolders(window.session)
  BY <1>1, <1>2, <1>6, <1>7 DEF LeaseHolders
<1>9. \A u \in Threads : /\ thread'[u].op \in LeaseOps <=> thread[u].op \in LeaseOps
                         /\ thread'[u].op \in HideOps <=> thread[u].op \in HideOps
                         /\ thread'[u].session = thread[u].session
                         /\ thread'[u].doc = thread[u].doc
                         /\ thread'[u].blurred = thread[u].blurred
  BY <1>2, <1>6, <1>7
<1>10. \A u \in Threads : thread'[u].op \in LeaseOps => thread'[u].session = window.session
  BY <1>9 DEF WindowInvariant, LeasesOwned, IsSession
<1>11. \A u \in Threads : thread'[u].op \in HideOps =>
          /\ thread'[u].doc > 0
          /\ thread'[u].session = window.session =>
                window'.life \in Closed /\ (thread'[u].blurred => picking' # thread'[u].doc)
  BY <1>1, <1>3, <1>9 DEF WindowInvariant, HidesClose, IsSession
<1>12. \A u \in Threads : thread'[u].session \in {thread[u].session, window.session, 0}
  BY <1>9
<1>13. FocusAsked'
  BY <1>1, <1>6 DEF WindowInvariant, FocusAsked, Threads
<1>. QED BY <1>1, <1>3, <1>6, <1>8, <1>10, <1>11, <1>12, <1>13, SessionKeeps

\* A session whose hide is over, without the lease of the hide.
LEMMA EndHideKeeps ==
  ASSUME WindowInvariant, NEW t \in Threads, EndHide(t)
  PROVE  WindowInvariant' /\ StaysClosed
<1>1. /\ thread[t].op \in {"hidden", "notHidden"} /\ thread \in [Threads -> Tasks]
      /\ Rest(t) /\ UNCHANGED <<sessions, documents, picking>>
  BY DEF EndHide, WindowInvariant, WindowTypeOK
<1>2. thread[t].op \in LeaseOps
  BY <1>1 DEF LeaseOps, HidingOps
<1>3. /\ HasWindow /\ Shaped(window) /\ window.session = thread[t].session
      /\ window.leases \in Nat /\ window.leases > 0 /\ window.leases - 1 \in Nat
  BY <1>2, HeldLease
<1> DEFINE less(w) == [w EXCEPT !.leases = window.leases - 1]
<1>4. \/ window' = less(window)
      \/ window.life = "closing" /\ window' = less([Revoked EXCEPT !.pinned = FALSE])
      \/ window' = less(RevokedDocument)
  <2> DEFINE p == [Revoked EXCEPT !.pinned = FALSE]
             r == RevokedDocument
  <2>1. Closes(window, p, "revoked") /\ Closes(window, r, "revoked")
    BY <1>3, ClosingFacts
  <2> HIDE DEF p, r
  <2>2. /\ p.session = window.session /\ p.leases = window.leases
        /\ r.session = window.session /\ r.leases = window.leases
    BY <2>1 DEF Closes
  <2>3. CASE thread[t].op = "hidden"
    <3>1. window' = IF window.life = "closing"
                    THEN IF p.session = thread[t].session /\ p.leases > 0
                         THEN [p EXCEPT !.leases = p.leases - 1] ELSE p
                    ELSE IF window.session = thread[t].session /\ window.leases > 0
                         THEN [window EXCEPT !.leases = window.leases - 1] ELSE window
      BY <1>3, <2>3 DEF EndHide, p
    <3>. QED BY <1>3, <2>2, <3>1 DEF p, r
  <2>4. CASE thread[t].op = "notHidden"
    <3>1. window' = IF OfDocument(thread[t].doc)
                    THEN IF r.session = thread[t].session /\ r.leases > 0
                         THEN [r EXCEPT !.leases = r.leases - 1] ELSE r
                    ELSE IF window.session = thread[t].session /\ window.leases > 0
                         THEN [window EXCEPT !.leases = window.leases - 1] ELSE window
      BY <1>3, <2>4 DEF EndHide, r
    <3>. QED BY <1>3, <2>2, <3>1 DEF p, r
  <2>. QED BY <1>1, <2>3, <2>4
<1>5. /\ Shaped(window') /\ window'.session = window.session
      /\ window'.leases = window.leases - 1
      /\ window.life \in Closed => window'.life \in Closed
  <2>1. CASE window' = less(window)
    BY <1>3, <2>1, Recounted
  <2>2. CASE window' = less([Revoked EXCEPT !.pinned = FALSE])
    <3> DEFINE p == [Revoked EXCEPT !.pinned = FALSE]
    <3>1. Closes(window, p, "revoked") /\ window' = [p EXCEPT !.leases = window.leases - 1]
      BY <1>3, <2>2, ClosingFacts
    <3> HIDE DEF p
    <3>2. /\ Shaped(window') /\ window'.session = window.session
          /\ window'.life = "revoked" /\ window'.leases = window.leases - 1
      BY <1>3, <3>1, ClosesRecounted
    <3>. QED BY <3>2 DEF Closed
  <2>3. CASE window' = less(RevokedDocument)
    <3>1. Closes(window, RevokedDocument, "revoked")
      BY <1>3, ClosingFacts
    <3>. QED BY <1>3, <2>3, <3>1, ClosesRecounted DEF Closed
  <2> HIDE DEF less
  <2>. QED BY <1>4, <2>1, <2>2, <2>3
<1>6. /\ Resting \in Tasks /\ Resting.op \in Quiet /\ Resting.session = 0
  BY DEF Resting, Tasks, Ops, Quiet
<1>7. /\ thread' \in [Threads -> Tasks] /\ thread'[t] = Resting
      /\ \A u \in Threads \ {t} : thread'[u] = thread[u]
  BY <1>1, <1>6 DEF Rest
<1>8. FocusAsked'
  BY <1>1, <1>7 DEF WindowInvariant, FocusAsked, Threads, Resting
<1>. QED BY <1>1, <1>2, <1>5, <1>6, <1>7, <1>8, ReleasedKeeps

\* The tasks that begin: a call, the focus, a picker.
Begun(stage, n, d) == [op |-> stage, session |-> n, doc |-> d, blurred |-> FALSE]
BegunCall(stage, n) == [Resting EXCEPT !.op = stage, !.session = n]
BegunPicker(stage, n, d) == [Resting EXCEPT !.op = stage, !.session = n, !.doc = d]

LEMMA BegunTasks ==
  ASSUME NEW stage, NEW n, NEW d
  PROVE  BegunCall(stage, n) = Begun(stage, n, 0)
         /\ BegunPicker(stage, n, d) = Begun(stage, n, d)
<1> DEFINE r == Resting
<1>1. r = [op |-> r.op, session |-> r.session, doc |-> r.doc, blurred |-> r.blurred]
      /\ r.doc = 0 /\ r.blurred = FALSE
  BY DEF Resting
<1> HIDE DEF r
<1> DEFINE r1 == [r EXCEPT !.op = stage]
           r2 == [r1 EXCEPT !.session = n]
           r3 == [r2 EXCEPT !.doc = d]
<1>2. [r EXCEPT !.op = stage, !.session = n] = r2
      /\ [r EXCEPT !.op = stage, !.session = n, !.doc = d] = r3
  BY <1>1
<1>3. r1 = [op |-> stage, session |-> r.session, doc |-> r.doc, blurred |-> r.blurred]
  BY <1>1
<1> HIDE DEF r1
<1>4. r2 = [op |-> stage, session |-> n, doc |-> r.doc, blurred |-> r.blurred]
  BY <1>3
<1> HIDE DEF r2
<1>5. r3 = [op |-> stage, session |-> n, doc |-> d, blurred |-> r.blurred]
  BY <1>4
<1> HIDE DEF r3
<1>6. [r EXCEPT !.op = stage, !.session = n]
         = [op |-> stage, session |-> n, doc |-> 0, blurred |-> FALSE]
  BY <1>1, <1>2, <1>4
<1>7. [r EXCEPT !.op = stage, !.session = n, !.doc = d]
         = [op |-> stage, session |-> n, doc |-> d, blurred |-> FALSE]
  BY <1>1, <1>2, <1>5
<1>. QED BY <1>6, <1>7 DEF r, Begun, BegunCall, BegunPicker

\* The picker opens only for a session that is active, which nobody hides.
LEMMA OpenPickerKeeps ==
  ASSUME WindowInvariant, OpenPicker
  PROVE  WindowInvariant' /\ StaysClosed
<1>1. /\ HasWindow /\ Shaped(window) /\ window.life \notin Closed
      /\ thread["picker"] = Resting /\ thread \in [Threads -> Tasks]
      /\ UNCHANGED <<window, sessions, documents>>
  BY DEF OpenPicker, FileIdentityCurrent, Closed, WindowInvariant, WindowTypeOK, core
<1>2. /\ thread'["picker"].op = "open" /\ thread'["picker"].session = window.session
      /\ \A t \in Threads \ {"picker"} : thread'[t] = thread[t]
      /\ thread' \in [Threads -> Tasks]
  <2> DEFINE task == Begun("open", window.session, window.doc)
  <2>1. task \in Tasks /\ task.op = "open" /\ task.session = window.session
    BY <1>1 DEF Begun, Tasks, Ops, Quiet, Shaped
  <2>2. thread' = [thread EXCEPT !["picker"] = BegunPicker("open", window.session, window.doc)]
    BY DEF OpenPicker, BegunPicker
  <2>3. BegunPicker("open", window.session, window.doc) = task
    BY BegunTasks
  <2>4. "picker" \in Threads
    BY DEF Threads
  <2> HIDE DEF task
  <2>. QED BY <1>1, <2>1, <2>2, <2>3, <2>4
<1>3. \A t \in Threads : thread'[t].op \in LeaseOps \cup HideOps \/ thread[t].op \in LeaseOps
                            => thread'[t] = thread[t]
  BY <1>1, <1>2 DEF LeaseOps, HideOps, HidingOps, Resting
<1>4. LeaseHolders(window.session)' = LeaseHolders(window.session)
  BY <1>1, <1>3 DEF LeaseHolders
<1>5. \A t \in Threads : thread'[t].op \in LeaseOps => thread'[t].session = window.session
  BY <1>3 DEF WindowInvariant, LeasesOwned, IsSession
<1>6. \A t \in Threads : thread'[t].op \in HideOps =>
         thread'[t].doc > 0 /\ thread'[t].session # window.session
  BY <1>1, <1>3 DEF WindowInvariant, HidesClose, IsSession
<1>7. window'.leases = Cardinality(LeaseHolders(window.session)')
  BY <1>1, <1>4 DEF WindowInvariant, LeasesExact
<1>8. \A t \in Threads : thread'[t].session \in {thread[t].session, window.session, 0}
  BY <1>2
<1>9. FocusAsked'
  BY <1>1, <1>2 DEF WindowInvariant, FocusAsked, Threads, Resting
<1>. QED BY <1>1, <1>2, <1>5, <1>6, <1>7, <1>8, <1>9, SessionKeeps

-----------------------------------------------------------------------------
(* Steps without a lease *)

WithPhase(x) == [window EXCEPT !.phase = x]
WithFocused(x) == [window EXCEPT !.focused = x]
WithPinned(x) == [window EXCEPT !.pinned = x]
WithRequest(x) == [window EXCEPT !.request = x]
RevokedPinned(x) == [Revoked EXCEPT !.pinned = x]
RevokedFocused(x) == [Revoked EXCEPT !.focused = x]
Activated == [window EXCEPT !.life = "active"]

TouchedWindow ==
    \/ UNCHANGED window
    \/ /\ HasWindow
       /\ \/ window' \in {Closing, Revoked, RevokedDocument}
          \/ \E x : window' = WithPhase(x) \/ window' = WithFocused(x) \/ window' = WithPinned(x)
          \/ \E x : window' = WithRequest(x) \/ window' = RevokedPinned(x)
                 \/ window' = RevokedFocused(x)
          \/ window.life = "prepared" /\ window' = Activated

MovedThreads ==
    \/ UNCHANGED thread
    \/ \E t \in Threads : /\ thread[t].op \in Moving
                          /\ Rest(t) \/ \E op \in Quiet : Do(t, op)

LEMMA MovedQuietly ==
  ASSUME WindowInvariant, MovedThreads
  PROVE  QuietThreads
<1>1. thread \in [Threads -> Tasks]
  BY DEF WindowInvariant, WindowTypeOK
<1>2. CASE UNCHANGED thread
  BY <1>1, <1>2 DEF QuietThreads
<1>3. ASSUME NEW t \in Threads, thread[t].op \in Moving, Rest(t)
      PROVE  QuietThreads
  <2>1. Resting \in Tasks /\ Resting.op \in Quiet /\ Resting.session = 0
    BY DEF Resting, Tasks, Ops, Quiet
  <2>. QED BY <1>1, <1>3, <2>1 DEF Rest, QuietThreads
<1>4. ASSUME NEW t \in Threads, thread[t].op \in Moving, NEW op \in Quiet, Do(t, op)
      PROVE  QuietThreads
  <2> DEFINE task == [thread[t] EXCEPT !.op = op]
  <2>1. thread[t] \in Tasks
    BY <1>1
  <2>2. task \in Tasks /\ task.op = op /\ task.session = thread[t].session
    BY <2>1 DEF Tasks, Ops
  <2>3. thread' = [thread EXCEPT ![t] = task]
    BY <1>4 DEF Do
  <2> HIDE DEF task
  <2>. QED BY <1>1, <1>4, <2>2, <2>3 DEF QuietThreads
<1>. QED BY <1>2, <1>3, <1>4 DEF MovedThreads

LEMMA TouchedShape ==
  ASSUME WindowInvariant, TouchedWindow
  PROVE  window' = window \/ (HasWindow /\ Touches(window, window'))
<1>1. CASE UNCHANGED window
  BY <1>1
<1>2. CASE HasWindow
  <2>1. Shaped(window)
    BY <1>2 DEF WindowInvariant, WindowTypeOK
  <2>2. \A v, life : Closes(window, v, life) /\ life \in Closed => Touches(window, v)
    BY DEF Closes, Touches
  <2>3. window' \in {Closing, Revoked, RevokedDocument} => Touches(window, window')
    BY <2>1, <2>2, ClosingFacts DEF Closed
  <2>4. ASSUME NEW x PROVE /\ Touches(window, WithPhase(x)) /\ Touches(window, WithFocused(x))
                           /\ Touches(window, WithPinned(x)) /\ Touches(window, WithRequest(x))
    BY <2>1, Updated DEF WithPhase, WithFocused, WithPinned, WithRequest
  <2>5. ASSUME NEW x PROVE Touches(window, RevokedPinned(x)) /\ Touches(window, RevokedFocused(x))
    BY <2>1, <2>2, ClosingFacts DEF Closed, RevokedPinned, RevokedFocused
  <2>6. window.life = "prepared" => Touches(window, Activated)
    <3>1. /\ Shaped(Activated) /\ Activated.session = window.session
          /\ Activated.doc = window.doc /\ Activated.leases = window.leases
      BY <2>1, Updated DEF Activated
    <3>. QED BY <3>1 DEF Touches, Closed
  <2>. QED BY <1>2, <2>3, <2>4, <2>5, <2>6 DEF TouchedWindow
<1>. QED BY <1>1, <1>2 DEF TouchedWindow

LEMMA QuietKeeps ==
  ASSUME WindowInvariant, TouchedWindow, MovedThreads,
         UNCHANGED <<sessions, documents>>, picking' \in {picking, 0}
  PROVE  WindowInvariant' /\ StaysClosed
BY TouchedShape, MovedQuietly, TouchKeeps DEF TouchStep

-----------------------------------------------------------------------------
(* prepare and commit *)

LEMMA ReplaceSteps ==
  ASSUME WindowInvariant, NEW s \in Submissions, ~Leased, Replace(s), UNCHANGED <<thread, picking>>
  PROVE  WindowInvariant' /\ StaysClosed
<1>1. /\ sessions \in Nat /\ documents \in Nat
      /\ HasWindow => window.doc \in Nat /\ window.doc > 0
  BY DEF WindowInvariant, WindowTypeOK, Shaped
<1>2. QuietThreads
  BY MovedQuietly DEF MovedThreads
<1>3. sessions' = sessions + 1 /\ documents' \in Nat /\ sessions' \in Nat
  BY <1>1 DEF Replace
<1>4. Shaped(window') /\ window'.session = sessions + 1 /\ window'.leases = 0
  <2> DEFINE same == HasWindow /\ window.gen = sub[s].gen /\ ~window.revoked
             reuse == same /\ window.phase # "AwaitingReady"
             doc == IF reuse THEN window.doc ELSE documents + 1
             phase == IF reuse THEN "AwaitingAck" ELSE "AwaitingReady"
             pinned == same /\ window.pinned
             gen == sub[s].gen
  <2>1. window' = [owner |-> s, gen |-> gen, session |-> sessions + 1, doc |-> doc,
                   phase |-> phase, life |-> "prepared", leases |-> 0, pinned |-> pinned,
                   focused |-> FALSE, revoked |-> FALSE, request |-> FALSE]
    BY DEF Replace
  <2>2. doc \in Nat /\ doc > 0
    BY <1>1
  <2> HIDE DEF doc, phase, pinned, gen
  <2>. QED BY <1>1, <2>1, <2>2 DEF Shaped
<1>5. ReplaceStep
  BY <1>2, <1>3, <1>4 DEF ReplaceStep
<1>. QED BY <1>5, ReplaceKeeps

LEMMA SubmitKeeps ==
  ASSUME WindowInvariant, NEW s \in Submissions, Submit(s)
  PROVE  WindowInvariant' /\ StaysClosed
<1>1. UNCHANGED <<thread, picking>>
  BY DEF Submit
<1>2. CASE ~Leased /\ Replace(s)
  BY <1>1, <1>2, ReplaceSteps
<1>3. CASE Leased /\ window' = Closing /\ UNCHANGED <<sessions, documents>>
  BY <1>1, <1>3, QuietKeeps DEF TouchedWindow, MovedThreads, Leased
<1>4. CASE UNCHANGED core
  BY <1>1, <1>4, QuietKeeps DEF TouchedWindow, MovedThreads, core
<1>. QED BY <1>2, <1>3, <1>4 DEF Submit

LEMMA GoneKeeps ==
  ASSUME WindowInvariant, ~Leased, window' = NoWindow, MovedThreads,
         UNCHANGED <<sessions, documents, picking>>
  PROVE  WindowInvariant' /\ StaysClosed
<1>1. sessions \in Nat /\ documents \in Nat
  BY DEF WindowInvariant, WindowTypeOK
<1>2. ReplaceStep
  BY <1>1, MovedQuietly DEF ReplaceStep
<1>. QED BY <1>2, ReplaceKeeps

LEMMA PrepareKeeps ==
  ASSUME WindowInvariant, NEW s \in Submissions, Prepare(s)
  PROVE  WindowInvariant' /\ StaysClosed
<1>1. CASE Submit(s)
  BY <1>1, SubmitKeeps
<1>2. CASE LookUpShell(s)
  <2>1. UNCHANGED <<sessions, documents, thread, picking>>
    BY <1>2 DEF LookUpShell, core
  <2>2. TouchedWindow
    BY <1>2 DEF LookUpShell, core, TouchedWindow, IsSession
  <2>. QED BY <2>1, <2>2, QuietKeeps DEF MovedThreads
<1>3. CASE CreateShell(s)
  <2>1. UNCHANGED <<sessions, documents, thread, picking>>
    BY <1>3 DEF CreateShell, core
  <2>2. TouchedWindow
    BY <1>3 DEF CreateShell, core, TouchedWindow, IsSession
  <2>. QED BY <2>1, <2>2, QuietKeeps DEF MovedThreads
<1>4. CASE CheckReady(s) \/ DestroyCaptured(s) \/ SendUpdate(s)
  BY <1>4, QuietKeeps
     DEF CheckReady, DestroyCaptured, SendUpdate, core, TouchedWindow, MovedThreads
<1>5. CASE AwaitReady(s)
  <2>1. UNCHANGED <<sessions, documents, thread, picking>>
    BY <1>5 DEF AwaitReady
  <2>2. \/ UNCHANGED window
        \/ HasWindow /\ window' = Closing
        \/ ~Leased /\ window' = NoWindow
    BY <1>5 DEF AwaitReady, Invalidate, IsSession
  <2>3. CASE UNCHANGED window \/ (HasWindow /\ window' = Closing)
    BY <2>1, <2>3, QuietKeeps DEF TouchedWindow, MovedThreads
  <2>4. CASE ~Leased /\ window' = NoWindow
    BY <2>1, <2>4, GoneKeeps DEF MovedThreads
  <2>. QED BY <2>2, <2>3, <2>4
<1>6. CASE AwaitAck(s)
  <2>1. UNCHANGED <<sessions, documents, thread, picking>>
    BY <1>6 DEF AwaitAck
  <2>2. TouchedWindow
    BY <1>6 DEF AwaitAck, OwnedBy, TouchedWindow, WithPhase
  <2>. QED BY <2>1, <2>2, QuietKeeps DEF MovedThreads
<1>. QED BY <1>1, <1>2, <1>3, <1>4, <1>5, <1>6 DEF Prepare

LEMMA CommitKeeps ==
  ASSUME WindowInvariant, NEW s \in Submissions, Commit(s)
  PROVE  WindowInvariant' /\ StaysClosed
<1>1. UNCHANGED <<sessions, documents, thread, picking>>
  BY DEF Commit, ShowShell, ConfirmFocus, HideLauncher, Advance, ActivateSession, TakeBack,
         RestoreLauncher, UndoShow, core
<1>2. TouchedWindow
  <2>1. CASE ShowShell(s)
    BY <2>1 DEF ShowShell, StillCurrent, OwnedBy, TouchedWindow, WithFocused
  <2>2. CASE Advance(s)
    BY <2>2 DEF Advance, OwnedBy, TouchedWindow, WithPhase
  <2>3. CASE ActivateSession(s)
    BY <2>3 DEF ActivateSession, OwnedBy, TouchedWindow, Activated
  <2>4. CASE ConfirmFocus(s) \/ HideLauncher(s) \/ TakeBack(s) \/ RestoreLauncher(s)
             \/ UndoShow(s)
    BY <2>4 DEF ConfirmFocus, HideLauncher, TakeBack, RestoreLauncher, UndoShow, core,
                TouchedWindow
  <2>. QED BY <2>1, <2>2, <2>3, <2>4 DEF Commit
<1>. QED BY <1>1, <1>2, QuietKeeps DEF MovedThreads

-----------------------------------------------------------------------------
(* Closing, events, calls and the picker *)

LEMMA StageMoves ==
  ASSUME NEW t, Stage(t) \in Moving, NEW op \in Quiet, UNCHANGED progress \/ Goto(t, op) \/ Leave(t)
  PROVE  MovedThreads
<1>1. CASE t \in Threads
  BY <1>1 DEF Stage, Goto, Leave, MovedThreads, progress
<1>2. CASE t \notin Threads
  BY <1>2 DEF Stage, Goto, Leave, MovedThreads, progress
<1>. QED BY <1>1, <1>2

LEMMA CloseStepsKeep ==
  ASSUME WindowInvariant, NEW t, CloseSteps(t)
  PROVE  WindowInvariant' /\ StaysClosed
<1>1. UNCHANGED <<sessions, documents, picking>>
  BY DEF CloseSteps, AwaitClose, HideClosed, RemoveWindow, DestroyByLabel, core
<1>2. /\ {"closeWait", "closing", "remove", "removeWait", "destroyLabel"} \subseteq Moving
      /\ Moving \subseteq Quiet
  BY DEF Quiet, Moving
<1>3. CASE AwaitClose(t)
  <2>1. MovedThreads
    <3>1. Stage(t) \in Moving /\ (UNCHANGED progress \/ Goto(t, "closing"))
      BY <1>2, <1>3 DEF AwaitClose
    <3>. QED BY <1>2, <3>1, StageMoves
  <2>2. TouchedWindow
    BY <1>3 DEF AwaitClose, core, TouchedWindow
  <2>. QED BY <1>1, <2>1, <2>2, QuietKeeps
<1>4. CASE HideClosed(t)
  <2>1. MovedThreads
    <3>1. Stage(t) \in Moving /\ (Goto(t, "remove") \/ Leave(t))
      BY <1>2, <1>4 DEF HideClosed
    <3>. QED BY <1>2, <3>1, StageMoves
  <2>2. TouchedWindow
    BY <1>4 DEF HideClosed, TouchedWindow, RevokedPinned, RevokedFocused
  <2>. QED BY <1>1, <2>1, <2>2, QuietKeeps
<1>5. CASE RemoveWindow(t)
  <2>1. Stage(t) \in Moving /\ (Goto(t, "removeWait") \/ Goto(t, "destroyLabel") \/ Leave(t))
    BY <1>2, <1>5 DEF RemoveWindow
  <2>2. MovedThreads
    BY <1>2, <2>1, StageMoves
  <2>3. CASE Leased
    <3>1. TouchedWindow
      BY <1>5, <2>3 DEF RemoveWindow, TouchedWindow, Leased
    <3>. QED BY <1>1, <2>2, <3>1, QuietKeeps
  <2>4. CASE ~Leased
    <3>1. window' = NoWindow
      BY <1>5, <2>4 DEF RemoveWindow
    <3>. QED BY <1>1, <2>2, <2>4, <3>1, GoneKeeps
  <2>. QED BY <2>3, <2>4
<1>6. CASE DestroyByLabel(t)
  <2>1. Stage(t) \in Moving /\ Leave(t)
    BY <1>2, <1>6 DEF DestroyByLabel
  <2>2. MovedThreads
    BY <1>2, <2>1, StageMoves
  <2>3. TouchedWindow
    BY <1>6 DEF DestroyByLabel, core, TouchedWindow
  <2>. QED BY <1>1, <2>2, <2>3, QuietKeeps
<1>. QED BY <1>3, <1>4, <1>5, <1>6 DEF CloseSteps

LEMMA HideStepsKeep ==
  ASSUME WindowInvariant, NEW t \in Threads, HideSteps(t)
  PROVE  WindowInvariant' /\ StaysClosed
BY AwaitHideKeeps, HideNativeKeeps, EndHideKeeps DEF HideSteps

LEMMA MainRests ==
  ASSUME MainIdle
  PROVE  "main" \in Threads /\ thread["main"].op \in Moving /\ thread["main"].op \in Quiet
BY DEF MainIdle, Resting, Moving, Quiet, Threads

LEMMA HostEventsKeep ==
  ASSUME WindowInvariant, HostEvents
  PROVE  WindowInvariant' /\ StaysClosed
<1>1. CASE CloseRequested
  <2>1. BeginHideStep("main", shell.doc, FALSE)
    BY <1>1, MainRests DEF CloseRequested, HideAdmitted, OfDocument, BeginHideStep
  <2>. QED BY <1>1, <2>1, MainRests, BeginHideKeeps DEF CloseRequested
<1>2. CASE Close
  <2>1. {"closing", "closeWait"} \subseteq Quiet
    BY DEF Quiet
  <2>2. UNCHANGED <<sessions, documents, picking>> /\ TouchedWindow
    BY <1>2 DEF Close, TouchedWindow
  <2>3. MovedThreads
    BY <1>2, <2>1, MainRests DEF Close, MovedThreads
  <2>. QED BY <2>2, <2>3, QuietKeeps
<1>3. ASSUME NEW b \in BOOLEAN, ObserveFocus(b)
      PROVE  WindowInvariant' /\ StaysClosed
  <2>1. UNCHANGED <<sessions, documents, picking, thread>>
    BY <1>3 DEF ObserveFocus, progress
  <2>2. TouchedWindow
    BY <1>3 DEF ObserveFocus, OfDocument, TouchedWindow, WithFocused
  <2>. QED BY <2>1, <2>2, QuietKeeps DEF MovedThreads
<1>4. ASSUME NEW b \in BOOLEAN, SetPinned(b)
      PROVE  WindowInvariant' /\ StaysClosed
  <2>1. UNCHANGED <<sessions, documents, picking, thread>>
    BY <1>4 DEF SetPinned, progress
  <2>2. TouchedWindow
    BY <1>4 DEF SetPinned, TouchedWindow, WithPinned
  <2>. QED BY <2>1, <2>2, QuietKeeps DEF MovedThreads
<1>5. ASSUME NEW d \in rechecks, RecheckBlur(d)
      PROVE  WindowInvariant' /\ StaysClosed
  <2>1. UNCHANGED <<sessions, documents, picking>>
    BY <1>5 DEF RecheckBlur
  <2>2. CASE HideAdmitted(d, TRUE, picking)
    <3>1. BeginHideStep("main", d, TRUE)
      BY <1>5, <2>1, <2>2, MainRests DEF RecheckBlur, HideAdmitted, OfDocument, BeginHideStep
    <3>. QED BY <1>5, <3>1, MainRests, BeginHideKeeps DEF RecheckBlur
  <2>3. CASE ~HideAdmitted(d, TRUE, picking)
    BY <1>5, <2>1, <2>3, QuietKeeps DEF RecheckBlur, TouchedWindow, MovedThreads
  <2>. QED BY <2>2, <2>3
<1>6. ASSUME NEW d \in destroyed, HandleDestroyed(d)
      PROVE  WindowInvariant' /\ StaysClosed
  <2>1. UNCHANGED <<sessions, documents, picking, thread>>
    BY <1>6 DEF HandleDestroyed, progress
  <2>2. TouchedWindow
    BY <1>6 DEF HandleDestroyed, RevokeDocument, OfDocument, TouchedWindow
  <2>. QED BY <2>1, <2>2, QuietKeeps DEF MovedThreads
<1>. QED BY <1>1, <1>2, <1>3, <1>4, <1>5, <1>6 DEF HostEvents

LEMMA PageKeeps ==
  ASSUME WindowInvariant, Page
  PROVE  WindowInvariant' /\ StaysClosed
<1>1. CASE ContentReady \/ AdmitWindowAction \/ FinishWindowAction \/ Navigate
           \/ \E s \in Submissions : ContentAck(s)
  <2>1. UNCHANGED <<sessions, documents, picking, thread>>
    BY <1>1 DEF ContentReady, AdmitWindowAction, FinishWindowAction, Navigate, ContentAck,
                progress
  <2>2. TouchedWindow
    <3>1. CASE ContentReady \/ \E s \in Submissions : ContentAck(s)
      BY <3>1 DEF ContentReady, ContentAck, OwnedBy, TouchedWindow, WithPhase
    <3>2. CASE AdmitWindowAction \/ FinishWindowAction
      BY <3>2 DEF AdmitWindowAction, FinishWindowAction, TouchedWindow, WithRequest
    <3>3. CASE Navigate
      BY <3>3 DEF Navigate, RevokeDocument, OfDocument, TouchedWindow
    <3>. QED BY <1>1, <3>1, <3>2, <3>3
  <2>. QED BY <2>1, <2>2, QuietKeeps DEF MovedThreads
<1>2. CASE BeginCall
  <2>1. /\ HasWindow /\ window' = WithLease /\ thread["main"].op \in Quiet
        /\ UNCHANGED <<sessions, documents, picking>>
    BY <1>2, MainRests DEF BeginCall
  <2>2. Shaped(window) /\ thread \in [Threads -> Tasks]
    BY <2>1 DEF WindowInvariant, WindowTypeOK
  <2> DEFINE task == Begun("call", window.session, 0)
  <2>3. task \in Tasks /\ task.op = "call" /\ task.session = window.session
    BY <2>2 DEF Begun, Tasks, Ops, LeaseOps, Shaped
  <2>4. thread' = [thread EXCEPT !["main"] = BegunCall("call", window.session)]
    BY <1>2 DEF BeginCall, BegunCall
  <2>5. BegunCall("call", window.session) = task
    BY BegunTasks
  <2>6. "main" \in Threads
    BY DEF Threads
  <2> HIDE DEF task
  <2>7. FocusAsked'
    BY <2>2, <2>3, <2>4, <2>5, <2>6 DEF FocusAsked
  <2>8. TakeStep
    BY <2>1, <2>2, <2>3, <2>4, <2>5, <2>6, <2>7 DEF TakeStep
  <2>. QED BY <2>8, TakeKeeps
<1>. QED BY <1>1, <1>2 DEF Page

LEMMA EndCallKeeps ==
  ASSUME WindowInvariant, EndCall
  PROVE  WindowInvariant' /\ StaysClosed
<1>1. thread \in [Threads -> Tasks] /\ "main" \in Threads /\ Resting \in Tasks
  BY DEF WindowInvariant, WindowTypeOK, Threads, Resting, Tasks, Ops, Quiet
<1>2. /\ thread["main"].op \in {"call", "focus"} /\ DropLease(thread["main"].session)
      /\ thread' = [thread EXCEPT !["main"] = Resting]
      /\ UNCHANGED <<sessions, documents, picking>>
  BY DEF EndCall, Rest
<1>3. DropStep
  BY <1>1, <1>2 DEF DropStep
<1>. QED BY <1>3, DropKeeps

LEMMA EndFocusKeeps ==
  ASSUME WindowInvariant, EndFocus
  PROVE  WindowInvariant' /\ StaysClosed
<1>1. /\ thread \in [Threads -> Tasks] /\ {"main", "picker"} \subseteq Threads
      /\ Resting \in Tasks
  BY DEF WindowInvariant, WindowTypeOK, Threads, Resting, Tasks, Ops, Quiet
<1>2. /\ thread["main"].op = "focus" /\ DropLease(thread["main"].session)
      /\ thread["picker"].op = "focusing"
      /\ UNCHANGED <<sessions, documents, picking>>
  BY DEF EndFocus, WindowInvariant, FocusAsked
<1>3. PICK op \in {"focused", "notFocused"} :
          thread' = [thread EXCEPT !["main"] = Resting, !["picker"].op = op]
  BY DEF EndFocus
<1> DEFINE task == [thread["picker"] EXCEPT !.op = op]
<1>4. task \in Tasks /\ task.op = op /\ task.session = thread["picker"].session
  <2>1. thread["picker"] \in Tasks
    BY <1>1
  <2>. QED BY <2>1 DEF Tasks, Ops, Quiet
<1>5. thread' = [thread EXCEPT !["main"] = Resting, !["picker"] = task]
  BY <1>1, <1>3
<1> HIDE DEF task
<1>6. /\ thread' \in [Threads -> Tasks] /\ thread'["main"] = Resting
      /\ thread'["picker"] = task
      /\ \A t \in Threads \ {"main", "picker"} : thread'[t] = thread[t]
  BY <1>1, <1>4, <1>5
<1>7. thread["picker"].op \in Quiet /\ task.op \in Quiet
  BY <1>2, <1>4 DEF Quiet
<1>8. DropStep
  BY <1>2, <1>4, <1>6, <1>7 DEF DropStep
<1>. QED BY <1>8, DropKeeps

LEMMA FocusAfterPickerKeeps ==
  ASSUME WindowInvariant, FocusAfterPicker
  PROVE  WindowInvariant' /\ StaysClosed
<1> DEFINE n == thread["picker"].session
           d == thread["picker"].doc
<1>1. /\ thread \in [Threads -> Tasks] /\ {"main", "picker"} \subseteq Threads
      /\ thread["picker"].op = "open" /\ thread["main"].op \in Quiet
      /\ UNCHANGED <<sessions, documents>>
  BY MainRests DEF WindowInvariant, WindowTypeOK, Threads, FocusAfterPicker
<1>2. CASE FileIdentityCurrent(n, d)
  <2>1. /\ HasWindow /\ window.session = n /\ Shaped(window) /\ n \in Nat
        /\ window' = WithLease /\ picking' = picking
    BY <1>2 DEF FileIdentityCurrent, IsSession, WindowInvariant, WindowTypeOK, Shaped,
                FocusAfterPicker
  <2> DEFINE task == [thread["picker"] EXCEPT !.op = "focusing"]
             call == Begun("focus", n, 0)
  <2>2. /\ task \in Tasks /\ task.op = "focusing" /\ task.session = thread["picker"].session
    <3>1. thread["picker"] \in Tasks
      BY <1>1
    <3>. QED BY <3>1 DEF Tasks, Ops, Quiet
  <2>3. call \in Tasks /\ call.op = "focus" /\ call.session = n
    <3> HIDE DEF n
    <3>. QED BY <2>1 DEF Begun, Tasks, Ops, LeaseOps
  <2>4. BegunCall("focus", n) = call
    BY BegunTasks
  <2>5. thread' = [thread EXCEPT !["picker"].op = "focusing", !["main"] = BegunCall("focus", n)]
    BY <1>2 DEF FocusAfterPicker, BegunCall
  <2> HIDE DEF call
  <2>6. thread' = [thread EXCEPT !["picker"] = task, !["main"] = call]
    BY <1>1, <2>4, <2>5
  <2> HIDE DEF task
  <2>7. /\ thread' \in [Threads -> Tasks] /\ thread'["main"] = call
        /\ thread'["picker"] = task
        /\ \A t \in Threads \ {"main", "picker"} : thread'[t] = thread[t]
    BY <1>1, <2>2, <2>3, <2>6
  <2>8. FocusAsked'
    BY <2>2, <2>7 DEF FocusAsked
  <2>9. thread["picker"].op \in Quiet /\ task.op \in Quiet
    BY <1>1, <2>2 DEF Quiet
  <2>10. TakeStep
    BY <1>1, <2>1, <2>2, <2>3, <2>7, <2>8, <2>9 DEF TakeStep
  <2>. QED BY <2>10, TakeKeeps
<1>3. CASE ~FileIdentityCurrent(n, d)
  <2>1. Rest("picker") /\ picking' = 0 /\ UNCHANGED window
    BY <1>3 DEF FocusAfterPicker
  <2>2. thread["picker"].op \in Moving
    BY <1>1 DEF Moving, Quiet
  <2>. QED BY <1>1, <2>1, <2>2, QuietKeeps DEF MovedThreads, TouchedWindow
<1>. QED BY <1>2, <1>3

LEMMA EndPickerKeeps ==
  ASSUME WindowInvariant, EndPicker
  PROVE  WindowInvariant' /\ StaysClosed
<1> DEFINE d == thread["picker"].doc
<1>1. /\ thread["picker"].op \in Moving /\ "picker" \in Threads /\ picking' = 0
      /\ UNCHANGED <<sessions, documents>>
  BY DEF EndPicker, Moving, Quiet, Threads
<1>2. CASE Rest("picker") /\ UNCHANGED window
  BY <1>1, <1>2, QuietKeeps DEF MovedThreads, TouchedWindow
<1>3. CASE HideAdmitted(d, TRUE, 0) /\ BeginHide("picker", d, TRUE)
  <2>1. HasWindow /\ window.doc = d
    BY <1>3 DEF HideAdmitted, OfDocument
  <2>2. d # 0
    BY <2>1 DEF WindowInvariant, WindowTypeOK, Shaped
  <2>3. BeginHideStep("picker", d, TRUE)
    BY <1>1, <1>3, <2>1, <2>2 DEF BeginHideStep
  <2> HIDE DEF d
  <2>. QED BY <1>1, <2>3, BeginHideKeeps
<1>. QED BY <1>2, <1>3 DEF EndPicker

-----------------------------------------------------------------------------
(* The theorems *)

LEMMA WindowStarts == WindowsInit => WindowInvariant
<1> SUFFICES ASSUME WindowsInit PROVE WindowInvariant
  OBVIOUS
<1>1. /\ thread = [t \in Threads |-> Resting] /\ ~HasWindow
      /\ sessions = 0 /\ documents = 0
  BY DEF WindowsInit, HasWindow
<1>2. Resting \in Tasks /\ Resting.op = "rest" /\ Resting.session = 0
  BY DEF Resting, Tasks, Ops, Quiet
<1>3. WindowTypeOK
  BY <1>1, <1>2 DEF WindowTypeOK
<1>4. \A t \in Threads : thread[t].op = "rest" /\ thread[t].session = 0
  BY <1>1, <1>2
<1>5. SessionsGiven /\ LeasesExact
  BY <1>1, <1>4 DEF SessionsGiven, LeasesExact
<1>6. LeasesOwned /\ HidesClose /\ FocusAsked
  BY <1>4 DEF LeasesOwned, HidesClose, FocusAsked, LeaseOps, HideOps, HidingOps, Threads
<1>. QED BY <1>3, <1>5, <1>6 DEF WindowInvariant

LEMMA WindowSteps ==
  ASSUME WindowInvariant, [WindowsNext]_windowVars
  PROVE  WindowInvariant' /\ StaysClosed
<1>1. ASSUME NEW s \in Submissions, Answer(s) \/ BeginCommit(s)
      PROVE  WindowInvariant' /\ StaysClosed
  BY <1>1, QuietKeeps DEF Answer, BeginCommit, core, TouchedWindow, MovedThreads
<1>2. ASSUME NEW s \in Submissions, Work(s)
      PROVE  WindowInvariant' /\ StaysClosed
  BY <1>2, PrepareKeeps, CommitKeeps, CloseStepsKeep DEF Work
<1>3. CASE FindTransfer
  BY <1>3, QuietKeeps DEF FindTransfer, core, progress, TouchedWindow, MovedThreads
<1>4. CASE Page
  BY <1>4, PageKeeps
<1>5. CASE HostEvents
  BY <1>5, HostEventsKeep
<1>6. CASE Picker
  <2>1. "picker" \in Threads
    BY DEF Threads
  <2>. QED BY <1>6, <2>1, OpenPickerKeeps, FocusAfterPickerKeeps, EndFocusKeeps,
              EndPickerKeeps, HideStepsKeep DEF Picker
<1>7. CASE Main
  <2>1. "main" \in Threads
    BY DEF Threads
  <2>. QED BY <1>7, <2>1, EndCallKeeps, EndFocusKeeps, CloseStepsKeep, HideStepsKeep DEF Main
<1>8. ASSUME NEW t \in {"main", "disabling"}, DisableWindow(t)
      PROVE  WindowInvariant' /\ StaysClosed
  <2>1. t \in Threads /\ thread[t].op \in Moving /\ "remove" \in Quiet
    BY <1>8 DEF DisableWindow, Threads, Resting, Moving, Quiet
  <2>2. MovedThreads
    BY <1>8, <2>1 DEF DisableWindow, MovedThreads
  <2>. QED BY <1>8, <2>2, QuietKeeps DEF DisableWindow, core, TouchedWindow
<1>9. CASE CloseSteps("disabling")
  BY <1>9, CloseStepsKeep
<1>10. CASE UNCHANGED windowVars
  BY <1>10, QuietKeeps DEF windowVars, core, progress, TouchedWindow, MovedThreads
<1>. QED BY <1>1, <1>2, <1>3, <1>4, <1>5, <1>6, <1>7, <1>8, <1>9, <1>10 DEF WindowsNext

\* The inductive invariant: session numbers are given once, every lease is held in
\* the session of the window and counted in it, whoever waits to hide a session has
\* closed it, and the main thread sets the focus only for a picker that waits.
THEOREM WindowsCorrect == WindowsSpec => []WindowInvariant
BY WindowStarts, WindowSteps, PTL DEF WindowsSpec

\* in_flight is exact: the leases of the current session are the calls and hides
\* that are under way in it, for any number of submissions that compete for the
\* window (begin_document_hide_checked, finish_window_call).
THEOREM LeasesCounted == WindowsSpec => []LeasesExact
<1>1. WindowInvariant => LeasesExact
  BY DEF WindowInvariant
<1>. QED BY <1>1, WindowsCorrect, PTL

\* A document's hide, once admitted, acts on the session it was admitted for
\* (hide_document): no submission replaces the window in between.
THEOREM HidesOwned == WindowsSpec => []HideOwnsSession
<1>1. WindowInvariant => HideOwnsSession
  BY DEF WindowInvariant, LeasesOwned, HideOwnsSession, LeaseOps
<1>. QED BY <1>1, WindowsCorrect, PTL

\* No blur hides a document whose file picker is open (admit_file_open,
\* begin_document_hide_checked), whoever opened the picker and whenever the blur is
\* rechecked.
THEOREM PickersKept == WindowsSpec => []PickerKeepsWindow
<1>1. WindowInvariant => PickerKeepsWindow
  <2> SUFFICES ASSUME WindowInvariant, NEW t \in Threads, thread[t].op = "hiding",
                      thread[t].blurred
               PROVE  picking # thread[t].doc
    BY DEF PickerKeepsWindow
  <2>1. IsSession(thread[t].session)
    BY DEF WindowInvariant, LeasesOwned, LeaseOps, HidingOps
  <2>. QED BY <2>1 DEF WindowInvariant, HidesClose, HideOps, HidingOps
<1>. QED BY <1>1, WindowsCorrect, PTL

\* A session that is closing or revoked never admits calls again: no late commit
\* activates it and no failed hide reopens it (activate_timer_session,
\* finish_timer_session_hide).
THEOREM ClosedForGood == WindowsSpec => ClosedStaysClosed
<1>1. WindowInvariant /\ [WindowsNext]_windowVars
        => (HasWindow /\ window.life \in {"closing", "revoked"}
              /\ window'.session = window.session
            => window'.life \in {"closing", "revoked"})
  BY WindowSteps DEF StaysClosed, Closed
<1>. QED BY <1>1, WindowsCorrect, PTL DEF WindowsSpec, ClosedStaysClosed
=============================================================================
