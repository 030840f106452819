-------------------------- MODULE RequestLifecycle --------------------------
(***************************************************************************)
(* What the host promises about one request of a public plugin, whatever   *)
(* the queues, Runtimes, publications and result sets do.  It is the       *)
(* abstract specification that RuntimeHost implements.                     *)
(*                                                                         *)
(*   reserved    an id was given out, nothing was admitted                 *)
(*   waiting     the one command a busy plugin keeps                       *)
(*   current     executing with the authority of its user action           *)
(*   superseded  still executing, without that authority                   *)
(*   owed        answered, and the answer may still be shown               *)
(*   void        answered, and the answer may not be shown any more        *)
(*   delivered   the answer reached its page or result list                *)
(*   done        over without an answer                                    *)
(*                                                                         *)
(* A request that lost its authority never gets it back, and its answer is *)
(* never delivered; a plugin executes at most one request and keeps at     *)
(* most one waiting.                                                       *)
(***************************************************************************)
CONSTANTS Plugins, Requests, None

VARIABLES
    status,      \* what became of each request
    executing,   \* the request each plugin executes, or None
    waiting      \* the command each plugin keeps waiting, or None

Statuses == {"unused", "reserved", "waiting", "current", "superseded",
             "owed", "void", "delivered", "done"}

\* The moves of one request.  A content action is reserved and admitted at once.
After == [s \in Statuses |->
    CASE s = "unused" -> {"reserved", "current"}
      [] s = "reserved" -> {"waiting", "current", "done"}
      [] s = "waiting" -> {"current", "done"}
      [] s = "current" -> {"superseded", "owed", "void", "delivered", "done"}
      [] s = "superseded" -> {"void", "done"}
      [] s = "owed" -> {"void", "delivered", "done"}
      [] s = "void" -> {"done"}
      [] OTHER -> {}]

\* The slots hold exactly the requests that execute or wait, each in one slot.
Holds(slot, p, r) == slot[p] = r
Placed ==
    \A r \in Requests :
        /\ status[r] \in {"current", "superseded"} <=> \E p \in Plugins : Holds(executing, p, r)
        /\ status[r] = "waiting" <=> \E p \in Plugins : Holds(waiting, p, r)
        /\ \A p, q \in Plugins :
              /\ Holds(executing, p, r) /\ Holds(executing, q, r) => p = q
              /\ Holds(waiting, p, r) /\ Holds(waiting, q, r) => p = q

\* While a command waits, the request it waits for has lost its authority.
Yielding ==
    \A p \in Plugins : \A r \in Requests :
        waiting[p] # None /\ Holds(executing, p, r) => status[r] = "superseded"

Init ==
    /\ status = [r \in Requests |-> "unused"]
    /\ executing = [p \in Plugins |-> None]
    /\ waiting = [p \in Plugins |-> None]

\* No request changes its plugin.
Stays(r) ==
    \A p, q \in Plugins :
        /\ Holds(waiting, p, r) \/ Holds(executing, p, r)
        /\ Holds(waiting', q, r) \/ Holds(executing', q, r)
        => p = q

\* Some requests move at once: one completes and the next one starts, a plugin
\* is disabled and all of its requests end, a publication dies.
Next ==
    /\ status' \in [Requests -> Statuses]
    /\ executing' \in [Plugins -> Requests \cup {None}]
    /\ waiting' \in [Plugins -> Requests \cup {None}]
    /\ \A r \in Requests : status'[r] # status[r] => status'[r] \in After[status[r]]
    /\ \A r \in Requests : Stays(r)
    /\ Placed' /\ Yielding'

Spec == Init /\ [][Next]_<<status, executing, waiting>>
=============================================================================
