--------------------------- MODULE MCDisagreements ---------------------------
(***************************************************************************)
(* The small instances of RuntimeHost on which the code disagrees with     *)
(* what it promises: every operation in Ops may happen at any time.        *)
(***************************************************************************)
EXTENDS HostProperties

\* Two plugins, overlapping timeouts: abandoned.
WatchdogOps == {"timeout", "cancel", "create_failure"}
\* An aborted uninstall after a timeout: aborted_uninstall.
AbortOps == {"timeout", "uninstall"}
\* A purge that a prepared request outlives: purge_race.
PurgeOps == {"purge", "update"}
=============================================================================
