---------------------------- MODULE MCRuntimeHost ----------------------------
(***************************************************************************)
(* The instances of RuntimeHost that TLC checks, in parts that stay small. *)
(*   "content"   single requests of one plugin: commands, content actions, *)
(*               retirement, cancellation and plugin-wide changes          *)
(*   "listing"   a plugin with result actions: sets shown, dismissed,      *)
(*               claimed and executed                                      *)
(*   "watchdog"  two plugins and two overlapping runs of                   *)
(*               expire_runtime_timeouts                                   *)
(*   "results"   a plugin with result actions against plugin-wide changes  *)
(*               and retirement                                            *)
(*   "lifecycle" disable, enable, fault disable and update                 *)
(*   "uninstall" uninstall with its data retained, the abort that          *)
(*               re-activates, reinstall, unknown outcomes and shutdown    *)
(* All but the last have timeouts; lifecycle and uninstall together do not *)
(* keep IdentityAgrees (aborted_uninstall).  Tokens are numbers, so that   *)
(* CHOOSE takes the same one in equal states; TokensLeft never disables a  *)
(* step, because each pool is larger than what can be referenced at once.  *)
(***************************************************************************)
EXTENDS HostProperties

CONSTANTS
    Parts,           \* the parts of this instance
    Plain, Listing,  \* the plugins of the parts with one
    First            \* the watcher of the parts with one

VARIABLE part

MCVars == <<vars, part>>

\* The optional operations of the instances.
RequestOps == {"content", "timeout", "change", "retire", "cancel", "service", "results",
               "create_failure"}
ManagementOps == {"results", "retire", "timeout", "change", "fault", "disable", "update",
                  "uninstall", "not_committed", "unknown_outcome", "create_failure", "close"}

UsesWatcher(w) == part = "watchdog" \/ w = First
WatchdogRuns == \E w \in Watchers : UsesWatcher(w) /\ (Expire(w) \/ PassStep(w))
Commands(p) ==
    \/ Prepare(p) \/ BindRoute(p) \/ AbortUnbound(p)
    \/ \E c \in prepared : Submit(c) \/ RecoverRuntime(c)
Changes(p) == BeginChange(p, "change") \/ Commits(p)

ContentPart ==
    \/ Commands(Plain) \/ ContentAction(Plain)
    \/ Completions \/ RetireContent(Plain) \/ CancelRequest(Plain) \/ RetireService(Plain)
    \/ \E c \in prepared : DropPrepared(c)
    \/ Changes(Plain)
    \/ WatchdogRuns
ResultActions == ReserveResult \/ \E c \in prepared : AdmitResultAction(c)
ListingPart ==
    \/ Commands(Listing) \/ ResultActions
    \/ Completions
    \/ WatchdogRuns
WatchdogPart ==
    /\ \/ \E p \in Plugins : Commands(p) \/ CancelRequest(p)
       \/ ResultActions
       \/ \E p \in Plugins : CompleteRequest(p)
       \/ \E a \in answers : PublishAnswer(a)
       \/ \E f \in finishing : FinishResultAction(f)
       \/ \E c \in prepared : DropPrepared(c)
       \/ WatchdogRuns
    /\ nextRequest' <= 3

ResultsPart ==
    /\ \/ Commands(Listing) \/ ResultActions
       \/ Completions \/ RetireContent(Listing)
       \/ Changes(Listing)
       \/ WatchdogRuns
    /\ config'[Listing].gen <= 2 /\ nextInc' <= 4

Activations(p) ==
    \/ \E kind \in {"enable", "update"} : BeginActivation(p, kind)
    \/ CommitActivation(p)
LifecyclePart ==
    /\ \/ Commands(Listing) \/ CompleteRequest(Listing)
       \/ \E kind \in {"change", "disable"} : BeginChange(Listing, kind)
       \/ BeginFault(Listing) \/ Commits(Listing) \/ Activations(Listing)
       \/ NotCommitted(Listing)
       \/ \E a \in answers : PublishAnswer(a)
       \/ WatchdogRuns
    /\ nextRequest' <= 3
UninstallPart ==
    /\ \/ Commands(Plain) \/ CompleteRequest(Plain)
       \/ \E kind \in {"uninstall", "purge"} : BeginUninstall(Plain, kind)
       \/ Activations(Plain) \/ CommitUninstall(Plain) \/ UnknownOutcome(Plain)
       \/ ReleaseUninstall(Plain) \/ ReactivateAborted(Plain)
       \/ ClosePublications \/ CloseGate
    /\ nextRequest' <= 3

MCInit == Init /\ part \in Parts
MCNext ==
    /\ \/ part = "content" /\ ContentPart
       \/ part = "listing" /\ ListingPart
       \/ part = "watchdog" /\ WatchdogPart
       \/ part = "results" /\ ResultsPart
       \/ part = "lifecycle" /\ LifecyclePart
       \/ part = "uninstall" /\ UninstallPart
    /\ UNCHANGED part
MCSpec == MCInit /\ [][MCNext]_MCVars

\* The fairness of HostProperties, for the runs a part has.
MCFairness ==
    /\ \A w \in Watchers :
          /\ WF_vars(UsesWatcher(w) /\ Expire(w))
          /\ WF_vars(UsesWatcher(w) /\ PassStep(w))
    /\ SettlementFairness
MCFairSpec == MCSpec /\ MCFairness
=============================================================================
