--------------------------- MODULE MCPanelNetwork ---------------------------
(***************************************************************************)
(* The instance of NetworkGate and of the panel modules that TLC checks,   *)
(* in parts that stay small:                                               *)
(*   limits    commands and result actions of two plugins compete for the  *)
(*             slots of the host                                           *)
(*   changes   every operation on one plugin around its commands and       *)
(*             content actions                                             *)
(*   submits   submissions to panels that open and end at any time         *)
(*   hides     the tickets by which a page hides the launcher              *)
(*   keys      the keys of the launcher and their pumps, one submission    *)
(*   focus     pages that give the focus back to the launcher              *)
(* A part leaves the state of the other modules as it was.                 *)
(***************************************************************************)
EXTENDS NetworkGate, PanelProperties

CONSTANTS
    Parts,     \* the parts of the run
    Changed,   \* the plugin of the part "changes"
    Keyed      \* the submission of the part "keys"

VARIABLE part

MCInit == Init /\ PanelInit /\ part \in Parts

Limits ==
    \/ \E p \in Plugins :
          CallSteps(p) \/ Submit(p, "command") \/ Submit(p, "result") \/ CompleteRequest(p)
    \/ \E r \in live : DismissResult(r)
Changes ==
    /\ \/ CallSteps(Changed) \/ RequestSteps(Changed) \/ PluginSteps(Changed)
       \/ Shutdown
    /\ live' = {} /\ nextCall' <= 3
Network ==
    /\ \/ part = "limits" /\ Limits
       \/ part = "changes" /\ Changes
    /\ UNCHANGED panelVars

NotSubmissions == UNCHANGED ask
NotKeys == UNCHANGED pump
NotFocus == UNCHANGED <<request, starts, outcome, asked, settlements, claims>>
Submits ==
    /\ \/ SessionNext /\ NotSubmissions
       \/ SubmissionsNext
    /\ NotKeys /\ NotFocus
Hides == (SessionNext \/ HideNext) /\ NotSubmissions /\ NotKeys /\ NotFocus
Keys ==
    /\ \/ /\ OpenPanel \/ PanelReady \/ Mounted \/ PanelEnds \/ RunHide \/ HostHidden
          /\ NotSubmissions /\ NotKeys
       \/ (SubmitToPanel(Keyed) \/ PageAck(Keyed) \/ SubmissionStep(Keyed)) /\ NotKeys
       \/ KeysNext
    /\ NotFocus
Focus ==
    \/ SessionNext /\ NotSubmissions /\ NotKeys /\ NotFocus
    \/ FocusNext /\ UNCHANGED hideVars
Panels ==
    /\ \/ part = "submits" /\ Submits
       \/ part = "hides" /\ Hides
       \/ part = "keys" /\ Keys
       \/ part = "focus" /\ Focus
    /\ UNCHANGED vars

MCNext == (Network \/ Panels) /\ UNCHANGED part
MCSpec == MCInit /\ [][MCNext]_<<vars, panelVars, part>> /\ PanelFairness
=============================================================================
