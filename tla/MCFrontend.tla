----------------------------- MODULE MCFrontend -----------------------------
(***************************************************************************)
(* The two asynchronous parts of the browser tab: its session, and the     *)
(* weighbridge panel of a page.  They share no data, so a behaviour moves  *)
(* in one of them only.  One user with two tokens is enough for a late     *)
(* answer to an old token; three requests of one view are enough for a     *)
(* poll to be overtaken by a reconnection and by the poll after it.        *)
(***************************************************************************)
EXTENDS AuthSession, DevicePanel

VARIABLE part   \* the part that moves

MCTargets == {"register"}

frontendVars == <<tabVars, panelVars, part>>

FrontendInit ==
  /\ TabInit /\ PanelInit
  /\ \/ part = "session" /\ mode = "manual"
     \/ part = "panel" /\ tab.token = None /\ granted = {}

SessionStep == part = "session" /\ TabNext /\ UNCHANGED <<panelVars, part>>
PanelMoves == part = "panel" /\ PanelNext /\ UNCHANGED <<tabVars, part>>
FrontendNext == SessionStep \/ PanelMoves

FrontendSpec ==
  FrontendInit /\ [][FrontendNext]_frontendVars /\ (part = "session" => TabFairness)
=============================================================================
