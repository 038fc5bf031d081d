------------------------------- MODULE RecoCycle -------------------------------
(***************************************************************************)
(* What a PolicyRecommendation promises to those who read it: the          *)
(* configuration to enforce, and how far the recommendation of it is.  A   *)
(* reader that finds the progress at Generated has a configuration nobody  *)
(* is working on.  RecoController implements this module, and the          *)
(* enforcement controller is written for every object that behaves so.     *)
(***************************************************************************)
CONSTANTS Configuration, NoConfiguration

VARIABLES
  progress, \* the RecoTaskProgress condition: its reason, or "none"
  config    \* CurrentHPAConfiguration

cycleVars == <<progress, config>>

Init ==
  /\ progress \in {"none", "InProgress"}
  /\ config = NoConfiguration

\* A reconcile starts; the last one may have ended in any way, or not at all.
Start ==
  /\ progress' = "InProgress"
  /\ UNCHANGED config

Change ==
  /\ progress = "InProgress"
  /\ config' \in Configuration
  /\ UNCHANGED progress

Finish ==
  /\ progress = "InProgress"
  /\ progress' = "Generated"
  /\ UNCHANGED config

Err ==
  /\ progress = "InProgress"
  /\ progress' = "Errored"
  /\ UNCHANGED config

Next == Start \/ Change \/ Finish \/ Err

Spec == Init /\ [][Next]_cycleVars
================================================================================
