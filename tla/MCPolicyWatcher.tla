---------------------------- MODULE MCPolicyWatcher ----------------------------
(***************************************************************************)
(* An instance of PolicyWatcher for TLC.                                   *)
(***************************************************************************)
EXTENDS PolicyWatcher
================================================================================
