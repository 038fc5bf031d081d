------------------------------- MODULE MCMonitors -------------------------------
(***************************************************************************)
(* Instances of Monitors for TLC.                                          *)
(***************************************************************************)
EXTENDS Monitors
================================================================================
