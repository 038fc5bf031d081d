-------------------------------- MODULE MCAging --------------------------------
(***************************************************************************)
(* Instances of RecoAging for TLC.                                         *)
(***************************************************************************)
EXTENDS MCReco, RecoAging
================================================================================
