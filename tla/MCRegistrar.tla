------------------------------ MODULE MCRegistrar ------------------------------
(***************************************************************************)
(* Instances of Registrar for TLC.                                         *)
(***************************************************************************)
EXTENDS Registrar
================================================================================
