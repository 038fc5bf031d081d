----------------------------- MODULE MCEnforcement -----------------------------
(***************************************************************************)
(* Instances of HPAEnforcement for TLC.                                    *)
(***************************************************************************)
EXTENDS EnforcementProperties

Config(min, max, util) == [Min |-> min, Max |-> max, TargetMetricValue |-> util]

\* One that qualifies and one with no more than the required replicas.
TwoConfigs == {Config(3, 4, 5), Config(2, 4, 5)}

UsersConfig == Config(4, 4, 9)
================================================================================
