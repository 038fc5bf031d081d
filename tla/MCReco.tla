-------------------------------- MODULE MCReco ---------------------------------
(***************************************************************************)
(* Instances of RecoController for TLC.                                    *)
(***************************************************************************)
EXTENDS RecoProperties, TLC

CONSTANTS p0, p1, p2, p3

\* Four grades: two that keep replicas back, two that differ in utilization.
FourPolicies == {p0, p1, p2, p3}
FourRisks == p0 :> 0 @@ p1 :> 100 @@ p2 :> 500 @@ p3 :> 520
FourCuts == p0 :> 0 @@ p1 :> 25 @@ p2 :> 100 @@ p3 :> 100
FourUtilizations == p0 :> 1 @@ p1 :> 5 @@ p2 :> 5 @@ p3 :> 10
FourDefault == {p3}

\* Two grades that differ in utilization only.
TwoPolicies == {p0, p1}
TwoRisks == p0 :> 500 @@ p1 :> 520
TwoCuts == p0 :> 100 @@ p1 :> 100
TwoUtilizations == p0 :> 5 @@ p1 :> 10
TwoDefault == {p1}

\* One grade, where policies do not matter.
OnePolicy == {p0}
OneRisk == p0 :> 500
OneCut == p0 :> 100
OneUtilization == p0 :> 5

Config(min, max, util) == [Min |-> min, Max |-> max, TargetMetricValue |-> util]

\* Ends between p2 and p3; too small for the required replicas.
Recommendations == {Config(2, 9, 7), Config(1, 2, 12)}
OneRecommendation == {Config(4, 9, 7)}
================================================================================
