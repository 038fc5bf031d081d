SPECIFICATION Spec
CONSTANTS
  p0 = p0
  p1 = p1
  p2 = p2
  p3 = p3
  NoPolicy = NoPolicy
  Policy <- TwoPolicies
  RiskIndex <- TwoRisks
  MinReplicaPercentageCut <- TwoCuts
  TargetUtilization <- TwoUtilizations
  DefaultPolicies <- TwoDefault
  Recommendation <- Recommendations
  MinRequiredReplicas = 3
  PolicyExpiryAge = 1
  MaxLag = 1
  MaxClock = 2
  MaxTriggers = 1
  MaxAnnotations = 0
  MaxFaults = 1
  MaxCrashes = 0
  MaxDeletions = 2
  MaxBreaches = 1
INVARIANTS NeverPastTarget KeepsRequiredReplicas QuietIsGenerated
PROPERTIES ImplementsCycle
\* The environment's bounds run out and the system rests.
CHECK_DEADLOCK FALSE
