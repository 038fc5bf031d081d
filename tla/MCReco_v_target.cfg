SPECIFICATION Spec
CONSTANTS
  p0 = p0
  p1 = p1
  p2 = p2
  p3 = p3
  NoPolicy = NoPolicy
  Policy <- TwoPolicies
  RiskIndex <- TwoRisks
  MinReplicaPercentageCut <- TwoCuts
  TargetUtilization <- TwoUtilizations
  DefaultPolicies <- TwoDefault
  Recommendation <- OneRecommendation
  MinRequiredReplicas = 3
  PolicyExpiryAge = 1
  MaxLag = 1
  MaxClock = 3
  MaxTriggers = 2
  MaxAnnotations = 0
  MaxFaults = 0
  MaxCrashes = 0
  MaxDeletions = 0
  MaxBreaches = 0
PROPERTIES TargetIsKept
\* The environment's bounds run out and the system rests.
CHECK_DEADLOCK FALSE
