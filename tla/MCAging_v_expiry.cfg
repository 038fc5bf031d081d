SPECIFICATION AgingSpec
CONSTANTS
  p0 = p0
  p1 = p1
  p2 = p2
  p3 = p3
  NoPolicy = NoPolicy
  Policy <- FourPolicies
  RiskIndex <- FourRisks
  MinReplicaPercentageCut <- FourCuts
  TargetUtilization <- FourUtilizations
  DefaultPolicies <- FourDefault
  Recommendation <- OneRecommendation
  MinRequiredReplicas = 3
  PolicyExpiryAge = 1
  MaxLag = 1
  MaxClock = 3
  MaxTriggers = 2
  MaxAnnotations = 0
  MaxFaults = 1
  MaxCrashes = 0
  MaxDeletions = 0
  MaxBreaches = 1
PROPERTIES NextOnlyAfterExpiry
\* The environment's bounds run out and the system rests.
CHECK_DEADLOCK FALSE
