SPECIFICATION FairSpec
CONSTANTS
  p0 = p0
  p1 = p1
  p2 = p2
  p3 = p3
  NoPolicy = NoPolicy
  Policy <- OnePolicy
  RiskIndex <- OneRisk
  MinReplicaPercentageCut <- OneCut
  TargetUtilization <- OneUtilization
  DefaultPolicies <- OnePolicy
  Recommendation <- OneRecommendation
  MinRequiredReplicas = 3
  PolicyExpiryAge = 1
  MaxLag = 1
  MaxClock = 2
  MaxTriggers = 1
  MaxAnnotations = 1
  MaxFaults = 1
  MaxCrashes = 1
  MaxDeletions = 0
  MaxBreaches = 0
PROPERTIES RequestIsServed QueuedIsExecuted
\* The environment's bounds run out and the system rests.
CHECK_DEADLOCK FALSE
