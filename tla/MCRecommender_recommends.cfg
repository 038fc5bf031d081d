SPECIFICATION FairSpec
CONSTANTS
  Instance = {"p1", "p2"}
  Window = 4
  Step = 1
  SplitInterval = 2
  Series <- MCSeries
  MaxQueryFaults = 1
  Config <- MCConfig
  Workload <- MCWorkload
  MetricLag = 0
  Events <- MCEvents
  MaxCallFaults = 1
INVARIANTS TypeOK AggregatesMaximum HasNoGaps OutliersAreInvisible WithinLimits NeverBreaches TargetIsMaximal
PROPERTIES RecommendEnds
\* The call returns.
CHECK_DEADLOCK FALSE
