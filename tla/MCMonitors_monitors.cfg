SPECIFICATION FairSpec
CONSTANTS
  Workload = {"w1", "w2"}
  Concurrency = 1
  MaxMonitors = 2
  Loaded = {"w1"}
  MaxStops = 1
  MaxChanges = 2
  MaxEvents = 1
  MaxLag = 1
INVARIANTS TypeOK AliveAreRegistered BlockedAreQueued
PROPERTIES BreachIsRequested SettlesOnTruth StopReturns
\* With every monitor stopped nothing is left to do.
CHECK_DEADLOCK FALSE
