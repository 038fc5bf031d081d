SPECIFICATION FairSpec
CONSTANTS
  Namespace = "ns"
  IncludedNamespaces = {"ns"}
  ExcludedNamespaces = {"ns"}
  MaxWorkloads = 3
  MaxDeletions = 1
  Relisted = {"workload"}
  MaxRelists = 1
  MaxFaults = 1
  MaxCrashes = 1
INVARIANTS TypeOK QuietIsRegistered
PROPERTIES RegistersInTheEnd
\* The bounds run out and the registrar rests.
CHECK_DEADLOCK FALSE
