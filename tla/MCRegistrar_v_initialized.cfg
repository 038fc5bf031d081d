SPECIFICATION Spec
CONSTANTS
  Namespace = "ns"
  IncludedNamespaces = {"ns"}
  ExcludedNamespaces = {"ns"}
  MaxWorkloads = 1
  MaxDeletions = 0
  Relisted = {"workload"}
  MaxRelists = 0
  MaxFaults = 1
  MaxCrashes = 0
INVARIANTS QuietIsInitialized
\* The bounds run out and the registrar rests.
CHECK_DEADLOCK FALSE
