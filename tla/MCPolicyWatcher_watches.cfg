SPECIFICATION FairSpec
CONSTANTS
  Policy = {p, q}
  MaxMarks = 2
  MaxDeletions = 2
  MaxFaults = 1
  MaxCrashes = 1
INVARIANTS TypeOK AtMostOneDefault
PROPERTIES WarnedBeforeGone DeletionFinishes
\* Users stop and the watcher rests.
CHECK_DEADLOCK FALSE
