SPECIFICATION FairSpec
CONSTANTS
  Configs <- TwoConfigs
  UserConfig <- UsersConfig
  MinRequiredReplicas = 2
  WhitelistMode = TRUE
  IsDryRun = FALSE
  Namespace = "ns"
  IncludedNamespaces = {"ns"}
  ExcludedNamespaces = {"ns"}
  MaxLag = 1
  MaxConfigs = 2
  MaxAnnotations = 1
  MaxUsers = 2
  MaxDeletions = 1
  MaxRelists = 1
  MaxFaults = 1
  MaxCrashes = 1
  MaxTroubles = 3
INVARIANTS TypeOK EnforcesFinished ReplicasAreReset
PROPERTIES LeavesCycleAlone Heals
