CONSTANTS
  HostPaths <- MCHostPaths
  Files <- MCFiles
  Volatile <- MCVolatile
  Home <- MCHome
  Tmp <- MCTmp
  Shm <- MCShm
  Pts <- MCPts
  Places <- MCPlaces
  Policies <- MCPolicies
  MaxChanges = 1
  Traces <- MCTraces
  Bases <- MCBases
  TargetDir <- MCSrv
  SystemRoots <- MCSystem
  Secrets <- MCSecrets
  OwnHome <- MCOwnHome
  CoalesceAt = 3
SPECIFICATION AuditedSpec
INVARIANTS TypeOK ReachIsGranted GrantsKeepRights GeneratedSuffices
CHECK_DEADLOCK FALSE
