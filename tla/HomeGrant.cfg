CONSTANTS
  HostPaths <- MCHostPaths
  Files <- MCFiles
  Volatile <- MCVolatile
  Home <- MCHome
  Tmp <- MCTmp
  Shm <- MCShm
  Pts <- MCPts
  Places <- MCPlaces
  Policies <- HomePolicies
  MaxChanges = 0
  Traces <- NoTraces
  Bases <- HomePolicies
  TargetDir <- MCSrv
  SystemRoots <- MCSystem
  Secrets <- MCSecrets
  OwnHome <- MCOwnHome
  CoalesceAt = 3
SPECIFICATION AuditedSpec
INVARIANTS HomeGrantsKeepRights
CHECK_DEADLOCK FALSE
