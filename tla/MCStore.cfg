SPECIFICATION Spec
CONSTANTS
  Thread <- MCThreads
  Mixes <- MCMixes
  OldFiles <- MCOld
  Versions <- MCVersions
  Current <- CurrentVersion
  Parts <- MCParts
  MaxInode = 6
  MaxFork = 1
  MaxCrash = 1
  HeaderMayFail = FALSE
  Misreads <- MCMisreads
INVARIANTS
  HitIsWhole
  
  
PROPERTIES
  RequestsReturn
CHECK_DEADLOCK FALSE
