SPECIFICATION Spec
CONSTANTS
  Databases = 2
  DiskGroups = 2
  Files = 2
  Pdbs <- MCCopiedPdbs
  Kinds <- AllKinds
  RemoteFails = TRUE
INVARIANTS
  TypeOK
  MovesEachFileOnce
  MovesRunAtHome
CHECK_DEADLOCK FALSE
