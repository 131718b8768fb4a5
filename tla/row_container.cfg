SPECIFICATION Spec
CONSTANTS
  Databases = 1
  DiskGroups = 1
  Files = 1
  Pdbs <- MCPdbs
  Kinds <- AllKinds
  RemoteFails = FALSE
INVARIANT RowsAgreeWithScripts
CHECK_DEADLOCK FALSE
