SPECIFICATION FairSpec
CONSTANTS
  Run <- MCRun
  Paths = 2
  SlugOf <- MCSlugOf
  Requests <- MCRequests
  None = none
  MaxFaults = 1
INVARIANTS
  TypeOK
  PortsAreOwn
  ConnectionsClosed
  SummaryTellsFiles
PROPERTIES
  RunsKeepPromise
  CallsEnd
CHECK_DEADLOCK FALSE
