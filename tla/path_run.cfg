SPECIFICATION FairSpec
CONSTANTS
  Word <- MCWord
  NoDatabase <- MCNoDatabase
  Guid <- MCGuid
  Pdb <- MCPdb
  Asks <- MCAsks
  Hosts <- MCHosts
  None = None
INVARIANTS
  TypeOK
  RootsAreTheScope
  WalkIsExact
  TranscriptReadsBack
  ScriptIsMapped
  BlockedForCause
PROPERTY PathEnds
CHECK_DEADLOCK FALSE
