SPECIFICATION FairSpec
CONSTANTS
  Starter = {p1, p2}
  Builder = builder
  production = production
  copy = copy
  demo = demo
  Output <- MCOutput
  FileAt <- MCFileAt
  File = {production, copy, demo}
  Protected = {production, copy}
  Production = production
  None = none
  MaxFaults = 2
INVARIANTS
  TypeOK
  StampIsTrue
  ReadyHasSchema
  OnlyFaultsStrand
PROPERTIES
  ProductionKept
  MigrationsComplete
