\* One process, every operation, failures of the database and crashes.
SPECIFICATION Spec
CONSTANTS
  MaxInt = 7
  Index <- Index3
  HasUp = {1, 4}
  HasDown = {1, 3}
  Procs = {p1}
  NoProc = NoProc
  Prefetch = 1
  Ops <- OpsAll
  InitVersions <- Nil3
  Events = {"database", "crash"}
INVARIANTS
  TypeOK
  VersionTellsSchema
  AppliedInOrder
  ReportsWhatItDid
PROPERTIES
  DirtyPersists
