\* Two processes on one database, with crashes.
SPECIFICATION Spec
CONSTANTS
  MaxInt = 7
  Index <- Index2
  HasUp = {1, 3}
  HasDown = {1, 3}
  Procs = {p1, p2}
  NoProc = NoProc
  Prefetch = 1
  Ops <- OpsTwo
  InitVersions <- Nil
  Events = {"crash"}
SYMMETRY Symmetry
INVARIANTS
  VersionTellsSchema
  AppliedInOrder
