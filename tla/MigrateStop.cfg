\* One process that is asked to stop, with failures of the source and the database.
SPECIFICATION FairSpec
CONSTANTS
  MaxInt = 7
  Index <- Index5
  HasUp = {0, 1, 3, 4, 6}
  HasDown = {0, 1, 3, 4, 6}
  Procs = {p1}
  NoProc = NoProc
  Prefetch = 1
  Ops <- OpsStop
  InitVersions <- Nil
  Events = {"stop", "source", "database"}
INVARIANTS
  SafeBreakPoint
  StopBound
PROPERTIES
  OperationReturns
