\* Two processes, versions above the largest int, an unbuffered channel.
SPECIFICATION FairSpec
CONSTANTS
  MaxInt = 7
  Index <- IndexWide
  HasUp = {3, 9}
  HasDown = {3, 9}
  Procs = {p1, p2}
  NoProc = NoProc
  Prefetch = 0
  Ops <- OpsWide
  InitVersions <- Nil
  Events = {"lock"}
PROPERTIES
  OperationReturns
  LockDiscipline
