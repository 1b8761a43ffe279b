\* Every driver, alone or two processes.
SPECIFICATION Spec
CONSTANTS
  Procs = {p1, p2}
  NoProc = NoProc
  Drivers <- All
  UserTables = {"users", "orders"}
  References <- OneReference
SYMMETRY Symmetry
INVARIANTS
  DropIsThorough
  OpenedHasTable
  NobodyTrips
  LockIsReturned
PROPERTIES
  OnlyDropDeletes
