\* One process, the Firebird driver.
SPECIFICATION Spec
CONSTANTS
  Procs = {p1}
  NoProc = NoProc
  Drivers <- OnlyFirebird
  UserTables = {"users", "orders"}
  References <- OneReference
INVARIANTS
  DropDeletesEverything
