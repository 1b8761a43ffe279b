\* Every driver that heeds a refusal, no Drop of a lock table.
SPECIFICATION Spec
CONSTANTS
  Procs = {p1, p2, p3}
  NoProc = NoProc
  Drivers <- Heeding
  Drops = FALSE
SYMMETRY Symmetry
INVARIANTS
  OneProcess
  NoOrphan
