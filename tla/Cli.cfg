\* Two processes, every command.
SPECIFICATION Spec
CONSTANTS
  MaxInt = 3
  Procs = {p1, p2}
  Commands <- AllCommands
  Directories <- SomeDirectories
  Base = 3
  TimeWidth = 2
  MaxClock = 1
  Count = 2
SYMMETRY Symmetry
INVARIANTS
  BothFiles
  SequenceGrows
  DuplicatesOverlap
PROPERTIES
  AtMostAsked
CHECK_DEADLOCK FALSE
