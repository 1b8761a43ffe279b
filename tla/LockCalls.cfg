\* Three goroutines on one Migrate value, and other processes.
SPECIFICATION FairSpec
CONSTANTS
  Instances = {"value", "other"}
  NoInstance = "none"
  Callers = {"a", "b", "c"}
  NoCaller = "none"
  InstanceOf <- OneValue
  Attempts = {1, 2, 3}
  NoAttempt = 0
INVARIANTS
  OwnedOnce
  NoOrphan
  RoomToAnswer
PROPERTIES
  LockDiscipline
  CallsReturn
