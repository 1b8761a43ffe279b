\* Every driver.
SPECIFICATION Spec
CONSTANTS
  Drivers <- All
  Versions = {0, 1}
  MaxClock = 3
  Stalls = FALSE
  SharedReads = FALSE
PROPERTIES
  ReturnedIsStored
  VersionContract
  DirtyStatePersists
