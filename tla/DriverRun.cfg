\* Every Run method and every body of at most five tokens.
SPECIFICATION FairSpec
CONSTANTS
  Drivers <- Kinds
  Bodies <- ShortBodies
  Cap = 3
  Chunk = 2
  MaxTries = 2
INVARIANTS
  AppliedInOrder
  AppliesMigration
  AllOrNothing
  StatementsAreWhole
  TooLongExactly
PROPERTIES
  RunReturns
  BufferEnds
CHECK_DEADLOCK FALSE
