\* Every source driver, every directory over seven names, and changes to it.
SPECIFICATION Spec
CONSTANTS
  MaxInt = 1
  Entries <- Names
  Sources <- All
  PageSize = 3
  Arguments <- AnyVersion
  MaxChanges = 1
PROPERTIES
  SourceContract
CHECK_DEADLOCK FALSE
