SPECIFICATION Spec
CONSTANTS
  a = a
  b = b
  None = None
  Files = {a, b}
  TableLength <- ByCount
  Calls <- aThenTwoFiles
  UNITS = 3
  MAX_ENTRIES = 2
  MAX_CALLS = 4
  KEEP_ON_ERROR = TRUE
  POWER_LOSS = TRUE
INVARIANTS TypeOK CommitInv ThreeInterruptionsOpen
PROPERTIES CompletedDataStays ImplementsDurableTable
CHECK_DEADLOCK FALSE
