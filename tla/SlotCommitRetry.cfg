SPECIFICATION Spec
CONSTANTS
  a = a
  b = b
  None = None
  Files = {a, b}
  TableLength <- ByName
  Calls <- OneOrTwoFiles
  UNITS = 4
  MAX_ENTRIES = 4
  MAX_CALLS = 3
  KEEP_ON_ERROR = TRUE
  POWER_LOSS = FALSE
INVARIANT VisibleFilesReadable
CHECK_DEADLOCK FALSE
