SPECIFICATION Spec
CONSTANTS
  a = a
  b = b
  None = None
  Files = {a, b}
  TableLength <- ByName
  Calls <- OneFileOrTooMany
  UNITS = 3
  MAX_ENTRIES = 3
  MAX_CALLS = 4
  KEEP_ON_ERROR = FALSE
  POWER_LOSS = FALSE
INVARIANTS CompletedUpdateKept FirstValidHoldsMost VisibleFilesReadable
CHECK_DEADLOCK FALSE
