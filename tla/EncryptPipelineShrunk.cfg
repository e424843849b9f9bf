SPECIFICATION RTSpec
CONSTANTS
  w1 = w1
  w2 = w2
  None = None
  Workers = {w1, w2}
  CAPACITY = 1
  BLOCK_SIZE = 2
  FileLists <- ShrunkLists
  MAY_FAIL = FALSE
  Requests <- MCRequests
  OutputOf <- MCOutputOf
INVARIANT EntriesReadable
CHECK_DEADLOCK FALSE
