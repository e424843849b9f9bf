SPECIFICATION RTSpec
CONSTANTS
  w1 = w1
  w2 = w2
  None = None
  Workers = {w1, w2}
  CAPACITY = 1
  BLOCK_SIZE = 2
  FileLists <- MCFileLists
  MAY_FAIL = TRUE
  Requests <- MCRequests
  OutputOf <- MCOutputOf
INVARIANTS NoChunkLost WrittenInOrder SteadyEntriesReadable SuccessMeansAll
  OutputsHoldOneFile ReturnMeansExtracted PutInComesOut
PROPERTY RunsEnd
CHECK_DEADLOCK FALSE
