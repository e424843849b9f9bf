SPECIFICATION Spec
CONSTANTS
  HEADER_SIZE = 2
  BLOCK_SIZE = 3
  OVERHEAD = 1
  UINT32 = 1000
  Containers <- ApartContainers
  PlainSizes <- MCPlainSizes
  Totals <- MCTotals
  MAX_FILES = 4
INVARIANTS TypeOK SlotsUntouched SegmentsDisjoint InsideContainer
  ReadsBackWhatWasWritten CapacityExact PlacementInv
