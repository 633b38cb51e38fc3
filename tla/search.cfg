SPECIFICATION FairSpec
CONSTANTS
  Mem1Base = 4
  Mem1Size = 4
  Mem2Base = 8
  Mem2Size = 5
  Byte = {0, 1}
  Chunk = 2
  MaxPattern = 3
INVARIANTS TypeOK ReportsEachOnce FindsLasting
PROPERTIES SearchEnds
