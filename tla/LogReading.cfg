SPECIFICATION Spec
CONSTANTS
  r1 = r1
  Readers <- Commands
  SegmentLines = 2
  MaxRecords = 5
  MaxBatches = 0
  MaxCrashes = 3
  ReadLines = 1
INVARIANTS
  ReadsWholeMonth
  ListedIsReadable
  EvidenceIsPrefix
PROPERTIES
  CaughtUpIsComplete
