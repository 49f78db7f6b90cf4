SPECIFICATION FairRotation
CONSTANTS
  r1 = r1
  Readers <- Commands
  SegmentLines = 1
  MaxRecords = 2
  MaxBatches = 2
  MaxCrashes = 2
INVARIANTS
  TypeOK
  ReceiptsAuthenticate
PROPERTIES
  ImplementsRetainedLog
  TextIsKept
  Settles
