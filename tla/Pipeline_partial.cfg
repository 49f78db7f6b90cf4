SPECIFICATION Spec
CONSTANTS
  MaxFeed = 2
  MaxReference = 0
  MaxInterruptions = 0
  Requests <- PartialGated
  NoPublication = NoPublication
INVARIANT ReportsCovered
