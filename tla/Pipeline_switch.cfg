SPECIFICATION Spec
CONSTANTS
  MaxFeed = 2
  MaxReference = 0
  MaxInterruptions = 0
  Requests <- PolicySwitches
  NoPublication = NoPublication
INVARIANT IndexCovered
