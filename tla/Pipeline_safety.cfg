SPECIFICATION Spec
CONSTANTS
  MaxFeed = 1
  MaxReference = 1
  MaxInterruptions = 1
  Requests <- MixedRequests
  NoPublication = NoPublication
INVARIANTS
  TypeOK
  WorkCovered
  CheckpointHonest
  FullFetchRebuilt
