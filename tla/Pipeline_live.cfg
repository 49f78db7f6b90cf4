SPECIFICATION FairSpec
CONSTANTS
  MaxFeed = 1
  MaxReference = 1
  MaxInterruptions = 1
  Requests <- GatedRequests
  NoPublication = NoPublication
PROPERTIES
  UpdatesArePublished
  ReferencesArePublished
