SPECIFICATION FairSpec
CONSTANTS
  p1 = p1
  p2 = p2
  f1 = f1
  f2 = f2
  Perimeter <- Perimeters
  Fire <- Fires
  FireOf <- Owner
  MaxMonth = 1
  MaxCrashes = 2
  NoDocument = NoDocument
INVARIANTS
  TypeOK
  CaughtUp
  AnnouncedOnce
PROPERTIES
  ImplementsLedger
  JournaledIsPublished
