SPECIFICATION RollbackSpec
CONSTANTS
  f1 = f1
  f2 = f2
  Feature <- Features
  Overlap = 2
  MaxEdits = 3
  Absent = Absent
INVARIANTS
  CacheMatchesHistory
