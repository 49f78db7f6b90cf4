SPECIFICATION Spec
CONSTANTS
  f1 = f1
  f2 = f2
  Feature <- Features
  Overlap = 2
  MaxEdits = 4
  Absent = Absent
SYMMETRY FeatureSymmetry
INVARIANTS
  TypeOK
  CacheMatchesHistory
PROPERTIES
  CompletedFetchCovers
  HistoryGrowsByNews
