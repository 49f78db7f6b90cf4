SPECIFICATION MCSpec
CONSTANTS
  Inputs = 2
  MaxWorkers = 2
  MaxPending = 2
  MaxWeight = 2
  Weight <- TwoWeights
  Versions = {1, 2}
  Contexts = {1, 2}
  Stamps = {1}
  MaxChanges = 2
  MaxInterruptions = 1
CONSTRAINT FirstMapIsFree
INVARIANTS
  AdmissionBounded
  WorkersOwned
  PairHonest
  FinishedStageIsCurrent
PROPERTY ImplementsSerialMap
