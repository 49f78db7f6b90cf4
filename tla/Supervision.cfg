SPECIFICATION FairSpec
CONSTANTS
  Invocation = {i1, i2, i3}
  Reader = {r1}
  Nobody = Nobody
INVARIANTS TypeOK OneWriter ReadersExcluded HandOffUndisturbed NothingLeftBehind
PROPERTY InterruptFreesYear
