SPECIFICATION FairSpec
CONSTANTS
  u1 = u1
  s1 = s1
  User <- Users
  Clock = Clock
  Subscriber <- Subscribers
  MaxWrites = 2
  MaxRetries = 1
INVARIANTS
  ReadersOwned
  NewestDelivered
PROPERTIES
  CommitsInOrder
  SessionSettles
  HintIsObserved
CHECK_DEADLOCK FALSE
