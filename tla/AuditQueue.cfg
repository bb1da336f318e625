SPECIFICATION FairSpec
CONSTANTS
  NoEvent = NoEvent
  Events = {e1, e2, e3}
  Referencing = {e1}
  Producers = {p1, p2}
  Capacity = 2
  BatchCap = 2
INVARIANTS
  TokenConservation
  AcceptedNotLost
  StoredInOrder
PROPERTIES
  AcceptedEventuallyStored
  CloseReturns
  PersistentFailureReported
CHECK_DEADLOCK FALSE
