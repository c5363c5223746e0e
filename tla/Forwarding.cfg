SPECIFICATION MCSpec
CONSTANTS
  first = first
  second = second
  third = third
  Transition = Transition
  Nobody = Nobody
  Forwards = {first, second, third}
  StopRequests = {s}
  Targets <- FourTargets
  KeyOf <- Endpoint
  ForwardContexts = {a, b}
  FirstContext = a
  MaxForwards = 2
  MaxTransitions = 1
  Rows = {first, second}
  MaxPublications = 4
CHECK_DEADLOCK FALSE
INVARIANTS
  ForwardingTypeOK
  ForwardsConsistent
PROPERTIES
  PublicationsOrdered
  OnlyLockCyclesHang
  RowsAdvance
  FeedConverges
