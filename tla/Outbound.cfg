SPECIFICATION FairSpec
CONSTANTS
  w1 = w1
  w2 = w2
  p1 = p1
  NoIdentity = NoIdentity
  Barrier = Barrier
  Capacity = 2
  Reserve = 1
  Identities <- OneOfEach
  Plain <- PlainOnly
  MaxSequence = 2
  MaxStart = 1
  MaxRev = 2
CHECK_DEADLOCK FALSE
INVARIANTS
  TypeOK
  SequencesAccounted
  NewestKept
  NoLostWakeup
  ReserveHeld
PROPERTIES
  QueueDrains
  ImplementsOrderedDelivery
