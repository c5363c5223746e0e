SPECIFICATION Spec
CONSTANTS
  w1 = w1
  w2 = w2
  k1 = k1
  k2 = k2
  NoKey = NoKey
  NoIdentity = NoIdentity
  Barrier = Barrier
  Watches <- BothWatches
  Keys <- OneKey
  Identities <- W12K1
  Capacity = 3
  Reserve = 2
  RowsPerChunk = 1
  ChannelCapacity = 1
  WireCapacity = 1
  MaxRevision = 4
  MaxForwarders = 3
  Unsubscribes <- OneWatch
CHECK_DEADLOCK FALSE
INVARIANTS
  TypeOK
  SubscriptionsConsistent
  ConvergesUnlessMerged
  SnapshotsReassemble
