SPECIFICATION Spec
CONSTANTS
  w1 = w1
  w2 = w2
  k1 = k1
  k2 = k2
  NoKey = NoKey
  NoIdentity = NoIdentity
  Barrier = Barrier
  Watches <- OneWatch
  Keys <- OneKey
  Identities <- W1K1
  Capacity = 6
  Reserve = 4
  RowsPerChunk = 1
  ChannelCapacity = 3
  WireCapacity = 1
  MaxRevision = 4
  MaxForwarders = 1
  Unsubscribes <- Nobody
CHECK_DEADLOCK FALSE
PROPERTIES
  ListsNeverRegress
