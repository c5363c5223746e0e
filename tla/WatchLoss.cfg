SPECIFICATION Spec
CONSTANTS
  w1 = w1
  w2 = w2
  k1 = k1
  k2 = k2
  NoKey = NoKey
  NoIdentity = NoIdentity
  Barrier = Barrier
  Watches <- OneWatch
  Keys <- BothKeys
  Identities <- W1K12
  Capacity = 4
  Reserve = 2
  RowsPerChunk = 2
  ChannelCapacity = 2
  WireCapacity = 1
  MaxRevision = 4
  MaxForwarders = 1
  Unsubscribes <- Nobody
CHECK_DEADLOCK FALSE
INVARIANTS
  NoSilentLoss
