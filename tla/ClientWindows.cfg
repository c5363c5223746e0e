SPECIFICATION MCSpec
CONSTANTS
  w1 = w1
  w2 = w2
  k1 = k1
  k2 = k2
  NoKey = NoKey
  NoIdentity = NoIdentity
  Barrier = Barrier
  Watches <- OneWatch
  Keys <- BothKeys
  Identities <- W1K12
  Capacity = 4
  Reserve = 2
  RowsPerChunk = 1
  ChannelCapacity = 1
  WireCapacity = 1
  MaxRevision = 4
  MaxForwarders = 3
  Unsubscribes <- OneWatch
  here = here
  there = there
  pod = pod
  Places = {here, there}
  Home = here
  Resources = {pod}
  NoPlace = NoPlace
  NoResource = NoResource
  MaxWindows = 2
CHECK_DEADLOCK FALSE
INVARIANTS
  WorkspaceSound
PROPERTIES
  ListsServed
  WorkspaceServes
