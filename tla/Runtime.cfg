SPECIFICATION MCSpec
CONSTANTS
  east = east
  west = west
  job = job
  web = web
  pods = pods
  nodes = nodes
  Switcher = Switcher
  NoContext = NoContext
  Contexts = {east, west}
  Order <- EastThenWest
  Configured = east
  Watchers = {s}
  Queries = {q}
  Clusters = {east}
  Selectors <- Kinds
  ContextOf <- AllInEast
  Subscribers = {s1, s2}
  Consumers = {k1, k2}
  MaxSelections = 2
  MaxCollectors = 2
  Submissions = {job}
  MutationTargets = {web}
  TargetOf <- OnWeb
  Elsewhere = Elsewhere
  MaxAccepted = 2
  MaxInstances = 2
  MaxDisruptions = 2
  c1 = c1
  Sessions = {c1, c2}
  Streams = {l1}
  RequestIds = {r1, r2}
  Slots = {n1, n2}
  RequestCapacity = 2
  UnauthSlots = 1
  AuthSlots = 1
  StreamSlots = 1
  NoTask = NoTask
CHECK_DEADLOCK FALSE
INVARIANTS
  RuntimeTypeOK
  SwitchingConsistent
  ClusterServes
  RetryIsInformed
  LifecycleConsistent
PROPERTIES
  SwitchRetiresReplaced
  WindsDown
  ViewsSettleUnlessMisled
  
