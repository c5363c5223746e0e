SPECIFICATION Spec
CONSTANTS
  k1 = k1
  k2 = k2
  k3 = k3
  web = web
  scale = scale
  apply = apply
  r1 = r1
  r2 = r2
  NoScope = NoScope
  Keys <- ThreeKeys
  Fingerprints <- ScaleAndApply
  Scopes <- WebOnly
  ScopeOf <- OnWeb
  Applies <- ApplyOnly
  Requests <- TwoTasks
  OperationCapacity = 2
  KeyCapacity = 2
  TicketCapacity = 1
  EventHeadroom = 1
  MaxOperations = 3
  MaxTickets = 1
SYMMETRY Symmetric
CHECK_DEADLOCK FALSE
INVARIANTS
  TypeOK
  OneWritePerTarget
  KeysSound
  TicketsSingleUse
  SessionKnowsLive
PROPERTIES
  ImplementsEngine
