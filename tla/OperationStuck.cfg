SPECIFICATION FairSpec
CONSTANTS
  k1 = k1
  k2 = k2
  k3 = k3
  web = web
  scale = scale
  apply = apply
  r1 = r1
  r2 = r2
  NoScope = NoScope
  Keys <- TwoKeys
  Fingerprints <- ScaleAndApply
  Scopes <- WebOnly
  ScopeOf <- OnWeb
  Applies <- ApplyOnly
  Requests <- TwoTasks
  OperationCapacity = 2
  KeyCapacity = 2
  TicketCapacity = 2
  EventHeadroom = 1
  MaxOperations = 2
  MaxTickets = 2
CHECK_DEADLOCK FALSE
PROPERTIES
  AcceptedIsSettled
