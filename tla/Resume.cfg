SPECIFICATION MCSpec
CONSTANTS
  Clients = {c1}
  Listing = TRUE
  MaxSessions = 1
  MaxEntries = 2
  Capacity = 2
  MaxSequence = 3
  MaxConnections = 3
  MaxRestarts = 1
CHECK_DEADLOCK FALSE
INVARIANTS
  TypeOK
  NoGap
  JournalSound
  LeaseHeld
PROPERTIES
  Reconnects
