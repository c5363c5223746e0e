SPECIFICATION Spec
CONSTANTS
  Clients = {c1}
  Listing = TRUE
  MaxSessions = 1
  MaxEntries = 2
  Capacity = 3
  MaxSequence = 2
  MaxConnections = 2
  MaxRestarts = 0
CHECK_DEADLOCK FALSE
INVARIANTS
  ResumeIsHarmless
