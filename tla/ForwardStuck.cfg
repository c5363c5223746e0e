SPECIFICATION ForwardSpec
CONSTANTS
  first = first
  second = second
  third = third
  Transition = Transition
  Nobody = Nobody
  Forwards = {first, second}
  StopRequests = {}
  Targets <- FourTargets
  KeyOf <- Endpoint
  ForwardContexts = {a}
  FirstContext = a
  MaxForwards = 1
  MaxTransitions = 0
CHECK_DEADLOCK FALSE
PROPERTIES
  StartsAnswered
