SPECIFICATION RunSpec
CONSTANTS
  k1 = k1
  k2 = k2
  cold = cold
  shared = shared
  n1 = n1
  Nothing = Nothing
  Client = {k1, k2}
  Name = {n1}
  Nobody = Nobody
  MaxCalls = 1
  MaxConnections = 3
  MaxRegistrations = 2
CHECK_DEADLOCK FALSE
INVARIANTS
  StreamsAgree
  NameIsReachable
  RequestsAreServed
PROPERTIES
  StreamsEnd
  CallsSettle
