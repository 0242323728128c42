SPECIFICATION BrokerSpec
CONSTANTS
  i1 = i1
  l1 = l1
  l2 = l2
  l3 = l3
  c1 = c1
  c2 = c2
  Id = {i1}
  Lock <- MCLock
  IdOf <- MCIdOf
  Conn = {c1, c2}
  ConnOf <- MCConnOf
  NoConn = NoConn
  TtlChoice = {TRUE, FALSE}
  TimeoutChoice = {TRUE, FALSE}
CHECK_DEADLOCK FALSE
INVARIANT
  DeadClientHoldsNothing
