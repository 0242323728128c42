SPECIFICATION RunSpec
CONSTANTS
  i1 = i1
  i2 = i2
  l1 = l1
  l2 = l2
  l3 = l3
  l4 = l4
  c1 = c1
  c2 = c2
  NoConn = NoConn
  Id = {i1, i2}
  Lock <- MCLock
  IdOf <- MCIdOf
CHECK_DEADLOCK FALSE
INVARIANTS
  LockSafety
  InjectionSafety
  ConfigurationIsTrue
PROPERTIES
  NoOvertaking
  ImplementsLockService
  EveryWaiterSettles
  AskedIsAnswered
