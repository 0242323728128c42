SPECIFICATION RunSpec
CONSTANTS
  i1 = i1
  l1 = l1
  l2 = l2
  l3 = l3
  c1 = c1
  c2 = c2
  f1 = f1
  p1 = p1
  p3 = p3
  s1 = s1
  s2 = s2
  Id = {i1}
  Lock <- MCLock
  IdOf <- MCIdOf
  Conn = {c1, c2}
  ConnOf <- MCConnOf
  NoConn = NoConn
  TtlChoice = {TRUE, FALSE}
  TimeoutChoice = {TRUE, FALSE}
  BrokerClient = {c1, c2}
  MayDie = {c2}
  Reader = {c2}
  Field = {f1}
  Publication = {p1, p3}
  PublisherOf <- MCPublisherOf
  FieldsOf <- MCFieldsOf
  NoPublication = NoPublication
  Client = {c1, c2}
  Mortal = {c2}
  Publisher = {c2}
  Subscriber = {s1, s2}
  OwnerOf <- MCOwnerOf
  MaxMessages = 2
  MaxThrows = 1
CHECK_DEADLOCK FALSE
INVARIANTS
  LocksAgree
  FieldsAgree
  ChannelSafety
PROPERTIES
  CloseReleasesAll
  RequestsAreAnswered
  PublishedArrives
