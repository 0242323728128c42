SPECIFICATION RunSpec
CONSTANTS
  u1 = u1
  u2 = u2
  d1 = d1
  r1 = r1
  r2 = r2
  Start <- MCStart
  Cuts <- MCCuts
  Garbage = {0, 1, 3, 100}
  MaxThrows = 1
  Messages = {u1, u2, d1}
  From <- MCFrom
  MsgId <- MCMsgId
  ByteLength <- MCBytes
  ChunkSize = 2
  MaxDisconnects = 1
  Request = {r1, r2}
  HasToken = TRUE
  MaxSockets = 2
  MaxDrops = 1
CHECK_DEADLOCK FALSE
INVARIANTS
  FramingSafety
  ChunksSafety
  TransportSafety
  ValuesSurvive
PROPERTIES
  WrittenArrives
  ConnectSettles
