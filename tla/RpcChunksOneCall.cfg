SPECIFICATION ChunksFairSpec
CONSTANTS
  u1 = u1
  u2 = u2
  d1 = d1
  d2 = d2
  d3 = d3
  Messages = {d1, d2}
  From <- MCFrom
  MsgId <- OneCall
  ByteLength <- MCBytes
  ChunkSize = 2
  MaxDisconnects = 0
CHECK_DEADLOCK FALSE
PROPERTY
  WrittenArrives
