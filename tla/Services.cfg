SPECIFICATION RunSpec
CONSTANTS
  write = write
  read = read
  h1 = h1
  h2 = h2
  s1 = s1
  s2 = s2
  r1 = r1
  r2 = r2
  q1 = q1
  Command = {write, read}
  NeedsWritable = {write}
  Host = {h1, h2}
  Handshake = Handshake
  None = None
  MaxPoolSize = 2
  MinPoolSize = 1
  MaxRetries = 2
  SecondaryReadAllowed = FALSE
  MaxConnections = 3
  MaxEvents = 1
  Session = {s1, s2}
  Round = {r1, r2}
  Query = {q1}
  Inserts <- MCInserts
  Absent = Absent
  BatchSize = 1
  PoolSize = 2
  Adapter = {"sqlite", "mysql", "postgres"}
  MaxFailures = 1
  MaxResets = 1
CHECK_DEADLOCK FALSE
INVARIANTS
  PoolSafety
  PersistenceSafety
  GroupsAreSorted
PROPERTIES
  CommandsSettle
  ConnectionsComeBack
