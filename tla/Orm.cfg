SPECIFICATION RunSpec
CONSTANTS
  a = a
  b = b
  c1 = c1
  c2 = c2
  Key = {1, 2}
  Text = {a, b}
  Null = Null
  Unset = Unset
  Unknown = Unknown
  Adapter = {"sqlite", "mysql", "postgres", "mongo", "memory"}
  BatchSize = 2
  MaxN = 3
  MaxSteps = 4
  MaxFailures = 1
  Version = {1, 2, 3}
  Command = {c1, c2}
  Statements = 2
  MaxCommands = 4
  MaxFakes = 1
CHECK_DEADLOCK FALSE
INVARIANTS
  SnapshotsFollow
  StaysInClass
  JoinsAreExact
  MigratedIsTheModel
  BooksMatch
  ClientFollows
PROPERTIES
  CommitsMerge
  QueriesAreImmutable
