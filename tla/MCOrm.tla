-------------------------------- MODULE MCOrm -------------------------------
(***************************************************************************)
(* What stands on the adapters: updates of entities, queries, joins,       *)
(* schemas, migrations and live queries.                                   *)
(***************************************************************************)
EXTENDS EntityUpdates, Migrations

CONSTANTS a, b, c1, c2

VARIABLES
  part,  \* the component that runs
  heap, held, ran,
  query, rel1, rel2, other, selectTodo, selectSent, stack, items,
  result, found, failed,
  dialect, from, to, db, schemaTodo, error,
  rows, channel, paged, live, started, known, liveSent, tasks, client,
  writes, subjects, raced, misfetched

Column(name, notNull, default, key) == [name |-> name, notNull |-> notNull, default |-> default, key |-> key]

(* The columns of the old table and of the new one. *)
OldColumns == {Column("a", TRUE, "none", TRUE), Column("a", FALSE, "none", FALSE),
               Column("b", FALSE, "none", FALSE), Column("b", FALSE, "value", FALSE)}
NewColumns == {Column("a", TRUE, "none", TRUE), Column("b", FALSE, "none", FALSE), Column("b", TRUE, "none", FALSE),
               Column("c", FALSE, "none", FALSE), Column("c", FALSE, "value", FALSE), Column("d", FALSE, "none", FALSE)}

Builder == INSTANCE QueryBuilder WITH UserOption <- {"filter"}, Lift <-
  {"t"}, MaxQueries <- 9, MaxHeld <- 3

Select == INSTANCE SqlSelect WITH todo <- selectTodo, sent <- selectSent,
  Root <- {1, 2}, A <- {1, 2}, B <- {1, 2}, MaxRows <- 3

Schema == INSTANCE SqlSchema WITH todo <- schemaTodo, Dialect <- {"sqlite",
  "mysql", "postgres"}, OldExtra <- {"none", "index", "cascade"}, NewExtra
  <- {"none", "index", "unique", "cascade", "restrict"}

Live == INSTANCE LiveQuery WITH sent <- liveSent, Id <- {1, 2}, Limit <- 1,
  MaxVersion <- 2, MaxWrites <- 2, MaxSubjects <- 1

updatesVars == <<adapter, row, item, hydrated, snapshot, changeSet, outcome,
  edited, increments, refreshed, spoiled, steps, failures>>
queryVars == <<heap, held, ran>>
selectVars == <<query, rel1, rel2, other, selectTodo, selectSent, stack,
  items, result, found, failed>>
schemaVars == <<dialect, from, to, db, schemaTodo, error>>
migrationsVars == <<files, recorded, applied, run, commands, faked, cut,
  late>>
liveVars == <<rows, channel, paged, live, started, known, liveSent, tasks,
  client, writes, subjects, raced, misfetched>>

ASSUME Builder!QueryAssumption

runVars == <<part, updatesVars, queryVars, selectVars, schemaVars, migrationsVars, liveVars>>

(* All components are at their beginning; one of them, chosen here, goes on. *)
RunInit ==
  /\ part \in {"updates", "query", "select", "schema", "migrations", "live"}
  /\ UpdatesInit
  /\ part # "updates" => adapter = "memory"
  /\ Builder!Init
  /\ IF part = "select" THEN Select!Init ELSE query = 0 /\ rel1 = 0 /\ rel2 = 0 /\ other = 0 /\ selectTodo = 0 /\ selectSent = 0 /\ stack = 0 /\ items = 0 /\ result = 0 /\ found = 0 /\ failed = 0
  /\ IF part = "schema" THEN Schema!Init ELSE dialect = 0 /\ from = 0 /\ to = 0 /\ db = 0 /\ schemaTodo = 0 /\ error = 0
  /\ Init
  /\ IF part = "live" THEN Live!Init ELSE rows = 0 /\ channel = 0 /\ paged = 0 /\ live = 0 /\ started = 0 /\ known = 0 /\ liveSent = 0 /\ tasks = 0 /\ client = 0 /\ writes = 0 /\ subjects = 0 /\ raced = 0 /\ misfetched = 0

EntitiesNext == part = "updates" /\ UpdatesNext /\ UNCHANGED <<part,
  queryVars, selectVars, schemaVars, migrationsVars, liveVars>>
BuilderNext == part = "query" /\ Builder!Next /\ UNCHANGED <<part,
  updatesVars, selectVars, schemaVars, migrationsVars, liveVars>>
SelectNext == part = "select" /\ Select!Next /\ UNCHANGED <<part,
  updatesVars, queryVars, schemaVars, migrationsVars, liveVars>>
SchemaNext == part = "schema" /\ Schema!Next /\ UNCHANGED <<part,
  updatesVars, queryVars, selectVars, migrationsVars, liveVars>>
MigrateNext == part = "migrations" /\ Next /\ UNCHANGED <<part, updatesVars,
  queryVars, selectVars, schemaVars, liveVars>>
LiveNext == part = "live" /\ Live!Next /\ UNCHANGED <<part, updatesVars,
  queryVars, selectVars, schemaVars, migrationsVars>>

RunNext == EntitiesNext \/ BuilderNext \/ SelectNext \/ SchemaNext \/ MigrateNext \/ LiveNext

RunSpec == RunInit /\ [][RunNext]_runVars
-----------------------------------------------------------------------------
(* A query that is kept says what it said. *)
QueriesAreImmutable == Builder!QueriesAreImmutable
(* A query stays with the rows of its class. *)
StaysInClass == Builder!StaysInClass
(* Joins yield each item with its items. *)
JoinsAreExact == part = "select" => Select!JoinsAreExact
(* A migrated table is that of the model. *)
MigratedIsTheModel == part = "schema" => Schema!MigratedIsTheModel
(* A live collection follows the rows. *)
ClientFollows == part = "live" => Live!ClientFollows
=============================================================================
