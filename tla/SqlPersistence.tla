--------------------------- MODULE SqlPersistence ---------------------------
(***************************************************************************)
(* Who uses an SQL connection, and which id a new row gets: the Mutex of   *)
(* @deepkit/core, the connection pools of SQLite, MySQL and Postgres,      *)
(* SQLPersistence with its batches, and the commits of database sessions   *)
(* that keep a persistence until their outermost commit ends.  Queries     *)
(* (RawQuery, SQLQueryResolver) take a connection for one statement.       *)
(*                                                                         *)
(* The databases are the environment: a statement writes its rows in one   *)
(* step, or fails.                                                         *)
(***************************************************************************)
EXTENDS Naturals, Integers, Sequences, FiniteSets, SequencesExt

CONSTANTS
  Session, Query,
  Round,       \* rounds of sessions: each is filled and committed once
  Inserts,     \* Inserts[r]: how many items round r inserts
  BatchSize,   \* getInsertBatchSize()
  PoolSize,    \* connections of the MySQL and Postgres drivers
  Adapter,     \* the adapters looked at
  Absent,      \* no connection, persistence or session
  MaxFailures, \* bound: statements that fail
  MaxResets    \* bound: calls of reset()

ASSUME SqlAssumption ==
  /\ Adapter \subseteq {"sqlite", "mysql", "postgres"}
  /\ Inserts \in [Round -> Nat \ {0}] /\ BatchSize \in Nat \ {0} /\ PoolSize \in Nat \ {0}
  /\ Absent \notin Round \cup Query /\ Round \cap Query = {}

(* A round or a query asks a pool for one connection at most: connections  *)
(* are named after who asked, and a persistence after its first round.     *)
Flow == Round \cup Query

VARIABLES
  adapter,
  mutexPromise,\* Mutex.promise: its number, or 0
  promisesMade,\* promises made; Mutex.resolver is that of the last
  resolved,    \* promises resolved
  awaits,      \* awaits[f]: the promise f waits for, or 0
  active,      \* activeConnections
  out,         \* connections not given back
  rounds,      \* rounds[s]: session.rounds
  of,          \* of[r]: the session whose commit runs round r
  depth,       \* commitDepth
  persistence, \* currentPersistence
  given,       \* given[r]: the persistence round r commits with
  connection,  \* connection[p]: SQLPersistence.connection
  stage,       \* new, queued, run, locking, committed, failed (rounds); idle, locking, run, done, failed (queries)
  written,     \* written[r]: items of r in batches already run
  table,       \* the rows: <<r, k>> for item k of r, <<q, 1>> for a query's; a row's id is its place
  last,        \* last[h]: first id and count of the last insert of handle h
  ids,         \* ids[r]: what populateAutoIncrementFields assigned
  overlapped,  \* two rounds were in commit with one persistence
  wasReset, failures, resets

mutexVars == <<mutexPromise, promisesMade, resolved, awaits>>
sessionVars == <<rounds, of, depth, persistence>>
dataVars == <<written, table, last, ids>>
ghostVars == <<overlapped, wasReset, failures, resets>>
persistenceVars == <<adapter, mutexVars, active, out, sessionVars, given, connection, stage, dataVars, ghostVars>>

SqlInit ==
  /\ adapter \in Adapter
  /\ mutexPromise = 0 /\ promisesMade = 0 /\ resolved = {} /\ awaits = [f \in Flow |-> 0]
  /\ active = 0 /\ out = {}
  /\ rounds = [s \in Session |-> <<>>] /\ depth = [s \in Session |-> 0]
  /\ persistence = [s \in Session |-> Absent] /\ of = [r \in Round |-> Absent]
  /\ given = [r \in Round |-> Absent] /\ connection = [r \in Round |-> Absent]
  /\ stage = [f \in Flow |-> IF f \in Round THEN "new" ELSE "idle"]
  /\ written = [r \in Round |-> 0] /\ table = <<>> /\ ids = [r \in Round |-> <<>>]
  /\ last = [h \in Flow \cup {Absent} |-> [first |-> 0, count |-> 0]]
  /\ overlapped = FALSE /\ wasReset = FALSE /\ failures = 0 /\ resets = 0

InCommit(r) == stage[r] \in {"run", "locking"}

(* SQLite has one database handle; the others one per connection.          *)
Handle(k) == IF adapter = "sqlite" THEN Absent ELSE k

------------------------------------------------------------------------------
(* Mutex.unlock, called by release() of the SQLite pool. *)
Unlocked == /\ resolved' = IF promisesMade > 0 THEN resolved \cup {promisesMade} ELSE resolved
            /\ mutexPromise' = 0
            /\ UNCHANGED <<promisesMade, awaits>>

(* release() of connection k of the adapter's pool. *)
Released(k) ==
  /\ active' = active - 1
  /\ out' = out \ {k}
  /\ IF adapter = "sqlite" THEN Unlocked ELSE UNCHANGED mutexVars

(* SQLPersistence.release: the field stays. *)
PersistenceReleased(p) ==
  IF p # Absent /\ connection[p] # Absent THEN Released(connection[p])
  ELSE UNCHANGED <<active, out, mutexVars>>

(* Mutant: if (this.promise) await this.promise. *)
GetConnectionOnce(f) ==
  /\ stage[f] = "locking"
  /\ IF adapter = "sqlite"
       THEN \/ /\ mutexPromise # 0 /\ awaits[f] = 0
               /\ awaits' = [awaits EXCEPT ![f] = mutexPromise]
               /\ UNCHANGED <<mutexPromise, promisesMade, resolved, active, out, connection, stage>>
            \/ /\ mutexPromise = 0 \/ awaits[f] \in resolved
               /\ mutexPromise' = promisesMade + 1 /\ promisesMade' = promisesMade + 1 /\ resolved' = resolved
               /\ awaits' = [awaits EXCEPT ![f] = 0]
               /\ active' = active + 1 /\ out' = out \cup {f}
               /\ stage' = [stage EXCEPT ![f] = "run"]
               /\ connection' = IF f \in Round THEN [connection EXCEPT ![given[f]] = f] ELSE connection
       ELSE /\ Cardinality(out) < PoolSize
            /\ active' = active + 1 /\ out' = out \cup {f}
            /\ stage' = [stage EXCEPT ![f] = "run"]
            /\ connection' = IF f \in Round THEN [connection EXCEPT ![given[f]] = f] ELSE connection
            /\ UNCHANGED mutexVars
  /\ UNCHANGED <<adapter, sessionVars, given, dataVars, ghostVars>>

(* getConnection of the pool: SQLite's waits for the mutex, in a loop; the *)
(* others' for the driver. The persistence keeps what it is given.         *)
GetConnection(f) ==
  /\ stage[f] = "locking"
  /\ IF adapter = "sqlite"
       THEN \/ /\ mutexPromise # 0 /\ awaits[f] \in resolved \cup {0}
               /\ awaits' = [awaits EXCEPT ![f] = mutexPromise]
               /\ UNCHANGED <<mutexPromise, promisesMade, resolved, active, out, connection, stage>>
            \/ /\ mutexPromise = 0 /\ awaits[f] \in resolved \cup {0}
               /\ mutexPromise' = promisesMade + 1 /\ promisesMade' = promisesMade + 1 /\ resolved' = resolved
               /\ awaits' = [awaits EXCEPT ![f] = 0]
               /\ active' = active + 1 /\ out' = out \cup {f}
               /\ stage' = [stage EXCEPT ![f] = "run"]
               /\ connection' = IF f \in Round THEN [connection EXCEPT ![given[f]] = f] ELSE connection
       ELSE /\ Cardinality(out) < PoolSize
            /\ active' = active + 1 /\ out' = out \cup {f}
            /\ stage' = [stage EXCEPT ![f] = "run"]
            /\ connection' = IF f \in Round THEN [connection EXCEPT ![given[f]] = f] ELSE connection
            /\ UNCHANGED mutexVars
  /\ UNCHANGED <<adapter, sessionVars, given, dataVars, ghostVars>>

------------------------------------------------------------------------------
(* A query of its own: one statement, then release in finally. *)
StartQuery(q) ==
  /\ stage[q] = "idle" /\ stage' = [stage EXCEPT ![q] = "locking"]
  /\ UNCHANGED <<adapter, mutexVars, active, out, sessionVars, given, connection, dataVars, ghostVars>>

(* Mutant: release() is not in finally. *)
RunQueryLeaking(q) ==
  /\ stage[q] = "run"
  /\ \/ /\ table' = Append(table, <<q, 1>>)
        /\ last' = [last EXCEPT ![Handle(q)] = [first |-> Len(table) + 1, count |-> 1]]
        /\ stage' = [stage EXCEPT ![q] = "done"] /\ failures' = failures
        /\ Released(q)
     \/ /\ failures < MaxFailures /\ failures' = failures + 1
        /\ stage' = [stage EXCEPT ![q] = "failed"]
        /\ UNCHANGED <<table, last, active, out, mutexVars>>
  /\ UNCHANGED <<adapter, sessionVars, given, connection, written, ids, overlapped, wasReset, resets>>

RunQuery(q) ==
  /\ stage[q] = "run"
  /\ \/ /\ table' = Append(table, <<q, 1>>)
        /\ last' = [last EXCEPT ![Handle(q)] = [first |-> Len(table) + 1, count |-> 1]]
        /\ stage' = [stage EXCEPT ![q] = "done"] /\ failures' = failures
     \/ /\ failures < MaxFailures /\ failures' = failures + 1
        /\ stage' = [stage EXCEPT ![q] = "failed"]
        /\ UNCHANGED <<table, last>>
  /\ Released(q)
  /\ UNCHANGED <<adapter, sessionVars, given, connection, written, ids, overlapped, wasReset, resets>>

------------------------------------------------------------------------------
(* session.add(): a new round is entered while the current one commits.    *)
Add(s, r) ==
  /\ stage[r] = "new"
  /\ rounds[s] # <<>> => InCommit(Last(rounds[s]))
  /\ of' = [of EXCEPT ![r] = s]
  /\ rounds' = [rounds EXCEPT ![s] = Append(@, r)]
  /\ stage' = [stage EXCEPT ![r] = "queued"]
  /\ UNCHANGED <<adapter, mutexVars, active, out, depth, persistence, given, connection, dataVars, ghostVars>>

(* Round r begins on persistence p, next to those of others in commit. *)
Begins(r, p, others) ==
  /\ given' = [given EXCEPT ![r] = p]
  /\ overlapped' = (overlapped \/ \E o \in others : InCommit(o) /\ given[o] = p)

(* commit(): rounds that are committed or in commit are passed over. *)
Commit(s) ==
  /\ \E i \in 1 .. Len(rounds[s]) :
       LET r == rounds[s][i]
           p == IF persistence[s] = Absent THEN r ELSE persistence[s]
       IN /\ stage[r] = "queued" /\ \A j \in 1 .. i - 1 : stage[rounds[s][j]] # "queued"
          /\ persistence' = [persistence EXCEPT ![s] = p]
          /\ depth' = [depth EXCEPT ![s] = @ + 1]
          /\ stage' = [stage EXCEPT ![r] = "run"]
          /\ Begins(r, p, Round)
  /\ UNCHANGED <<adapter, mutexVars, active, out, rounds, of, connection, dataVars, wasReset, failures, resets>>

(* SQLPersistence.getConnection finds none. *)
Ask(r) ==
  /\ stage[r] = "run" /\ connection[given[r]] = Absent
  /\ stage' = [stage EXCEPT ![r] = "locking"]
  /\ UNCHANGED <<adapter, mutexVars, active, out, sessionVars, given, connection, dataVars, ghostVars>>

(* The first statement of a round that had to ask runs on what it got,     *)
(* every later one on the field.                                           *)
Runs(r) == stage[r] = "run" /\ connection[given[r]] # Absent

(* batchInsert of the next batch. *)
BatchInsert(r) ==
  /\ Runs(r) /\ written[r] < Inserts[r]
  /\ LET n == IF Inserts[r] - written[r] < BatchSize THEN Inserts[r] - written[r] ELSE BatchSize IN
     /\ table' = table \o [k \in 1 .. n |-> <<r, written[r] + k>>]
     /\ last' = [last EXCEPT ![Handle(connection[given[r]])] = [first |-> Len(table) + 1, count |-> n]]
     /\ written' = [written EXCEPT ![r] = @ + n]
  /\ UNCHANGED <<adapter, mutexVars, active, out, sessionVars, given, connection, stage, ids, ghostVars>>

Numbered(r, start) == ids' = [ids EXCEPT ![r] = [k \in 1 .. Inserts[r] |-> start + k - 1]]

(* commit() goes on with the next round, or ends: the outermost releases.  *)
EndOfRound(r) ==
  LET s == of[r]
      place == IF Contains(rounds[s], r) THEN CHOOSE i \in 1 .. Len(rounds[s]) : rounds[s][i] = r
               ELSE Len(rounds[s])
      open == {i \in place + 1 .. Len(rounds[s]) : stage[rounds[s][i]] = "queued"}
  IN \/ \E i \in open :
          /\ \A j \in open : i <= j
          /\ stage' = [stage EXCEPT ![r] = "committed", ![rounds[s][i]] = "run"]
          /\ Begins(rounds[s][i], persistence[s], Round \ {r})
          /\ UNCHANGED <<sessionVars, active, out, mutexVars>>
     \/ /\ open = {}
        /\ stage' = [stage EXCEPT ![r] = "committed"]
        /\ depth' = [depth EXCEPT ![s] = @ - 1]
        /\ IF depth[s] = 1
             THEN /\ PersistenceReleased(persistence[s])
                  /\ persistence' = [persistence EXCEPT ![s] = Absent]
                  /\ rounds' = [rounds EXCEPT ![s] = <<>>]
             ELSE UNCHANGED <<rounds, persistence, active, out, mutexVars>>
        /\ UNCHANGED <<of, given, overlapped>>

(* The catch of commit(). *)
Throws(r) ==
  LET s == of[r] IN
  /\ stage' = [stage EXCEPT ![r] = "failed"]
  /\ rounds' = [rounds EXCEPT ![s] = <<>>] /\ depth' = [depth EXCEPT ![s] = 0]
  /\ PersistenceReleased(persistence[s])
  /\ persistence' = [persistence EXCEPT ![s] = Absent]
  /\ UNCHANGED <<of, given, overlapped>>

(* populateAutoIncrementFields of SQLite counts back from the last id of   *)
(* the handle.                                                             *)
SqliteIds(r, row) ==
  Numbered(r, row.first + row.count - Inserts[r]) /\ EndOfRound(r)

(* MySQL's counts on from the first id of the last batch. *)
MySQLIds(r, row) == Numbered(r, row.first) /\ EndOfRound(r)

(* Postgres' reads the rows of the last batch and throws when there are    *)
(* more items than rows.                                                   *)
PostgresIds(r, row) ==
  \/ /\ row.count >= Inserts[r]
     /\ Numbered(r, row.first) /\ EndOfRound(r)
  \/ /\ row.count < Inserts[r]
     /\ ids' = [ids EXCEPT ![r] = [k \in 1 .. row.count |-> row.first + k - 1]]
     /\ Throws(r)

(* The end of insert(): the ids of all items, and the end of the round. *)
Populate(r) ==
  /\ Runs(r) /\ written[r] = Inserts[r]
  /\ LET row == last[Handle(connection[given[r]])] IN
     CASE adapter = "sqlite" -> SqliteIds(r, row)
       [] adapter = "mysql" -> MySQLIds(r, row)
       [] OTHER -> PostgresIds(r, row)
  /\ UNCHANGED <<adapter, connection, written, table, last, wasReset, failures, resets>>

Fail(r) ==
  /\ Runs(r) /\ failures < MaxFailures /\ failures' = failures + 1
  /\ Throws(r)
  /\ UNCHANGED <<adapter, connection, dataVars, wasReset, resets>>

(* reset() in the middle of anything. *)
Reset(s) ==
  /\ resets < MaxResets /\ resets' = resets + 1
  /\ \E r \in Round : InCommit(r)
  /\ depth' = [depth EXCEPT ![s] = 0] /\ rounds' = [rounds EXCEPT ![s] = <<>>]
  /\ persistence[s] # Absent
  /\ PersistenceReleased(persistence[s])
  /\ persistence' = [persistence EXCEPT ![s] = Absent]
  /\ wasReset' = TRUE
  /\ UNCHANGED <<adapter, of, given, connection, stage, dataVars, overlapped, failures>>

Step(f) ==
  \/ GetConnection(f)
  \/ f \in Query /\ RunQuery(f)
  \/ /\ f \in Round
     /\ Ask(f) \/ BatchInsert(f) \/ Populate(f)

SqlNext ==
  \/ \E f \in Flow : Step(f)
  \/ \E q \in Query : StartQuery(q)
  \/ \E s \in Session : Commit(s) \/ Reset(s) \/ \E r \in Round : Add(s, r)
  \/ \E r \in Round : Fail(r)

SqlSpec == SqlInit /\ [][SqlNext]_persistenceVars /\ \A f \in Flow : WF_persistenceVars(Step(f))

------------------------------------------------------------------------------
SqlTypeOK ==
  /\ mutexPromise \in 0 .. promisesMade /\ resolved \subseteq 1 .. promisesMade
  /\ out \subseteq Flow /\ active \in Int
  /\ \A s \in Session : persistence[s] \in Round \cup {Absent}
  /\ \A r \in Round : given[r] \in Round \cup {Absent} /\ connection[r] \in Flow \cup {Absent}

(* SQLite's only handle is with one commit or query at a time, however     *)
(* late the waiters of Mutex.lock() come back; reset() in the middle of a  *)
(* commit apart.                                                           *)
OneUserOfSqlite ==
  (adapter = "sqlite" /\ ~ wasReset) => Cardinality(out) <= 1

(* Every item of a committed round got the id of its own row, with any     *)
(* number of batches and whoever else writes; MySQL only when the items    *)
(* fit into one batch, and no adapter when two rounds of a session insert  *)
(* on their one connection at the same time.                               *)
IdsAreOfTheirRows ==
  ~ (wasReset \/ overlapped) =>
    \A r \in Round : (stage[r] = "committed" /\ (adapter = "mysql" => Inserts[r] <= BatchSize)) =>
      \A k \in 1 .. Inserts[r] : ids[r][k] \in 1 .. Len(table) /\ table[ids[r][k]] = <<r, k>>

(* A query and a commit that wait for a connection go on, and give it      *)
(* back: unless two rounds of a session ask at once, or reset() released   *)
(* what a round still uses.                                                *)
ConnectionsComeBack ==
  [](\A f \in Flow : stage[f] \in {"locking", "run"} => <>(stage[f] \notin {"locking", "run"} \/ overlapped \/ wasReset))

(* All that holds at any moment: SQLite's handle has one user, and every   *)
(* item has the id of its row.                                             *)
PersistenceSafety ==
  /\ SqlTypeOK
  /\ OneUserOfSqlite
  /\ IdsAreOfTheirRows
=============================================================================
