----------------------------- MODULE MCServices -----------------------------
(***************************************************************************)
(* The pool of the MongoDB client and the persistences of the SQL adapters.*)
(* Two commands, one of which needs a primary, two hosts, and a pool that  *)
(* the first connections fill; a session with two rounds and a query of its*)
(* own.                                                                    *)
(***************************************************************************)
EXTENDS MongoPool, SqlPersistence, Sequences

CONSTANTS write, read, h1, h2, s1, s2, r1, r2, q1

VARIABLES
  part,  \* the component that runs
  elements, sorted, groups, mode, outcome

MCInserts == [r \in {r1, r2} |-> IF r = r1 THEN 2 ELSE 1]

Groups == INSTANCE GroupSort WITH Type <- <<"car", "brand", "car", "user">>,
  Dependencies <- {s \in SUBSET (1 .. 4) : Cardinality(s) <= 2}, Mode <-
  {[extra |-> e, circular |-> e, missing |-> ~e] : e \in BOOLEAN}

mongoVars == <<hosts, role, type, made, hostOf, status, reserved, socket,
  promise, current, idle, pc, awaited, on, tries, events>>
sqlVars == <<adapter, mutexPromise, promisesMade, resolved, awaits, active,
  out, rounds, of, depth, persistence, given, connection, stage, written,
  table, last, ids, overlapped, wasReset, failures, resets>>
sortVars == <<elements, sorted, groups, mode, outcome>>
runVars == <<part, mongoVars, sqlVars, sortVars>>

(* All components are at their beginning; one of them, chosen here, goes on. *)
RunInit ==
  /\ part \in {"mongo", "sql", "sort"}
  /\ Init
  /\ part # "mongo" => role = [h \in {h1, h2} |-> "primary"]
  /\ SqlInit
  /\ part # "sql" => adapter = "sqlite"
  /\ IF part = "sort" THEN Groups!Init ELSE elements = 0 /\ sorted = 0 /\ groups = 0 /\ mode = 0 /\ outcome = 0

MongoNext == part = "mongo" /\ Next /\ UNCHANGED <<part, sqlVars, sortVars>>
AdaptersNext == part = "sql" /\ SqlNext /\ UNCHANGED <<part, mongoVars,
  sortVars>>
GroupsNext == part = "sort" /\ Groups!Next /\ UNCHANGED <<part, mongoVars,
  sqlVars>>

RunNext == MongoNext \/ AdaptersNext \/ GroupsNext

(* The fairness of the components. *)
RunFairness ==
  /\ \A c \in {write, read} : WF_mongoVars(part = "mongo" /\ Connected(c))
  /\ \A c \in {write, read} : WF_mongoVars(part = "mongo" /\ Retry(c))
  /\ \A c \in {write, read} : WF_mongoVars(part = "mongo" /\ (TakeFree(c) \/ MakeOne(c) \/ NoHost(c)))
  /\ \A k \in Connection : WF_mongoVars(part = "mongo" /\ (HandshakeDone(k) \/ HandshakeRefused(k) \/ OnClose(k)))
  /\ \A k \in Connection : WF_mongoVars(part = "mongo" /\ (Reply(k, "done") \/ Reply(k, "retry") \/ OnClose(k)))
  /\ \A k \in Connection : WF_mongoVars(part = "mongo" /\ socket[k] \in {"ending", "failed"} /\ OnClose(k))
  /\ \A f \in {r1, r2, q1} : WF_sqlVars(part = "sql" /\ Step(f))

RunSpec == RunInit /\ [][RunNext]_runVars /\ RunFairness
-----------------------------------------------------------------------------
(* Rounds are sorted in groups. *)
GroupsAreSorted == part = "sort" => Groups!GroupsAreSorted
=============================================================================
