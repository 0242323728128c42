--------------------------- MODULE DatabaseSession ---------------------------
(***************************************************************************)
(* orm/src/database-session.ts and orm/src/identity-map.ts: one session,   *)
(* its rounds and its identity map, while the application goes on between  *)
(* the awaits of a commit. The soft-delete plugin is the hook that stops   *)
(* an event.                                                               *)
(*                                                                         *)
(* JavaScript runs one task at a time: `running` holds the thread from one *)
(* await of a commit to the next.                                          *)
(***************************************************************************)
EXTENDS Integers, Sequences, FiniteSets, Functions

CONSTANTS
  Items,        \* entities; each has a primary key that does not change
  Class,        \* Class[i], its ClassSchema
  Refs,         \* Refs[i], the entities it refers to
  Values,       \* what the fields of an entity hold
  Deleted,      \* the one with deletedAt set
  NoRow,        \* no row, no snapshot
  SoftDeleted,  \* the classes the soft-delete plugin is enabled for
  Hooks,        \* the events of unitOfWorkEmitter that have a subscription
  EditInFlight, \* whether the application changes entities while they are written
  Commits,      \* the callers of commit(): these may overlap
  MaxCommits,   \* bound: calls of commit()
  MaxEdits,     \* bound: what the application does to entities and queues
  MaxFailures   \* bound: errors of the database and of hooks

Classes == {Class[i] : i \in Items}
Events == {"commitPre", "deletePre", "deletePost", "insertPre", "insertPost", "updatePre", "updatePost"}

(* References go one level deep and are the same for all entities of a class. *)
(* Then the groups of GroupArraySort are one for each class.                   *)
ASSUME SessionAssumption ==
  /\ Refs \in [Items -> SUBSET Items]
  /\ \A i, j \in Items : Class[i] = Class[j] => Refs[i] = Refs[j]
  /\ \A i \in Items : \A j \in Refs[i] : Refs[j] = {}
  /\ Deleted \in Values /\ NoRow \notin Values
  /\ SoftDeleted \subseteq Classes
  /\ Hooks \subseteq Events
  /\ SoftDeleted # {} => "deletePre" \in Hooks
  /\ EditInFlight \in BOOLEAN
  /\ MaxCommits \in Nat /\ MaxEdits \in Nat /\ MaxFailures \in Nat

VARIABLES
  obj,          \* obj[i]: the entity in memory
  db,           \* db[i]: its row
  known,        \* InstanceState.knownInDatabase
  snap,         \* InstanceState.snapshot
  identityMap,  \* the entities in IdentityMap.registry
  round,        \* every DatabaseSessionRound made, by number
  rounds,       \* DatabaseSession.rounds, numbers of rounds
  commitDepth,
  persistence,  \* currentPersistence, by number; 0 is undefined
  released,     \* the persistences that were released
  check,        \* getGlobalStore().unpopulatedCheck is None
  task,         \* task[c]: where the call c of commit() is
  running,      \* the calls of commit() that hold the thread, one or none
  commits, edits, failures,
  owed,         \* observed: what the running commits have to write, and did not change since
  doomed,       \* observed: what they have to delete, and nobody added again
  skipped,      \* observed: of these, what was left out when an event was stopped
  meddled       \* observed: a listener of the application has stopped a commit, an insert or
                \* an update, or has thrown after an update

session == <<round, rounds, commitDepth, persistence, released>>
entities == <<known, snap, identityMap>>
bounds == <<commits, edits, failures>>
observed == <<owed, doomed, skipped, meddled>>
vars == <<obj, db, entities, session, check, task, running, bounds, observed>>

NoWrites == [i \in {} |-> NoRow]
Idle == [pc |-> "idle", at |-> 0, round |-> 0, persist |-> 0, todo |-> {}, class |-> "none",
         inserts |-> NoWrites, changes |-> NoWrites, check |-> FALSE]
NewRound == [add |-> {}, remove |-> {}, inCommit |-> FALSE, committed |-> FALSE]

(* A new session; queries have loaded some of the entities into it. *)
Init ==
  /\ \E v \in Values \ {Deleted} : obj = [i \in Items |-> v]
  /\ identityMap \in SUBSET Items
  /\ known = identityMap
  /\ db = [i \in Items |-> IF i \in known THEN obj[i] ELSE NoRow]
  /\ snap = db
  /\ round = <<>> /\ rounds = <<>>
  /\ commitDepth = 0 /\ persistence = 0 /\ released = {}
  /\ check = FALSE
  /\ task = [c \in Commits |-> Idle]
  /\ running = {}
  /\ commits = 0 /\ edits = 0 /\ failures = 0
  /\ owed = {} /\ doomed = {} /\ skipped = {} /\ meddled = FALSE

(* The application and every task that waits go on only when no commit runs. *)
Free == running = {}

------------------------------------------------------------------------------
(* The queues of a round *)

(* add(): an item that waits already, in either queue, is not looked at, *)
(* nor what it refers to.                                                 *)
AddTo(r, items) ==
  LET waiting == r.add \cup r.remove
      new == items \ waiting
  IN [r EXCEPT !.add = @ \cup new \cup ((UNION {Refs[i] : i \in new}) \ waiting)]

(* remove() *)
RemoveFrom(r, i) == [r EXCEPT !.remove = @ \cup {i}, !.add = @ \ {i}]

Last == rounds[Len(rounds)]

(* getCurrentRound(), and enterNewRound() when the current one is in commit. *)
NeedsRound == IF rounds = <<>> THEN TRUE ELSE round[Last].inCommit
CurrentRound == IF NeedsRound THEN NewRound ELSE round[Last]
PutCurrentRound(r) ==
  IF NeedsRound
  THEN round' = Append(round, r) /\ rounds' = Append(rounds, Len(round) + 1)
  ELSE round' = [round EXCEPT ![Last] = r] /\ UNCHANGED rounds

Edit ==
  /\ Free /\ edits < MaxEdits
  /\ edits' = edits + 1
  /\ UNCHANGED <<db, entities, commitDepth, persistence, released, check, task, running, commits, failures,
                 skipped, meddled>>

(* The values of i are taken, its snapshot is not. A listener of onInsertPre *)
(* may still change what is to be inserted.                                   *)
InFlight(i) ==
  \E c \in Commits :
    LET t == task[c] IN
    /\ t.pc \in {"insertPre", "insert", "insertPost", "updatePre", "update", "updatePost"}
    /\ i \in round[t.round].add /\ Class[i] = t.class
    /\ ~ (t.pc = "insertPre" /\ i \in DOMAIN t.inserts)

(* The application, or a listener, writes a field. *)
Change(i) ==
  /\ Edit
  /\ EditInFlight \/ ~ InFlight(i)
  /\ \E v \in Values \ {obj[i], Deleted} : obj' = [obj EXCEPT ![i] = v]
  /\ owed' = owed \ {i}
  /\ UNCHANGED <<round, rounds, doomed>>

(* DatabaseSession.add *)
Add(i) ==
  /\ Edit
  /\ LET r == AddTo(CurrentRound, {i}) IN PutCurrentRound(r) /\ doomed' = doomed \ r.add
  /\ UNCHANGED <<obj, owed>>

(* DatabaseSession.remove *)
Remove(i) ==
  /\ Edit
  /\ PutCurrentRound(RemoveFrom(CurrentRound, i))
  /\ owed' = owed \ {i}
  /\ UNCHANGED <<obj, doomed>>

(* DatabaseSession.reset; calls of commit() that still run do not notice. *)
Reset ==
  /\ Free /\ edits < MaxEdits
  /\ edits' = edits + 1
  /\ commitDepth' = 0 /\ rounds' = <<>>
  /\ released' = released \cup ({persistence} \ {0}) /\ persistence' = 0
  /\ meddled' = (meddled \/ \E c \in Commits : task[c].pc # "idle")
  /\ UNCHANGED <<obj, db, entities, round, check, task, running, commits, failures, owed, doomed, skipped>>

------------------------------------------------------------------------------
(* commit() *)

(* c holds the thread, takes it at the end of an await, or awaits at t. *)
At(c, pc) == task[c].pc = pc /\ running \subseteq {c}
Go(c, t) == task' = [task EXCEPT ![c] = t] /\ running' = {c}
Await(c, t) == task' = [task EXCEPT ![c] = t] /\ running' = {}

(* Everything in the identity map is added to the current round; a round *)
(* in commit refuses it, and commit() with it.                            *)
Commit(c) ==
  /\ Free /\ task[c].pc = "idle" /\ commits < MaxCommits
  /\ commits' = commits + 1
  /\ LET none == rounds = <<>>
         made == IF none THEN Append(round, NewRound) ELSE round
         list == IF none THEN <<Len(made)>> ELSE rounds
         current == list[Len(list)]
         refused == made[current].inCommit /\ identityMap # {}
         r == AddTo(made[current], identityMap)
         open == {IF list[k] = current THEN r ELSE made[list[k]] : k \in {k \in DOMAIN list :
                    ~ made[list[k]].inCommit /\ ~ made[list[k]].committed}}
         removes == UNION {q.remove : q \in open}
         adds == UNION {q.add : q \in open}
     IN /\ rounds' = list
        /\ persistence' = IF persistence = 0 THEN Cardinality(released) + 1 ELSE persistence
        /\ IF refused
           THEN round' = made /\ UNCHANGED <<task, running, commitDepth, owed, doomed>>
           ELSE /\ round' = [made EXCEPT ![current] = IF @.inCommit THEN @ ELSE r]
                /\ commitDepth' = commitDepth + 1
                /\ owed' = owed \cup ((identityMap \cup adds) \ removes)
                /\ doomed' = doomed \cup removes
                /\ IF "commitPre" \in Hooks
                   THEN Await(c, [Idle EXCEPT !.pc = "commitPre", !.at = 1])
                   ELSE Go(c, [Idle EXCEPT !.pc = "rounds", !.at = 1])
  /\ UNCHANGED <<obj, db, entities, released, check, edits, failures, skipped, meddled>>

CommitPre(c) ==
  /\ At(c, "commitPre")
  /\ Go(c, [task[c] EXCEPT !.pc = "rounds"])
  /\ UNCHANGED <<obj, db, entities, session, check, bounds, observed>>

(* commit() returns: the last of the running ones releases the persistence *)
(* and forgets the rounds.                                                  *)
Return(c) ==
  /\ commitDepth' = commitDepth - 1
  /\ IF commitDepth = 1
     THEN /\ released' = released \cup {persistence}
          /\ persistence' = 0 /\ rounds' = <<>>
          /\ owed' = {} /\ doomed' = {} /\ skipped' = {}
     ELSE UNCHANGED <<released, persistence, rounds, owed, doomed, skipped>>
  /\ UNCHANGED meddled
  /\ Await(c, Idle)
  /\ UNCHANGED <<round, obj, db, entities, check, bounds>>

(* The loop over the rounds, which may become more while it waits. *)
NextRound(c) ==
  /\ At(c, "rounds")
  /\ LET t == task[c] IN
     IF t.at > Len(rounds) THEN Return(c)
     ELSE LET n == rounds[t.at]
              next == [t EXCEPT !.at = @ + 1]
          IN /\ CASE round[n].committed \/ round[n].inCommit -> Go(c, next) /\ UNCHANGED round
                  [] ~ (round[n].committed \/ round[n].inCommit)
                     /\ round[n].add \cup round[n].remove = {} -> Await(c, next) /\ UNCHANGED round
                  [] OTHER ->
                     /\ round' = [round EXCEPT ![n].inCommit = TRUE]
                     /\ Go(c, [t EXCEPT !.pc = "deletes", !.round = n, !.persist = persistence,
                                        !.todo = {Class[i] : i \in round[n].remove}])
             /\ UNCHANGED <<rounds, commitDepth, persistence, released, obj, db, entities, check, bounds,
                            observed>>

(* Where a call of the persistence or a hook is awaited before `pc`. *)
Hooked(hook, pc) == IF hook \in Hooks THEN hook ELSE pc

OfClass(items, k) == {i \in items : Class[i] = k}
Removing(t) == OfClass(round[t.round].remove, t.class)

Adding(t) == OfClass(round[t.round].add, t.class)

(* doDelete(): the next class. The listener of the soft-delete plugin runs  *)
(* as soon as the event is emitted: it marks the entities as deleted and    *)
(* adds them to a new round, and with them what they refer to, be it        *)
(* removed by this commit.                                                  *)
NextDelete(c) ==
  /\ At(c, "deletes")
  /\ LET t == task[c] IN
     IF t.todo = {}
     THEN /\ Await(c, [t EXCEPT !.pc = "persist", !.class = "none"])
          /\ UNCHANGED <<obj, round, rounds, owed, doomed>>
     ELSE \E k \in t.todo :
          LET items == OfClass(round[t.round].remove, k) IN
          /\ Await(c, [t EXCEPT !.pc = Hooked("deletePre", "delete"), !.class = k, !.todo = @ \ {k}])
          /\ IF k \in SoftDeleted
             THEN /\ obj' = [i \in Items |-> IF i \in items THEN Deleted ELSE obj[i]]
                  /\ LET r == AddTo(CurrentRound, items) IN PutCurrentRound(r) /\ doomed' = doomed \ r.add
                  /\ owed' = owed \ items
             ELSE UNCHANGED <<obj, round, rounds, owed, doomed>>
  /\ UNCHANGED <<db, entities, commitDepth, persistence, released, check, bounds, skipped, meddled>>

(* The hook returns. A stopped event ends doDelete(). *)
DeletePre(c) ==
  /\ At(c, "deletePre")
  /\ LET t == task[c] IN
     IF t.class \in SoftDeleted
     THEN /\ Await(c, [t EXCEPT !.pc = "persist", !.todo = {}, !.class = "none"])
          /\ skipped' = skipped \cup {i \in round[t.round].remove : Class[i] \in t.todo}
     ELSE Await(c, [t EXCEPT !.pc = "delete"]) /\ UNCHANGED skipped
  /\ UNCHANGED <<obj, db, entities, session, check, bounds, owed, doomed, meddled>>

(* DatabasePersistence.remove returns; IdentityMap.deleteMany. *)
DeleteDone(c) ==
  /\ At(c, "delete") /\ task[c].persist # 0
  /\ LET t == task[c]
         items == Removing(t)
     IN /\ db' = [i \in Items |-> IF i \in items THEN NoRow ELSE db[i]]
        /\ known' = known \ (items \cap identityMap)
        /\ identityMap' = identityMap \ items
        /\ IF "deletePost" \in Hooks THEN Await(c, [t EXCEPT !.pc = "deletePost"])
           ELSE Go(c, [t EXCEPT !.pc = "deletes"])
  /\ UNCHANGED <<obj, snap, session, check, bounds, observed>>

DeletePost(c) ==
  /\ At(c, "deletePost")
  /\ Go(c, [task[c] EXCEPT !.pc = "deletes"])
  /\ UNCHANGED <<obj, db, entities, session, check, bounds, observed>>

(* doPersist() begins: it sets the global unpopulatedCheck. *)
BeginPersist(c) ==
  /\ At(c, "persist")
  /\ LET t == task[c] IN
     Go(c, [t EXCEPT !.pc = "groups", !.check = check, !.todo = {Class[i] : i \in round[t.round].add}])
  /\ check' = TRUE
  /\ UNCHANGED <<obj, db, entities, session, bounds, observed>>

(* What GroupArraySort puts first: a group that refers to no other one. *)
First(t) ==
  {k \in t.todo : \A i \in OfClass(round[t.round].add, k) :
                    \A j \in Refs[i] \cap round[t.round].add : Class[j] \notin t.todo}

Writes(items) == [i \in items |-> obj[i]]

(* Mutant: updates only where nothing was inserted. *)
NoUpdatesAfterInserts(t) ==
  IF t.changes = NoWrites \/ t.inserts # NoWrites THEN [t EXCEPT !.pc = "store"]
  ELSE [t EXCEPT !.pc = Hooked("updatePre", "update")]

(* What follows the inserts of a group. *)
AfterInserts(t) ==
  IF t.changes = NoWrites THEN [t EXCEPT !.pc = "store"]
  ELSE [t EXCEPT !.pc = Hooked("updatePre", "update")]

Continue(c, t) == IF t.pc = "store" THEN Go(c, t) ELSE Await(c, t)

(* The next group: what is new is to be inserted, what differs from its  *)
(* snapshot to be updated. After the last group the round is committed.   *)
NextGroup(c) ==
  /\ At(c, "groups")
  /\ LET t == task[c] IN
     IF t.todo = {}
     THEN /\ round' = [round EXCEPT ![t.round].committed = TRUE, ![t.round].inCommit = FALSE]
          /\ check' = t.check
          /\ Await(c, [Idle EXCEPT !.pc = "rounds", !.at = t.at + 1])
     ELSE /\ \E k \in First(t) :
               LET items == OfClass(round[t.round].add, k)
                   new == items \ known
                   g == [t EXCEPT !.class = k, !.todo = @ \ {k},
                                  !.changes = Writes({i \in items \cap known : obj[i] # snap[i]})]
               IN IF new = {} THEN Continue(c, AfterInserts(g))
                  ELSE Await(c, [g EXCEPT !.pc = Hooked("insertPre", "insert"), !.inserts = Writes(new)])
          /\ UNCHANGED <<round, check>>
  /\ UNCHANGED <<obj, db, entities, rounds, commitDepth, persistence, released, bounds, observed>>

(* The entities are converted when insert() is called, so after the hook. *)
InsertPre(c) ==
  /\ At(c, "insertPre")
  /\ Await(c, [task[c] EXCEPT !.pc = "insert", !.inserts = Writes(DOMAIN @)])
  /\ UNCHANGED <<obj, db, entities, session, check, bounds, observed>>

(* DatabasePersistence.insert returns; the primary keys are unique. *)
InsertDone(c) ==
  /\ At(c, "insert") /\ task[c].persist # 0
  /\ LET t == task[c] IN
     /\ \A i \in DOMAIN t.inserts : db[i] = NoRow
     /\ db' = [i \in Items |-> IF i \in DOMAIN t.inserts THEN t.inserts[i] ELSE db[i]]
     /\ IF "insertPost" \in Hooks THEN Await(c, [t EXCEPT !.pc = "insertPost"])
        ELSE Continue(c, AfterInserts(t))
  /\ UNCHANGED <<obj, entities, session, check, bounds, observed>>

InsertPost(c) ==
  /\ At(c, "insertPost")
  /\ Continue(c, AfterInserts(task[c]))
  /\ UNCHANGED <<obj, db, entities, session, check, bounds, observed>>

UpdatePre(c) ==
  /\ At(c, "updatePre")
  /\ Await(c, [task[c] EXCEPT !.pc = "update"])
  /\ UNCHANGED <<obj, db, entities, session, check, bounds, observed>>

(* DatabasePersistence.update returns; an UPDATE of no row is no error. *)
UpdateDone(c) ==
  /\ At(c, "update") /\ task[c].persist # 0
  /\ LET t == task[c] IN
     /\ db' = [i \in Items |-> IF i \in DOMAIN t.changes /\ db[i] # NoRow THEN t.changes[i] ELSE db[i]]
     /\ IF "updatePost" \in Hooks THEN Await(c, [t EXCEPT !.pc = "updatePost"])
        ELSE Go(c, [t EXCEPT !.pc = "store"])
  /\ UNCHANGED <<obj, entities, session, check, bounds, observed>>

UpdatePost(c) ==
  /\ At(c, "updatePost")
  /\ Go(c, [task[c] EXCEPT !.pc = "store"])
  /\ UNCHANGED <<obj, db, entities, session, check, bounds, observed>>

(* IdentityMap.storeMany, InstanceState.markAsPersisted: the snapshot is *)
(* taken of what the entity holds now.                                    *)
StoreMany(c) ==
  /\ At(c, "store")
  /\ LET t == task[c]
         items == Adding(t)
     IN /\ identityMap' = identityMap \cup items
        /\ known' = known \cup items
        /\ snap' = [i \in Items |-> IF i \in items THEN obj[i] ELSE snap[i]]
        /\ Go(c, [t EXCEPT !.pc = "groups", !.inserts = NoWrites, !.changes = NoWrites])
  /\ UNCHANGED <<obj, db, session, check, bounds, observed>>

(* Mutant: no finally. *)
CheckKept(t) == check

(* The finally block of doPersist(). *)
CheckAfter(t) == IF t.pc \in {"deletePre", "delete", "deletePost"} THEN check ELSE t.check

(* An error of the database, of a hook, or of the validation of an entity; *)
(* the round leaves its commit.                                             *)
Throw(c) ==
  LET t == task[c] IN
  /\ running \subseteq {c}
  /\ t.pc \in {"deletePre", "delete", "deletePost", "groups", "insertPre", "insert", "insertPost",
               "updatePre", "update", "updatePost"}
  /\ t.pc = "groups" => t.todo # {}
  /\ round' = [round EXCEPT ![t.round].inCommit = FALSE]
  /\ check' = CheckAfter(t)
  /\ Await(c, [Idle EXCEPT !.pc = "thrown"])
  /\ UNCHANGED <<obj, db, entities, rounds, commitDepth, persistence, released, commits, edits, owed, doomed,
                 skipped>>

Refused(c) ==
  LET t == task[c] IN
  \/ t.pc \in {"delete", "insert", "update"} /\ t.persist = 0
  \/ t.pc = "insert" /\ \E i \in DOMAIN t.inserts : db[i] # NoRow

(* What cannot succeed fails; everything else may, at most MaxFailures times. *)
Fail(c) ==
  /\ Throw(c)
  /\ \/ Refused(c) /\ UNCHANGED failures
     \/ ~ Refused(c) /\ failures < MaxFailures /\ failures' = failures + 1
  /\ meddled' = (meddled \/ task[c].pc = "updatePost")

(* A listener of the application stops the event: the commit returns at    *)
(* once, the insert or the update is left out.                              *)
Stop(c) ==
  LET t == task[c] IN
  /\ running = {} /\ failures < MaxFailures
  /\ \/ t.pc = "commitPre" /\ Await(c, Idle)
     \/ t.pc = "insertPre" /\ Continue(c, AfterInserts(t))
     \/ t.pc = "updatePre" /\ Go(c, [t EXCEPT !.pc = "store"])
  /\ failures' = failures + 1
  /\ meddled' = TRUE
  /\ UNCHANGED <<obj, db, entities, session, check, commits, edits, owed, doomed, skipped>>

(* The catch block of commit(). *)
Caught(c) ==
  /\ At(c, "thrown")
  /\ rounds' = <<>> /\ commitDepth' = 0
  /\ released' = released \cup ({persistence} \ {0})
  /\ persistence' = 0
  /\ owed' = {} /\ doomed' = {} /\ skipped' = {}
  /\ Await(c, Idle)
  /\ UNCHANGED <<round, obj, db, entities, check, bounds, meddled>>

Next ==
  \/ \E i \in Items : Change(i) \/ Add(i) \/ Remove(i)
  \/ Reset
  \/ \E c \in Commits :
       \/ Commit(c) \/ CommitPre(c) \/ NextRound(c)
       \/ NextDelete(c) \/ DeletePre(c) \/ DeleteDone(c) \/ DeletePost(c)
       \/ BeginPersist(c) \/ NextGroup(c)
       \/ InsertPre(c) \/ InsertDone(c) \/ InsertPost(c)
       \/ UpdatePre(c) \/ UpdateDone(c) \/ UpdatePost(c)
       \/ StoreMany(c) \/ Stop(c) \/ Fail(c) \/ Caught(c)

Spec == Init /\ [][Next]_vars

------------------------------------------------------------------------------
Quiet == \A c \in Commits : task[c].pc = "idle"

Row == Values \cup {NoRow}
RoundState == [add : SUBSET Items, remove : SUBSET Items, inCommit : BOOLEAN, committed : BOOLEAN]
PartialRows == UNION {[I -> Values] : I \in SUBSET Items}

(* What the variables hold; an item waits in one queue of a round. *)
TypeOK ==
  /\ obj \in [Items -> Values] /\ db \in [Items -> Row] /\ snap \in [Items -> Row]
  /\ identityMap \subseteq Items /\ known \subseteq Items
  /\ \A n \in DOMAIN round : round[n] \in RoundState /\ round[n].add \cap round[n].remove = {}
  /\ \A k \in DOMAIN rounds : rounds[k] \in DOMAIN round
  /\ commitDepth \in Int /\ persistence \in Nat /\ check \in BOOLEAN
  /\ released \subseteq Nat /\ persistence \notin released
  /\ \A c \in Commits : /\ task[c].inserts \in PartialRows /\ task[c].changes \in PartialRows
                        /\ task[c].todo \subseteq Classes
                        /\ task[c].round \in 0 .. Len(round)
  /\ running \subseteq Commits /\ Cardinality(running) <= 1

(* After a commit, however it ended, the session is as before: the         *)
(* persistence is released, the depth is 0, no round is left in commit     *)
(* and the global unpopulatedCheck is restored. A session that is not      *)
(* would skip its rounds or keep its connection in every later commit.     *)
QuietIsClean ==
  Quiet /\ ~ meddled =>
    /\ commitDepth = 0 /\ persistence = 0 /\ ~ check
    /\ \A n \in DOMAIN round : ~ round[n].inCommit

(* identity-map.ts says of the snapshot "the last known values known to be *)
(* in the database": between commits it is the row of every known entity,  *)
(* also after a commit that failed halfway. Change detection relies on it. *)
SnapshotIsStored == Quiet /\ ~ meddled => \A i \in known : snap[i] = db[i]

Finished == \E c \in Commits : task[c].pc = "rounds" /\ task'[c].pc = "idle" /\ commitDepth = 1

(* When commit() returns, the row of everything it found in the identity  *)
(* map or in the queue is what the entity holds, unless the application    *)
(* wrote the entity meanwhile.                                             *)
CommitWrites == [][Finished /\ ~ meddled => \A i \in owed : db[i] = obj[i]]_vars

(* And what it found in the remove queue has no row, except what somebody  *)
(* added again - the application, or the soft-delete plugin with an entity *)
(* that refers to it - and what a stopped event left out: doDelete returns *)
(* there, without the later classes of the queue (database-session.ts:138). *)
CommitRemoves == [][Finished /\ ~ meddled => \A i \in doomed \ skipped : db[i] = NoRow]_vars

(* An entity is inserted after what it refers to, in whatever order and    *)
(* rounds they were added, unless somebody removed that.                   *)
InsertsFollowReferences ==
  [][\A i \in Items : db[i] = NoRow /\ db'[i] # NoRow /\ ~ meddled =>
       \A j \in Refs[i] : db[j] # NoRow \/ \E n \in DOMAIN round : j \in round[n].remove]_vars

(* All that holds at any moment: between commits the session is as before  *)
(* and its snapshots are the rows.                                         *)
SessionSafety ==
  /\ TypeOK
  /\ QuietIsClean
  /\ SnapshotIsStored

(* All that a commit has to do: write, remove, and insert in the order of  *)
(* the references.                                                         *)
CommitsAreComplete ==
  /\ CommitWrites
  /\ CommitRemoves
  /\ InsertsFollowReferences
=============================================================================
