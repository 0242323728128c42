---------------------------- MODULE EntityUpdates ----------------------------
(***************************************************************************)
(* What a commit writes to rows that exist: snapshots, the change detector *)
(* and change sets of @deepkit/type, the identity map and references of    *)
(* @deepkit/orm, and the updates of its adapters.  One session edits its   *)
(* items, patches by query and commits, while other sessions patch the     *)
(* same rows.                                                              *)
(*                                                                         *)
(* An entity has a number n, which can be increased atomically, and a      *)
(* plain field t.                                                          *)
(***************************************************************************)
EXTENDS Naturals, Sequences, FiniteSets, FiniteSetsExt, SequencesExt

CONSTANTS
  Key,          \* primary keys
  Text,         \* values of t
  Null, Unset, Unknown,
  Adapter,      \* the adapters looked at
  BatchSize,    \* getUpdateBatchSize()
  MaxN,         \* bound: n
  MaxSteps,     \* bound: edits, patches and commits
  MaxFailures   \* bound: updates the database refuses

Field == {"n", "t"}

Value == Nat \union Text \union {Null, Unset}

(* The marks are no values of fields, and no items or change sets.         *)
ASSUME UpdatesAssumption ==
  /\ IsFiniteSet(Key) /\ Text # {}
  /\ Adapter \subseteq {"sqlite", "mysql", "postgres", "mongo", "memory"}
  /\ BatchSize \in Nat \ {0} /\ MaxN \in Nat \ {0}
  /\ Null # Unset /\ {Null, Unset} \intersect (Nat \union Text) = {}
  /\ Unknown \notin [Field -> Value] /\ [inc |-> 1, set |-> <<>>] # Null

VARIABLES
  adapter,
  row,         \* row[i]: the fields in the database
  item,        \* item[i]: Unknown, or the fields of the entity in the identity map (Unset: not hydrated)
  hydrated,    \* markAsHydrated() was called for i
  snapshot,    \* InstanceState.snapshot
  changeSet,   \* changeSet[i]: item[changeSetSymbol], or Null: [inc, set]; inc is Null without an entry for n
  outcome,     \* of the last commit: none, written, refused, thrown (after the rows were written)
  \* what the user of the session did since the item was last persisted
  edited,      \* edited[i]: fields assigned
  increments,  \* increments[i]: sum of increase()
  refreshed,   \* refreshed[i]: fields the ORM assigned from the database after the snapshot
  spoiled,     \* spoiled[i]: an increase() was forgotten, or a failed commit left changes in the change set
  steps, failures

itemVars == <<item, hydrated, snapshot, changeSet>>
ghostVars == <<edited, increments, refreshed, spoiled>>
entityVars == <<adapter, row, itemVars, outcome, ghostVars, steps, failures>>

NoChanges == [inc |-> Null, set |-> <<>>]

UpdatesInit ==
  /\ adapter \in Adapter
  /\ row = [i \in Key |-> [n |-> 0, t |-> CHOOSE v \in Text : TRUE]]
  /\ item = [i \in Key |-> Unknown] /\ hydrated = [i \in Key |-> FALSE]
  /\ snapshot = [i \in Key |-> Unknown] /\ changeSet = [i \in Key |-> Null]
  /\ outcome = "none"
  /\ edited = [i \in Key |-> {}] /\ increments = [i \in Key |-> 0]
  /\ refreshed = [i \in Key |-> {}] /\ spoiled = [i \in Key |-> FALSE]
  /\ steps = 0 /\ failures = 0

Known(i) == item[i] # Unknown
Loaded(i) == Known(i) /\ \A f \in Field : item[i][f] # Unset
Counts == steps < MaxSteps /\ steps' = steps + 1

------------------------------------------------------------------------------
(* Snapshots: what is not hydrated reads as null. *)
Snapshot(fields) == [f \in Field |-> IF fields[f] = Unset THEN Null ELSE fields[f]]

(* Mutant: every field of the item is written. *)
DetectedAll(i) ==
  LET base == IF changeSet[i] = Null THEN NoChanges ELSE changeSet[i]
  IN [base EXCEPT !.set = item[i]]

(* The change detector: a field with an entry in $inc is skipped; the      *)
(* changes are merged into the change set of the item, if it has one.      *)
Detected(i) ==
  LET base == IF changeSet[i] = Null THEN NoChanges ELSE changeSet[i]
      changed == {f \in Field : ~ (f = "n" /\ base.inc # Null) /\ snapshot[i][f] # Snapshot(item[i])[f]}
  IN [base EXCEPT !.set = [f \in changed \cup DOMAIN @ |-> IF f \in changed THEN item[i][f] ELSE @[f]]]

IsEmpty(changes) == changes.inc = Null /\ DOMAIN changes.set = {}

------------------------------------------------------------------------------
(* Query.find: an unknown row becomes an item. *)
Load(i) ==
  /\ item[i] = Unknown /\ Counts
  /\ item' = [item EXCEPT ![i] = row[i]]
  /\ snapshot' = [snapshot EXCEPT ![i] = row[i]]
  /\ UNCHANGED <<adapter, row, hydrated, changeSet, outcome, ghostVars, failures>>

(* Another item refers to i: a reference class with the primary key only.  *)
Refer(i) ==
  /\ item[i] = Unknown /\ Counts
  /\ item' = [item EXCEPT ![i] = [f \in Field |-> Unset]]
  /\ snapshot' = [snapshot EXCEPT ![i] = [f \in Field |-> Null]]
  /\ UNCHANGED <<adapter, row, hydrated, changeSet, outcome, ghostVars, failures>>

(* A query fetches the row of a known reference: "propName in item" is     *)
(* true of the accessors of the reference class, no field is assigned.     *)
FindReference(i) ==
  /\ Known(i) /\ ~ Loaded(i) /\ ~ hydrated[i] /\ Counts
  /\ hydrated' = [hydrated EXCEPT ![i] = TRUE]
  /\ UNCHANGED <<adapter, row, item, snapshot, changeSet, outcome, ghostVars, failures>>

Edit(i) ==
  /\ Known(i) /\ Counts
  /\ \E f \in Field : \E v \in (IF f = "n" THEN {MaxN} ELSE Text) :
       /\ v # item[i][f]
       /\ item' = [item EXCEPT ![i][f] = v]
       /\ edited' = [edited EXCEPT ![i] = @ \cup {f}]
  /\ UNCHANGED <<adapter, row, hydrated, snapshot, changeSet, outcome, increments, refreshed, spoiled, failures>>

(* atomicChange(item).increase('n'): a new change set replaces the item's, *)
(* with what it held.                                                      *)
Increase(i) ==
  /\ Loaded(i) /\ item[i].n # Null /\ item[i].n < MaxN /\ Counts
  /\ item' = [item EXCEPT ![i].n = @ + 1]
  /\ changeSet' = [changeSet EXCEPT ![i] = [inc |-> 1, set |-> <<>>]]
  /\ increments' = [increments EXCEPT ![i] = @ + 1]
  /\ spoiled' = [spoiled EXCEPT ![i] = @ \/ increments[i] > 0]
  /\ UNCHANGED <<adapter, row, hydrated, snapshot, outcome, edited, refreshed, failures>>

------------------------------------------------------------------------------
(* The queries of the adapters that patch rows by filter. *)
Change == {[NoChanges EXCEPT !.inc = 1]} \cup {[NoChanges EXCEPT !.set = [f \in {"t"} |-> v]] : v \in Text}

Patched(i, changes) ==
  [f \in Field |-> IF f = "n" /\ changes.inc # Null THEN row[i].n + changes.inc
                   ELSE IF f \in DOMAIN changes.set THEN changes.set[f] ELSE row[i][f]]

OtherPatch(i) ==
  /\ row[i].n # Null /\ Counts
  /\ \E changes \in Change :
       /\ Patched(i, changes).n <= MaxN
       /\ row' = [row EXCEPT ![i] = Patched(i, changes)]
  /\ UNCHANGED <<adapter, itemVars, outcome, ghostVars, failures>>

(* The session's own query. Only with listeners on its events are the      *)
(* known items brought up to date, and never their snapshots; the memory   *)
(* adapter does not return what it increased.                              *)
Patch(i) ==
  /\ row[i].n # Null /\ Counts
  /\ \E changes \in Change, events \in BOOLEAN :
       LET new == Patched(i, changes)
           assigned == IF ~ events \/ ~ Known(i) THEN {}
                       ELSE DOMAIN changes.set \cup (IF changes.inc # Null /\ adapter # "memory" THEN {"n"} ELSE {})
       IN /\ new.n <= MaxN
          /\ row' = [row EXCEPT ![i] = new]
          /\ item' = IF assigned = {} THEN item
                     ELSE [item EXCEPT ![i] = [f \in Field |-> IF f \in assigned THEN new[f] ELSE @[f]]]
          /\ refreshed' = [refreshed EXCEPT ![i] = @ \cup assigned]
  /\ UNCHANGED <<adapter, hydrated, snapshot, changeSet, outcome, edited, increments, spoiled, failures>>

------------------------------------------------------------------------------
Touches(changes) == DOMAIN changes.set \cup (IF changes.inc # Null THEN {"n"} ELSE {})

(* batchUpdate of the SQL adapters: every field has a list of its values   *)
(* in the order of the change sets. A list shorter than that of the keys   *)
(* leaves a hole in VALUES, which no database accepts; full lists are      *)
(* aligned.  Values are those of $set, increments are added to the row.    *)
IsAligned(batch, all) ==
  \A f \in UNION {Touches(all[i]) : i \in batch} : \A i \in batch : f \in Touches(all[i])

Updated(i, changes) ==
  IF adapter = "memory" THEN Snapshot(item[i])
  ELSE [f \in Field |-> IF f = "n" /\ changes.inc # Null THEN row[i].n + changes.inc
                        ELSE IF f \in DOMAIN changes.set THEN changes.set[f] ELSE row[i][f]]

(* What the adapters do with a batch: accept it, and read back what was    *)
(* increased. SQLite and MongoDB expect every row of the batch to have     *)
(* increments then, MySQL and Postgres fill the holes with null.           *)
Increased(batch, all) == {i \in batch : all[i].inc # Null}
SqliteUpdates(batch, all) ==
  [accepted |-> IsAligned(batch, all), readsBack |-> Increased(batch, all) \in {{}, batch}]
MySQLUpdates(batch, all) == [accepted |-> IsAligned(batch, all), readsBack |-> TRUE]
PostgresUpdates(batch, all) == [accepted |-> IsAligned(batch, all), readsBack |-> TRUE]
MongoUpdates(batch, all) == [accepted |-> TRUE, readsBack |-> Increased(batch, all) \in {{}, batch}]
MemoryUpdates(batch, all) == [accepted |-> TRUE, readsBack |-> TRUE]

Updates(batch, all) ==
  CASE adapter = "sqlite" -> SqliteUpdates(batch, all)
    [] adapter = "mysql" -> MySQLUpdates(batch, all)
    [] adapter = "postgres" -> PostgresUpdates(batch, all)
    [] adapter = "mongo" -> MongoUpdates(batch, all)
    [] adapter = "memory" -> MemoryUpdates(batch, all)

Batches(s) ==
  LET size == IF adapter = "mongo" \/ adapter = "memory" THEN Len(s) ELSE BatchSize
      count == (Len(s) + size - 1) \div size
  IN [b \in 1 .. count |-> {s[k] : k \in {k \in 1 .. Len(s) : (k - 1) \div size = b - 1}}]

(* Mutant: only new items get a snapshot. *)
PersistedOnce(i, fields) == IF snapshot[i] = Unknown THEN Snapshot(fields) ELSE snapshot[i]

(* markAsPersisted() *)
Persisted(i, fields) == Snapshot(fields)

(* The change sets of everything in the identity map. *)
AllChanges == [i \in Key |-> IF Known(i) THEN Detected(i) ELSE NoChanges]

(* The batches up to one that is refused, by the database (bad) or for     *)
(* what it holds, or whose increments cannot be read back. When there was  *)
(* none, new snapshots and cleared change sets.                            *)
WriteBatches(all, batches, bad) ==
  LET ends == {b \in 1 .. Len(batches) : b = bad \/ ~ (Updates(batches[b], all).accepted /\ Updates(batches[b], all).readsBack)}
      last == IF ends = {} THEN Len(batches) ELSE Min(ends)
      wrote == {b \in 1 .. last : b # bad /\ Updates(batches[b], all).accepted}
      keys == UNION {batches[b] : b \in wrote}
      read == UNION {batches[b] : b \in {b \in wrote : Updates(batches[b], all).readsBack}}
      returned == {i \in read : all[i].inc # Null}
  IN /\ row' = [i \in Key |-> IF i \in keys THEN Updated(i, all[i]) ELSE row[i]]
     /\ item' = [i \in Key |-> IF i \in returned THEN [item[i] EXCEPT !.n = Updated(i, all[i]).n] ELSE item[i]]
     /\ IF ends = {}
          THEN /\ outcome' = "written"
               /\ snapshot' = [i \in Key |-> IF Known(i) THEN Persisted(i, item'[i]) ELSE snapshot[i]]
               /\ changeSet' = [i \in Key |-> IF changeSet[i] = Null THEN Null ELSE NoChanges]
               /\ edited' = [i \in Key |-> {}] /\ increments' = [i \in Key |-> 0]
               /\ refreshed' = [i \in Key |-> {}] /\ spoiled' = [i \in Key |-> FALSE]
          ELSE /\ outcome' = IF last \in wrote THEN "thrown" ELSE "refused"
               /\ changeSet' = [i \in Key |-> IF changeSet[i] = Null THEN Null ELSE all[i]]
               /\ spoiled' = [i \in Key |-> spoiled[i] \/ changeSet[i] # Null]
               /\ UNCHANGED <<snapshot, edited, increments, refreshed>>

(* commit(): the change sets in the order of the map, in batches. *)
Commit ==
  /\ Counts
  /\ LET all == AllChanges
     IN \E s \in SetToSeqs({i \in Key : ~ IsEmpty(all[i])}) :
          /\ s # <<>>
          /\ \E bad \in (IF failures < MaxFailures THEN 0 .. Len(Batches(s)) ELSE {0}) :
               /\ WriteBatches(all, Batches(s), bad)
               /\ failures' = IF bad # 0 THEN failures + 1 ELSE failures
  /\ UNCHANGED <<adapter, hydrated>>

UpdatesNext ==
  \/ \E i \in Key : Load(i) \/ Refer(i) \/ FindReference(i) \/ Edit(i) \/ Increase(i) \/ OtherPatch(i) \/ Patch(i)
  \/ Commit

UpdatesSpec == UpdatesInit /\ [][UpdatesNext]_entityVars

------------------------------------------------------------------------------
UpdatesTypeOK ==
  /\ \A i \in Key : Known(i) => item[i].n \in 0 .. 2 * MaxN \cup {Unset, Null} /\ item[i].t \in Text \cup {Unset, Null}
  /\ \A i \in Key : row[i].n \in 0 .. 2 * MaxN \cup {Null} /\ row[i].t \in Text \cup {Null}
  /\ outcome \in {"none", "written", "refused", "thrown"}

(* A commit that succeeds merges the edits of its session into the rows as *)
(* they are by then: fields edited get the value of the item, increments   *)
(* are added to what others wrote, and every other field keeps what others *)
(* wrote.  Not the memory adapter, which writes whole items (nulls for a   *)
(* reference nobody loaded), and not for                                   *)
(* items whose fields a patch brought up to date, whose increments         *)
(* overwrote each other or mixed with an assignment, or whose change set   *)
(* outlived a failed commit.                                               *)
Merged(i) ==
  /\ \A f \in Field \ refreshed[i] :
       (f \notin edited[i] /\ (f = "n" => increments[i] = 0)) => row'[i][f] = row[i][f]
  /\ \A f \in edited[i] : (item[i][f] # snapshot[i][f] /\ (f = "n" => increments[i] = 0)) => row'[i][f] = item[i][f]
  /\ ("n" \notin edited[i] \cup refreshed[i] /\ increments[i] > 0) =>
       row'[i].n = row[i].n + increments[i] /\ item'[i].n = row'[i].n

CommitsMerge ==
  [][(Commit /\ outcome' = "written" /\ adapter # "memory") =>
       \A i \in Key : spoiled[i] \/ Merged(i)]_entityVars

(* After a commit the items without pending edits are what the session     *)
(* believes of the database: their snapshots are their values.             *)
SnapshotsFollow ==
  \A i \in Key : (Loaded(i) /\ edited[i] = {} /\ increments[i] = 0 /\ refreshed[i] = {}) =>
    snapshot[i] = item[i]
=============================================================================
