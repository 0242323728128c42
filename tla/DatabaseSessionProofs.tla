------------------------ MODULE DatabaseSessionProofs ------------------------
(***************************************************************************)
(* The safety of a session: what its variables hold, for every number of   *)
(* overlapping calls of commit(); and for a session with one caller that   *)
(* between commits it is as before and its snapshots are the rows, and     *)
(* that a commit does all it has to.                                       *)
(***************************************************************************)
EXTENDS DatabaseSession, FiniteSetTheorems, SequenceTheorems, TLAPS

(* Where a call of commit() can be: deleting, writing a group, persisting. *)
Deleting == {"deletes", "deletePre", "delete", "deletePost"}
Writing == {"insertPre", "insert", "insertPost", "updatePre", "update", "updatePost", "store"}
Persisting == {"groups"} \cup Writing
Working == Deleting \cup {"persist"} \cup Persisting

TaskState ==
  [pc : Working \cup {"idle", "commitPre", "rounds", "thrown"}, at : Nat, round : Nat, persist : Nat,
   todo : SUBSET Classes, class : Classes \cup {"none"}, inserts : PartialRows, changes : PartialRows,
   check : BOOLEAN]

(* The parts of the type invariant, each with what keeps it.               *)
RowsTyped ==
  /\ obj \in [Items -> Values] /\ db \in [Items -> Row] /\ snap \in [Items -> Row]
  /\ identityMap \subseteq Items /\ known = identityMap

Round == {r \in RoundState : r.add \cap r.remove = {}}
RoundsTyped == round \in Seq(Round) /\ rounds \in Seq(1 .. Len(round))

(* Persistences are numbered as they are made, and released in that order. *)
BooksTyped ==
  /\ commitDepth \in Int /\ check \in BOOLEAN
  /\ \E m \in Nat : released = 1 .. m /\ persistence \in {0, m + 1}
  /\ commitDepth >= 1 => persistence # 0

(* A call that works on a round has one; from the last answer of the       *)
(* database to the snapshots it keeps the thread.                          *)
TasksTyped ==
  /\ task \in [Commits -> TaskState]
  /\ running = {} \/ \E c \in Commits : running = {c}
  /\ \A c \in Commits : /\ task[c].round <= Len(round)
                        /\ task[c].pc \in Working => task[c].round # 0
                        /\ task[c].pc \in {"idle", "thrown"} \/ task[c].at # 0
                        /\ task[c].pc = "store" => running = {c}

SessionInv == RowsTyped /\ RoundsTyped /\ BooksTyped /\ TasksTyped

(* While a single call runs, its round and no other is in commit, and the  *)
(* global flag is set as long as it persists.                              *)
TidyAt(t) ==
  /\ commitDepth = IF t.pc = "idle" THEN 0 ELSE 1
  /\ t.pc = "idle" => persistence = 0
  /\ \A n \in 1 .. Len(round) : round[n].inCommit <=> t.pc \in Working /\ n = t.round
  /\ check <=> t.pc \in Persisting
  /\ t.pc \in Persisting => ~ t.check
Tidy == ~ meddled => \A c \in Commits : TidyAt(task[c])

(* What a call has taken of a group is what its entities hold; what the    *)
(* database has taken of it is in the rows.                                *)
Taken(t) ==
  /\ DOMAIN t.inserts = Adding(t) \ known /\ DOMAIN t.changes \subseteq Adding(t) \cap known
  /\ \A i \in Adding(t) \cap known : obj[i] = IF i \in DOMAIN t.changes THEN t.changes[i] ELSE snap[i]
  /\ t.pc # "insertPre" => \A i \in DOMAIN t.inserts : t.inserts[i] = obj[i]
Written(t) ==
  /\ t.pc \notin {"insertPre", "insert"} => \A i \in DOMAIN t.inserts : db[i] = t.inserts[i]
  /\ t.pc \in {"updatePost", "store"} => \A i \in DOMAIN t.changes : db[i] = t.changes[i]

(* Snapshots are the rows, but for updates that are written and not yet    *)
(* stored.                                                                 *)
StoredAt(t) ==
  /\ \A i \in known : /\ snap[i] # NoRow
                      /\ snap[i] # db[i] => t.pc \in {"updatePost", "store"} /\ i \in DOMAIN t.changes
  /\ IF t.pc \in Writing THEN Taken(t) /\ Written(t) ELSE t.inserts = NoWrites
Stored == ~ meddled => \A c \in Commits : StoredAt(task[c])

OneCaller == \E c \in Commits : Commits = {c}
-----------------------------------------------------------------------------
(* The queues of a round.                                                  *)
LEMMA AddToRound ==
  ASSUME NEW r \in Round, NEW items \in SUBSET Items
  PROVE  AddTo(r, items) \in Round /\ AddTo(r, items).inCommit = r.inCommit
<1> DEFINE waiting == r.add \cup r.remove
           new == items \ waiting
           refs == UNION {Refs[i] : i \in new}
           more == r.add \cup new \cup (refs \ waiting)
<1>1. refs \subseteq Items
  BY SessionAssumption
<1>2. AddTo(r, items) = [r EXCEPT !.add = more]
  BY DEF AddTo
<1> HIDE DEF refs
<1>3. more \in SUBSET Items /\ more \cap r.remove = {}
  BY <1>1 DEF Round, RoundState
<1> HIDE DEF more
<1> QED BY <1>2, <1>3 DEF Round, RoundState

LEMMA RemoveFromRound ==
  ASSUME NEW r \in Round, NEW i \in Items
  PROVE  RemoveFrom(r, i) \in Round /\ RemoveFrom(r, i).inCommit = r.inCommit
BY DEF Round, RoundState, RemoveFrom

LEMMA RoundOf ==
  ASSUME RoundsTyped
  PROVE  /\ \A n \in 1 .. Len(round) : round[n] \in Round
         /\ \A k \in 1 .. Len(rounds) : rounds[k] \in 1 .. Len(round)
         /\ Len(round) \in Nat /\ Len(rounds) \in Nat
         /\ DOMAIN round = 1 .. Len(round) /\ DOMAIN rounds = 1 .. Len(rounds)
BY DEF RoundsTyped

(* getCurrentRound() never hands out a round that is in commit.            *)
LEMMA CurrentRoundFree ==
  ASSUME RoundsTyped
  PROVE  /\ CurrentRound \in Round /\ ~ CurrentRound.inCommit
         /\ ~ NeedsRound => Last \in 1 .. Len(round) /\ ~ round[Last].inCommit
<1>1. NewRound \in Round /\ ~ NewRound.inCommit
  BY DEF NewRound, Round, RoundState
<1>2. ~ NeedsRound => Last \in 1 .. Len(round) /\ ~ round[Last].inCommit
  <2>1. rounds # <<>> => Len(rounds) \in 1 .. Len(rounds)
    BY DEF RoundsTyped
  <2> QED BY <2>1, RoundOf DEF NeedsRound, Last
<1> QED BY <1>1, <1>2, RoundOf DEF CurrentRound

(* A list of rounds that only grows: those in commit stay as they are.     *)
Grown ==
  /\ Len(round) <= Len(round')
  /\ \A n \in 1 .. Len(round) : round[n].inCommit => round'[n] = round[n]
  /\ \A n \in 1 .. Len(round') : round'[n].inCommit => n \in 1 .. Len(round) /\ round[n].inCommit

LEMMA AppendRound ==
  ASSUME RoundsTyped, NEW r \in Round, ~ r.inCommit, round' = Append(round, r),
         rounds' \in Seq(1 .. Len(round) + 1)
  PROVE  RoundsTyped' /\ Grown
<1>1. /\ Len(round') = Len(round) + 1 /\ round' \in Seq(Round)
      /\ \A n \in 1 .. Len(round) : round'[n] = round[n]
      /\ round'[Len(round) + 1] = r
  BY DEF RoundsTyped
<1>2. \A n \in 1 .. Len(round') : n \in 1 .. Len(round) \/ n = Len(round) + 1
  BY <1>1, RoundOf
<1> QED BY <1>1, <1>2, RoundOf DEF RoundsTyped, Grown

LEMMA ReplaceRound ==
  ASSUME RoundsTyped, NEW n \in 1 .. Len(round), NEW r \in Round, round' = [round EXCEPT ![n] = r],
         rounds' \in Seq(1 .. Len(round))
  PROVE  /\ RoundsTyped' /\ Len(round') = Len(round)
         /\ round'[n] = r /\ \A m \in 1 .. Len(round) : m # n => round'[m] = round[m]
         /\ ~ r.inCommit /\ ~ round[n].inCommit => Grown
<1>1. /\ Len(round') = Len(round) /\ round' \in Seq(Round)
      /\ round'[n] = r /\ \A m \in 1 .. Len(round) : m # n => round'[m] = round[m]
  BY DEF RoundsTyped
<1>2. RoundsTyped'
  BY <1>1 DEF RoundsTyped
<1>3. ~ r.inCommit /\ ~ round[n].inCommit => Grown
  BY <1>1, RoundOf DEF Grown
<1> QED BY <1>1, <1>2, <1>3

LEMMA PutRound ==
  ASSUME RoundsTyped, NEW r \in Round, ~ r.inCommit, PutCurrentRound(r)
  PROVE  RoundsTyped' /\ Grown
<1>1. CASE NeedsRound
  <2>1. rounds' \in Seq(1 .. Len(round) + 1)
    <3>1. rounds \in Seq(1 .. Len(round) + 1)
      <4>1. 1 .. Len(round) \subseteq 1 .. Len(round) + 1
        BY RoundOf
      <4> QED BY <4>1 DEF RoundsTyped
    <3>2. Len(round) + 1 \in 1 .. Len(round) + 1
      BY RoundOf
    <3>3. rounds' = Append(rounds, Len(round) + 1)
      BY <1>1 DEF PutCurrentRound
    <3> QED BY <3>1, <3>2, <3>3
  <2>2. round' = Append(round, r)
    BY <1>1 DEF PutCurrentRound
  <2> QED BY <2>1, <2>2, AppendRound
<1>2. CASE ~ NeedsRound
  <2>1. round' = [round EXCEPT ![Last] = r] /\ rounds' = rounds
    BY <1>2 DEF PutCurrentRound
  <2>2. Last \in 1 .. Len(round) /\ ~ round[Last].inCommit
    BY <1>2, CurrentRoundFree
  <2>3. rounds' \in Seq(1 .. Len(round))
    BY <2>1 DEF RoundsTyped
  <2> QED BY <2>1, <2>2, <2>3, ReplaceRound
<1> QED BY <1>1, <1>2
-----------------------------------------------------------------------------
(* The call c of commit() goes on at t.                                    *)
Longer == Len(round) \in Nat /\ Len(round') \in Nat /\ Len(round) <= Len(round')
GoesTo(c, t) ==
  /\ running \subseteq {c} /\ task' = [task EXCEPT ![c] = t] /\ running' \in {{}, {c}}
  /\ t \in TaskState /\ t.round <= Len(round')
  /\ t.pc \in Working => t.round # 0
  /\ t.pc \in {"idle", "thrown"} \/ t.at # 0
  /\ t.pc = "store" => running' = {c}

LEMMA TaskStep ==
  ASSUME TasksTyped, NEW c \in Commits, NEW t, GoesTo(c, t), Longer
  PROVE  TasksTyped'
<1> USE DEF GoesTo, Longer
<1>1. task' \in [Commits -> TaskState]
  BY DEF TasksTyped
<1>2. running' = {} \/ \E d \in Commits : running' = {d}
  OBVIOUS
<1>3. ASSUME NEW d \in Commits
      PROVE  /\ task'[d].round <= Len(round')
             /\ task'[d].pc \in Working => task'[d].round # 0
             /\ task'[d].pc \in {"idle", "thrown"} \/ task'[d].at # 0
             /\ task'[d].pc = "store" => running' = {d}
  <2>1. CASE d = c
    BY <2>1 DEF TasksTyped
  <2>2. CASE d # c
    <3>1. task'[d] = task[d] /\ task[d] \in TaskState
      BY <2>2 DEF TasksTyped
    <3>2. task[d].round \in Nat
      BY <3>1 DEF TaskState
    <3>3. task[d].pc # "store"
      BY <2>2 DEF TasksTyped
    <3> QED BY <3>1, <3>2, <3>3 DEF TasksTyped
  <2> QED BY <2>1, <2>2
<1> QED BY <1>1, <1>2, <1>3 DEF TasksTyped

(* The application goes on, and rounds may be added.                       *)
LEMMA TasksWait ==
  ASSUME TasksTyped, UNCHANGED <<task, running>>, Longer
  PROVE  TasksTyped'
<1>1. \A c \in Commits : task[c].round \in Nat
  BY DEF TasksTyped, TaskState
<1> QED BY <1>1 DEF TasksTyped, Longer

LEMMA TaskOf ==
  ASSUME TasksTyped, NEW c \in Commits
  PROVE  /\ task[c] \in TaskState
         /\ task[c].pc \in Working \cup {"idle", "commitPre", "rounds", "thrown"}
         /\ task[c].at \in Nat /\ task[c].round \in Nat /\ task[c].round <= Len(round)
         /\ task[c].persist \in Nat
         /\ task[c].todo \subseteq Classes /\ task[c].check \in BOOLEAN
         /\ task[c].inserts \in PartialRows /\ task[c].changes \in PartialRows
BY DEF TasksTyped, TaskState

(* The round a call works on.                                              *)
LEMMA WorkingOn ==
  ASSUME TasksTyped, RoundsTyped, NEW c \in Commits, task[c].pc \in Working
  PROVE  /\ task[c].round \in 1 .. Len(round) /\ round[task[c].round] \in Round
         /\ Adding(task[c]) \subseteq Items /\ Removing(task[c]) \subseteq Items
         /\ {Class[i] : i \in round[task[c].round].add} \subseteq Classes
         /\ {Class[i] : i \in round[task[c].round].remove} \subseteq Classes
<1>1. task[c].round \in 1 .. Len(round)
  BY TaskOf, RoundOf DEF TasksTyped
<1>2. round[task[c].round] \in Round
  BY <1>1, RoundOf
<1>3. round[task[c].round].add \subseteq Items /\ round[task[c].round].remove \subseteq Items
  BY <1>2 DEF Round, RoundState
<1> QED BY <1>1, <1>2, <1>3 DEF Adding, Removing, OfClass, Classes

LEMMA WritesPartial ==
  ASSUME RowsTyped, NEW items \in SUBSET Items
  PROVE  /\ Writes(items) \in PartialRows /\ DOMAIN Writes(items) = items
         /\ \A i \in items : Writes(items)[i] = obj[i]
<1>1. Writes(items) \in [items -> Values]
  BY DEF Writes, RowsTyped
<1> QED BY <1>1 DEF PartialRows, Writes

LEMMA PartialDomain ==
  \A f \in PartialRows : DOMAIN f \in SUBSET Items /\ \A i \in DOMAIN f : f[i] \in Values
BY DEF PartialRows

LEMMA NoWritesPartial == NoWrites \in PartialRows /\ DOMAIN NoWrites = {}
<1>1. NoWrites \in [{} -> Values]
  BY DEF NoWrites
<1>2. {} \in SUBSET Items
  OBVIOUS
<1> QED BY <1>1, <1>2 DEF PartialRows, NoWrites

LEMMA IdleTyped == Idle \in TaskState
BY NoWritesPartial DEF Idle, TaskState
-----------------------------------------------------------------------------
LEMMA SessionStart == Init => SessionInv /\ Tidy /\ Stored
<1> SUFFICES ASSUME Init PROVE SessionInv /\ Tidy /\ Stored
  OBVIOUS
<1>1. RowsTyped
  BY DEF Init, RowsTyped, Row
<1>2. RoundsTyped
  <2>1. Len(round) = 0 /\ \A S : <<>> \in Seq(S)
    BY DEF Init
  <2> QED BY <2>1 DEF Init, RoundsTyped
<1>3. BooksTyped
  <2>1. released = 1 .. 0 /\ persistence \in {0, 0 + 1}
    BY DEF Init
  <2>2. \E m \in Nat : released = 1 .. m /\ persistence \in {0, m + 1}
    BY <2>1
  <2>3. commitDepth = 0 /\ check = FALSE
    BY DEF Init
  <2>4. commitDepth \in Int /\ ~ (commitDepth >= 1)
    BY <2>3
  <2>5. check \in BOOLEAN
    BY <2>3
  <2> QED BY <2>2, <2>4, <2>5 DEF BooksTyped
<1>4. TasksTyped
  BY <1>2, IdleTyped, RoundOf DEF Init, TasksTyped, Idle, Working, Deleting, Persisting, Writing
<1>5. Tidy
  BY DEF Init, Tidy, TidyAt, Idle, Working, Deleting, Persisting, Writing
<1>6. Stored
  BY SessionAssumption DEF Init, Stored, StoredAt, Idle, Writing
<1> QED BY <1>1, <1>2, <1>3, <1>4, <1>5, <1>6 DEF SessionInv
-----------------------------------------------------------------------------
(* The type invariant, one action after the other.                         *)
LEMMA RowsStay == RowsTyped /\ UNCHANGED <<obj, db, entities>> => RowsTyped'
BY DEF RowsTyped, entities

LEMMA SessionStays == SessionInv /\ UNCHANGED session => RoundsTyped' /\ (check' \in BOOLEAN => BooksTyped')
BY DEF SessionInv, RoundsTyped, BooksTyped, session

(* A call goes on, with the same rounds.                                   *)
LEMMA CallGoesOn ==
  ASSUME SessionInv, NEW c \in Commits, NEW t \in TaskState, running \subseteq {c},
         Go(c, t) \/ Await(c, t), UNCHANGED session, check' \in BOOLEAN,
         t.round <= Len(round), t.pc \in Working => t.round # 0,
         t.pc \in {"idle", "thrown"} \/ t.at # 0, t.pc = "store" => Go(c, t)
  PROVE  RoundsTyped' /\ BooksTyped' /\ TasksTyped'
<1>1. task' = [task EXCEPT ![c] = t] /\ running' \in {{}, {c}} /\ (t.pc = "store" => running' = {c})
  BY DEF Go, Await
<1>2. RoundsTyped' /\ BooksTyped' /\ round' = round
  BY SessionStays DEF session
<1>3. Longer /\ Len(round') = Len(round)
  BY <1>2, RoundOf DEF SessionInv, Longer
<1>4. GoesTo(c, t) /\ TasksTyped
  BY <1>1, <1>3 DEF GoesTo, SessionInv
<1>5. TasksTyped'
  BY <1>3, <1>4, TaskStep
<1> QED BY <1>2, <1>5

LEMMA GoesOnAt ==
  ASSUME SessionInv, NEW c \in Commits, NEW pc \in Working \cup {"rounds"},
         task[c].pc \in Working \/ pc = "rounds",
         NEW t \in TaskState, t.pc = pc, t.round = task[c].round, t.at = task[c].at,
         task[c].pc \in Working \cup {"commitPre"}
  PROVE  t.round <= Len(round) /\ (t.pc \in Working => t.round # 0) /\ t.at # 0
<1>1. TasksTyped
  BY DEF SessionInv
<1> QED BY <1>1 DEF TasksTyped, Working, Deleting, Persisting, Writing

(* What only waits for its listeners.                                      *)
LEMMA HooksKeep ==
  ASSUME SessionInv, NEW c \in Commits,
         CommitPre(c) \/ DeletePre(c) \/ DeletePost(c) \/ UpdatePre(c) \/ UpdatePost(c)
  PROVE  SessionInv'
<1>1. RowsTyped' /\ UNCHANGED session /\ check' \in BOOLEAN
  BY RowsStay DEF SessionInv, BooksTyped, CommitPre, DeletePre, DeletePost, UpdatePre, UpdatePost, session
<1>2. PICK t \in TaskState :
        /\ t.pc \in Working \cup {"rounds"} /\ t.round = task[c].round /\ t.at = task[c].at
        /\ task[c].pc \in Working \/ t.pc = "rounds"
        /\ task[c].pc \in Working \cup {"commitPre"}
        /\ (Go(c, t) \/ Await(c, t)) /\ (t.pc = "store" => Go(c, t))
  <2> DEFINE new(pc) == [task[c] EXCEPT !.pc = pc]
             out == [task[c] EXCEPT !.pc = "persist", !.todo = {}, !.class = "none"]
  <2>1. \A pc \in Working \cup {"rounds"} : 
        new(pc) \in TaskState /\ new(pc).pc = pc /\ new(pc).round = task[c].round /\ new(pc).at = task[c].at
    BY TaskOf DEF SessionInv, TaskState
  <2>2. out \in TaskState /\ out.pc = "persist" /\ out.round = task[c].round /\ out.at = task[c].at
    BY TaskOf DEF SessionInv, TaskState, Working
  <2>3. {"delete", "deletes", "update", "store", "persist"} \subseteq Working
        /\ {"deletePre", "deletePost", "updatePre", "updatePost"} \subseteq Working
    BY DEF Working, Deleting, Persisting, Writing
  <2>4. \/ task[c].pc = "commitPre" /\ Go(c, new("rounds"))
        \/ task[c].pc = "deletePre" /\ (Await(c, new("delete")) \/ Await(c, out))
        \/ task[c].pc = "deletePost" /\ Go(c, new("deletes"))
        \/ task[c].pc = "updatePre" /\ Await(c, new("update"))
        \/ task[c].pc = "updatePost" /\ Go(c, new("store"))
    BY DEF CommitPre, DeletePre, DeletePost, UpdatePre, UpdatePost, At
  <2> HIDE DEF new, out
  <2> QED BY <2>1, <2>2, <2>3, <2>4
<1>3. t.round <= Len(round) /\ (t.pc \in Working => t.round # 0) /\ t.at # 0
  BY <1>2, GoesOnAt
<1>4. running \subseteq {c}
  BY DEF CommitPre, DeletePre, DeletePost, UpdatePre, UpdatePost, At
<1>5. RoundsTyped' /\ BooksTyped' /\ TasksTyped'
  BY <1>1, <1>2, <1>3, <1>4, CallGoesOn
<1> QED BY <1>1, <1>5 DEF SessionInv

(* Change(), Add(), Remove(), Reset().                                     *)
LEMMA ReleaseKeeps ==
  ASSUME BooksTyped, commitDepth' = 0, persistence' = 0, check' \in BOOLEAN,
         released' = released \cup ({persistence} \ {0})
  PROVE  BooksTyped'
<1>1. PICK m \in Nat : released = 1 .. m /\ persistence \in {0, m + 1}
  BY DEF BooksTyped
<1>2. released' = 1 .. m \/ released' = 1 .. m + 1
  BY <1>1
<1>3. \E n \in Nat : released' = 1 .. n /\ persistence' \in {0, n + 1}
  BY <1>2
<1>4. commitDepth' \in Int /\ ~ (commitDepth' >= 1)
  OBVIOUS
<1> QED BY <1>3, <1>4 DEF BooksTyped

LEMMA BooksStay ==
  ASSUME BooksTyped, UNCHANGED <<commitDepth, persistence, released>>, check' \in BOOLEAN
  PROVE  BooksTyped'
BY DEF BooksTyped

LEMMA EditsKeep ==
  ASSUME SessionInv, NEW i \in Items, Change(i) \/ Add(i) \/ Remove(i)
  PROVE  SessionInv' /\ Grown
<1>1. /\ UNCHANGED <<db, entities, commitDepth, persistence, released, check, task, running>>
      /\ check \in BOOLEAN
  BY DEF SessionInv, BooksTyped, Change, Add, Remove, Edit
<1>2. BooksTyped'
  BY <1>1, BooksStay DEF SessionInv
<1>3. RowsTyped'
  BY <1>1 DEF SessionInv, RowsTyped, Change, Add, Remove, entities
<1>4. RoundsTyped' /\ Grown
  <2>1. RoundsTyped /\ CurrentRound \in Round /\ ~ CurrentRound.inCommit
    BY CurrentRoundFree DEF SessionInv
  <2>2. CASE Change(i)
    BY <2>1, <2>2, RoundOf DEF Change, RoundsTyped, Grown
  <2>3. CASE Add(i)
    <3>1. PutCurrentRound(AddTo(CurrentRound, {i}))
      BY <2>3 DEF Add
    <3>2. AddTo(CurrentRound, {i}) \in Round /\ ~ AddTo(CurrentRound, {i}).inCommit
      BY <2>1, AddToRound
    <3> QED BY <2>1, <3>1, <3>2, PutRound
  <2>4. CASE Remove(i)
    <3>1. PutCurrentRound(RemoveFrom(CurrentRound, i))
      BY <2>4 DEF Remove
    <3>2. RemoveFrom(CurrentRound, i) \in Round /\ ~ RemoveFrom(CurrentRound, i).inCommit
      BY <2>1, RemoveFromRound
    <3> QED BY <2>1, <3>1, <3>2, PutRound
  <2> QED BY <2>2, <2>3, <2>4
<1>5. Longer
  BY <1>4, RoundOf DEF SessionInv, RoundsTyped, Grown, Longer
<1>6. TasksTyped'
  BY <1>1, <1>5, TasksWait DEF SessionInv
<1> QED BY <1>2, <1>3, <1>4, <1>6 DEF SessionInv

LEMMA NoRounds ==
  ASSUME RoundsTyped, round' = round, rounds' = <<>>
  PROVE  RoundsTyped'
<1>1. \A S : <<>> \in Seq(S)
  OBVIOUS
<1> QED BY <1>1 DEF RoundsTyped

LEMMA ResetKeeps == SessionInv /\ Reset => SessionInv'
<1> SUFFICES ASSUME SessionInv, Reset PROVE SessionInv'
  OBVIOUS
<1>1. RowsTyped'
  BY RowsStay DEF SessionInv, Reset
<1>2. RoundsTyped'
  BY NoRounds DEF SessionInv, Reset
<1>3. BooksTyped'
  <2>1. check' \in BOOLEAN
    BY DEF SessionInv, BooksTyped, Reset
  <2> QED BY <2>1, ReleaseKeeps DEF SessionInv, Reset
<1>4. TasksTyped'
  BY RoundOf, TasksWait DEF SessionInv, Reset, Longer
<1> QED BY <1>1, <1>2, <1>3, <1>4 DEF SessionInv

(* commit() puts the identity map into the current round, unless that is   *)
(* in commit, and takes the next persistence.                              *)
LEMMA CommitRounds ==
  ASSUME SessionInv, NEW c \in Commits, Commit(c)
  PROVE  RoundsTyped' /\ Grown
<1> DEFINE none == rounds = <<>>
           made == IF none THEN Append(round, NewRound) ELSE round
           list == IF none THEN <<Len(made)>> ELSE rounds
           current == list[Len(list)]
           r == AddTo(made[current], identityMap)
<1>1. /\ rounds' = list
      /\ round' = made \/ round' = [made EXCEPT ![current] = IF @.inCommit THEN @ ELSE r]
  BY DEF Commit
<1>2. round \in Seq(Round) /\ rounds \in Seq(1 .. Len(round)) /\ identityMap \in SUBSET Items
  BY DEF SessionInv, RoundsTyped, RowsTyped
<1>3. NewRound \in Round /\ ~ NewRound.inCommit
  BY DEF NewRound, Round, RoundState
<1>4. /\ made \in Seq(Round) /\ Len(made) \in Nat /\ Len(round) \in Nat /\ Len(round) <= Len(made)
      /\ \A n \in 1 .. Len(round) : made[n] = round[n]
      /\ \A n \in 1 .. Len(made) : n \in 1 .. Len(round) \/ ~ made[n].inCommit
  BY <1>2, <1>3
<1>5. list \in Seq(1 .. Len(made)) /\ current \in 1 .. Len(made)
  <2>1. CASE none
    <3>1. Len(made) \in 1 .. Len(made)
      BY <1>2, <2>1
    <3> HIDE DEF made
    <3> QED BY <2>1, <3>1
  <2>2. CASE ~ none
    <3>1. Len(rounds) \in 1 .. Len(rounds)
      BY <1>2, <2>2
    <3> QED BY <1>2, <2>2, <3>1
  <2> QED BY <2>1, <2>2
<1> HIDE DEF made, list, current
<1>6. made[current] \in Round
  BY <1>4, <1>5
<1>7. r \in Round /\ r.inCommit = made[current].inCommit
  BY <1>2, <1>6, AddToRound
<1> DEFINE q == IF made[current].inCommit THEN made[current] ELSE r
<1>8. q \in Round /\ (made[current].inCommit => q = made[current]) /\ (q.inCommit => made[current].inCommit)
  BY <1>6, <1>7
<1>9. round' = made \/ round' = [made EXCEPT ![current] = q]
  BY <1>1
<1> HIDE DEF q
<1>10. /\ round' \in Seq(Round) /\ Len(round') = Len(made)
       /\ \A n \in 1 .. Len(made) : /\ made[n].inCommit => round'[n] = made[n]
                                    /\ round'[n].inCommit => made[n].inCommit
  <2>1. CASE round' = made
    BY <1>4, <2>1
  <2>2. CASE round' = [made EXCEPT ![current] = q]
    <3>1. round' \in Seq(Round) /\ Len(round') = Len(made)
      BY <1>4, <1>5, <1>8, <2>2
    <3>2. \A n \in 1 .. Len(made) : round'[n] = IF n = current THEN q ELSE made[n]
      BY <1>4, <1>5, <1>8, <2>2
    <3> QED BY <1>8, <3>1, <3>2
  <2> QED BY <1>9, <2>1, <2>2
<1>11. RoundsTyped'
  BY <1>1, <1>5, <1>10 DEF RoundsTyped
<1>12. Grown
  BY <1>4, <1>10 DEF Grown
<1> QED BY <1>11, <1>12

LEMMA CommitKeeps == ASSUME SessionInv, NEW c \in Commits, Commit(c) PROVE SessionInv'
<1>1. RowsTyped'
  BY RowsStay DEF SessionInv, Commit
<1>2. RoundsTyped' /\ Grown
  BY CommitRounds
<1>3. BooksTyped'
  <2>1. BooksTyped
    BY DEF SessionInv
  <2>2. PICK m \in Nat : released = 1 .. m /\ persistence \in {0, m + 1}
    BY <2>1 DEF BooksTyped
  <2>3. Cardinality(released) = m
    BY <2>2, FS_Interval
  <2>4. persistence' = m + 1 /\ released' = released
    BY <2>2, <2>3 DEF Commit
  <2>5. commitDepth' \in Int /\ check' = check
    BY <2>1 DEF Commit, BooksTyped
  <2>6. persistence' # 0
    BY <2>4
  <2> QED BY <2>1, <2>2, <2>4, <2>5, <2>6 DEF BooksTyped
<1>4. Longer
  BY <1>2, RoundOf DEF SessionInv, RoundsTyped, Grown, Longer
<1>5. TasksTyped /\ running \subseteq {c}
  BY DEF SessionInv, Commit, Free
<1>6. TasksTyped'
  <2> DEFINE new(pc) == [Idle EXCEPT !.pc = pc, !.at = 1]
  <2>1. \A pc \in {"commitPre", "rounds"} : new(pc) \in TaskState /\ new(pc).pc = pc /\ new(pc).round = 0 /\ new(pc).at = 1
    BY IdleTyped DEF TaskState, Idle
  <2>2. CASE UNCHANGED <<task, running>>
    BY <1>4, <1>5, <2>2, TasksWait
  <2>3. CASE Await(c, new("commitPre")) \/ Go(c, new("rounds"))
    <3>1. PICK pc \in {"commitPre", "rounds"} :
            task' = [task EXCEPT ![c] = new(pc)] /\ running' \in {{}, {c}}
      BY <2>3 DEF Await, Go
    <3>2. pc \notin Working /\ pc # "store"
      BY DEF Working, Deleting, Persisting, Writing
    <3> HIDE DEF new
    <3>3. GoesTo(c, new(pc))
      BY <1>4, <1>5, <2>1, <3>1, <3>2 DEF GoesTo, Longer
    <3> QED BY <1>4, <1>5, <3>3, TaskStep
  <2> QED BY <2>2, <2>3 DEF Commit
<1> QED BY <1>1, <1>2, <1>3, <1>6 DEF SessionInv

(* The loop over the rounds, and the end of commit().                      *)
LEMMA ReturnKeeps ==
  ASSUME SessionInv, NEW c \in Commits, At(c, "rounds"), Return(c)
  PROVE  SessionInv'
<1>1. RowsTyped' /\ UNCHANGED <<round, check>>
  BY RowsStay DEF SessionInv, Return
<1>2. RoundsTyped'
  BY NoRounds DEF SessionInv, Return, RoundsTyped
<1>3. BooksTyped'
  <2>1. BooksTyped /\ check' \in BOOLEAN
    BY <1>1 DEF SessionInv, BooksTyped
  <2>2. CASE commitDepth = 1
    <3>1. persistence # 0
      BY <2>1, <2>2 DEF BooksTyped
    <3>2. commitDepth' = 0 /\ persistence' = 0 /\ released' = released \cup ({persistence} \ {0})
      BY <2>2, <3>1 DEF Return
    <3> QED BY <2>1, <3>2, ReleaseKeeps
  <2>3. CASE commitDepth # 1
    <3>1. UNCHANGED <<released, persistence>> /\ commitDepth' \in Int /\ (commitDepth' >= 1 => commitDepth >= 1)
      BY <2>1, <2>3 DEF Return, BooksTyped
    <3> QED BY <2>1, <3>1 DEF BooksTyped
  <2> QED BY <2>2, <2>3
<1>4. TasksTyped'
  <2>1. TasksTyped /\ Len(round) \in Nat /\ Idle.pc = "idle" /\ Idle.round = 0
    BY RoundOf DEF SessionInv, Idle
  <2>2. task' = [task EXCEPT ![c] = Idle] /\ running' \in {{}, {c}} /\ running \subseteq {c}
    BY DEF Return, Await, At
  <2>3. Idle.pc \notin Working /\ Idle.pc # "store"
    BY <2>1 DEF Working, Deleting, Persisting, Writing
  <2>4. GoesTo(c, Idle) /\ Longer
    BY <1>1, <2>1, <2>2, <2>3, IdleTyped DEF GoesTo, Longer
  <2> QED BY <2>1, <2>4, TaskStep
<1> QED BY <1>1, <1>2, <1>3, <1>4 DEF SessionInv

LEMMA NextRoundKeeps ==
  ASSUME SessionInv, NEW c \in Commits, NextRound(c)
  PROVE  SessionInv'
<1> DEFINE t == task[c]
           n == rounds[t.at]
           next == [t EXCEPT !.at = @ + 1]
           todo == {Class[i] : i \in round[n].remove}
           begun == [t EXCEPT !.pc = "deletes", !.round = n, !.persist = persistence, !.todo = todo]
<1>1. At(c, "rounds")
  BY Zenon DEF NextRound
<1>2. CASE t.at > Len(rounds)
  BY Zenon, <1>1, <1>2, ReturnKeeps DEF NextRound
<1>3. CASE ~ (t.at > Len(rounds))
  <2>1. /\ \/ (Go(c, next) \/ Await(c, next)) /\ UNCHANGED round
           \/ round' = [round EXCEPT ![n].inCommit = TRUE] /\ Go(c, begun)
        /\ UNCHANGED <<rounds, commitDepth, persistence, released, obj, db, entities, check, bounds, observed>>
    BY Zenon, <1>3 DEF NextRound
  <2>2. TasksTyped /\ RoundsTyped /\ t \in TaskState /\ t.at \in Nat /\ t.round <= Len(round) /\ t.pc = "rounds" /\ t.at # 0
    BY <1>1, TaskOf DEF SessionInv, At, TasksTyped
  <2>3. next \in TaskState /\ next.pc = "rounds" /\ next.round = t.round /\ next.at # 0
    BY <2>2 DEF TaskState
  <2>4. RowsTyped'
    BY <2>1, RowsStay DEF SessionInv
  <2>5. BooksTyped'
    <3>1. BooksTyped /\ check' \in BOOLEAN
      BY <2>1 DEF SessionInv, BooksTyped
    <3> QED BY <2>1, <3>1, BooksStay
  <2>6. CASE (Go(c, next) \/ Await(c, next)) /\ UNCHANGED round
    <3>1. task' = [task EXCEPT ![c] = next] /\ running' \in {{}, {c}} /\ running \subseteq {c}
      BY <1>1, <2>6 DEF Go, Await, At
    <3>2. "rounds" \notin Working /\ Len(round) \in Nat
      BY <2>2, RoundOf DEF Working, Deleting, Persisting, Writing
    <3>3. GoesTo(c, next) /\ Longer
      <4> HIDE DEF next
      <4> QED BY <2>2, <2>3, <2>6, <3>1, <3>2 DEF GoesTo, Longer
    <3>4. RoundsTyped'
      BY <2>1, <2>2, <2>6 DEF RoundsTyped
    <3> QED BY <2>2, <2>4, <2>5, <3>3, <3>4, TaskStep DEF SessionInv
  <2>7. CASE round' = [round EXCEPT ![n].inCommit = TRUE] /\ Go(c, begun)
    <3>1. n \in 1 .. Len(round) /\ n \in Nat /\ n # 0 /\ n <= Len(round) /\ Len(round) \in Nat
      <4>1. Len(rounds) \in Nat /\ t.at # 0
        BY <2>2, RoundOf
      <4>2. t.at \in 1 .. Len(rounds)
        BY <1>3, <2>2, <4>1
      <4> QED BY <2>2, <4>2, RoundOf
    <3>2. round[n] \in Round
      BY <2>2, <3>1, RoundOf
    <3>3. todo \in SUBSET Classes
      BY <3>2 DEF Round, RoundState, Classes
    <3> HIDE DEF n, todo
    <3>4. persistence \in Nat
      BY DEF SessionInv, BooksTyped
    <3>5. begun \in TaskState /\ begun.pc = "deletes" /\ begun.round = n /\ begun.at # 0
      BY <2>2, <3>1, <3>3, <3>4 DEF TaskState, Working, Deleting
    <3>6. [round[n] EXCEPT !.inCommit = TRUE] \in Round
      BY <3>2 DEF Round, RoundState
    <3>7. RoundsTyped' /\ Len(round') = Len(round)
      BY <2>1, <2>2, <2>7, <3>1, <3>6, ReplaceRound DEF RoundsTyped
    <3>8. task' = [task EXCEPT ![c] = begun] /\ running' \in {{}, {c}} /\ running \subseteq {c}
      BY <1>1, <2>7 DEF Go, At
    <3> HIDE DEF begun
    <3>9. TasksTyped'
      <4>1. GoesTo(c, begun) /\ Longer
        BY <3>1, <3>5, <3>7, <3>8 DEF GoesTo, Longer
      <4> QED BY <2>2, <4>1, TaskStep
    <3> QED BY <2>4, <2>5, <3>7, <3>9 DEF SessionInv
  <2> QED BY <2>1, <2>6, <2>7
<1> QED BY <1>2, <1>3

LEMMA WorkGoesOn ==
  ASSUME SessionInv, NEW c \in Commits, running \subseteq {c}, task[c].pc \in Working,
         NEW t \in TaskState, t.round = task[c].round, t.at = task[c].at,
         Go(c, t) \/ Await(c, t), t.pc = "store" => Go(c, t),
         UNCHANGED session, check' \in BOOLEAN
  PROVE  RoundsTyped' /\ BooksTyped' /\ TasksTyped'
<1>1. TasksTyped /\ task[c].pc \notin {"idle", "thrown"}
  BY DEF SessionInv, Working, Deleting, Persisting, Writing
<1>2. t.round <= Len(round) /\ t.round # 0 /\ t.at # 0
  BY <1>1 DEF TasksTyped
<1> QED BY <1>2, CallGoesOn

(* What follows the inserts of a group; the updates keep the thread only   *)
(* if there are none.                                                      *)
LEMMA AfterInsertsTyped ==
  ASSUME NEW t \in TaskState
  PROVE  /\ AfterInserts(t) \in TaskState
         /\ AfterInserts(t).pc \in {"store", "updatePre", "update"}
         /\ AfterInserts(t).round = t.round /\ AfterInserts(t).at = t.at
         /\ AfterInserts(t).inserts = t.inserts /\ AfterInserts(t).changes = t.changes
         /\ AfterInserts(t).check = t.check /\ AfterInserts(t).class = t.class
         /\ AfterInserts(t).pc = "store" <=> t.changes = NoWrites
BY DEF AfterInserts, TaskState, Hooked, Working, Persisting, Writing

LEMMA WorkKeeps ==
  ASSUME SessionInv, NEW c \in Commits,
         DeleteDone(c) \/ BeginPersist(c) \/ InsertPre(c) \/ InsertDone(c) \/ InsertPost(c)
           \/ UpdateDone(c) \/ StoreMany(c)
  PROVE  SessionInv'
<1> DEFINE t == task[c]
<1>1. /\ RowsTyped /\ TasksTyped /\ RoundsTyped /\ check \in BOOLEAN
      /\ t.pc \in Working /\ running \subseteq {c}
  BY DEF SessionInv, BooksTyped, DeleteDone, BeginPersist, InsertPre, InsertDone, InsertPost, UpdateDone, StoreMany,
         At, Working, Deleting, Persisting, Writing
<1>2. UNCHANGED session /\ check' \in BOOLEAN
  BY <1>1 DEF DeleteDone, BeginPersist, InsertPre, InsertDone, InsertPost, UpdateDone, StoreMany
<1>3. t \in TaskState /\ Adding(t) \subseteq Items /\ Removing(t) \subseteq Items
  BY <1>1, TaskOf, WorkingOn
<1>4. t.inserts \in PartialRows /\ t.changes \in PartialRows
  BY <1>1, TaskOf
<1>5. RowsTyped'
  <2>1. CASE DeleteDone(c)
    BY <1>1, <1>3, <2>1 DEF DeleteDone, RowsTyped, Row
  <2>2. CASE BeginPersist(c) \/ InsertPre(c) \/ InsertPost(c)
    BY <1>1, <2>2, RowsStay DEF BeginPersist, InsertPre, InsertPost
  <2>3. CASE InsertDone(c)
    BY <1>1, <1>4, <2>3, PartialDomain DEF InsertDone, RowsTyped, Row, entities
  <2>4. CASE UpdateDone(c)
    BY <1>1, <1>4, <2>4, PartialDomain DEF UpdateDone, RowsTyped, Row, entities
  <2>5. CASE StoreMany(c)
    BY <1>1, <1>3, <2>5 DEF StoreMany, RowsTyped, Row
  <2> QED BY <2>1, <2>2, <2>3, <2>4, <2>5
<1>6. PICK u \in TaskState : /\ u.round = t.round /\ u.at = t.at /\ (Go(c, u) \/ Await(c, u))
                             /\ u.pc = "store" => Go(c, u)
  <2>1. CASE DeleteDone(c)
    <3> DEFINE u(pc) == [t EXCEPT !.pc = pc]
    <3>1. \A pc \in {"deletes", "deletePost"} : u(pc) \in TaskState /\ u(pc).round = t.round /\ u(pc).at = t.at
                                               /\ u(pc).pc # "store"
      BY <1>3 DEF TaskState, Working, Deleting
    <3>2. Await(c, u("deletePost")) \/ Go(c, u("deletes"))
      BY <2>1 DEF DeleteDone
    <3> HIDE DEF u
    <3> QED BY <3>1, <3>2
  <2>2. CASE BeginPersist(c)
    <3> DEFINE todo == {Class[i] : i \in round[t.round].add}
               u == [t EXCEPT !.pc = "groups", !.check = check, !.todo = todo]
    <3>1. todo \in SUBSET Classes
      BY <1>1, WorkingOn
    <3>2. Go(c, u)
      BY <2>2 DEF BeginPersist
    <3> HIDE DEF todo
    <3>3. u \in TaskState /\ u.round = t.round /\ u.at = t.at
      BY <1>1, <1>3, <3>1 DEF TaskState, Working, Persisting
    <3> QED BY <3>2, <3>3
  <2>3. CASE InsertPre(c)
    <3> DEFINE w == Writes(DOMAIN t.inserts)
               u == [t EXCEPT !.pc = "insert", !.inserts = w]
    <3>1. w \in PartialRows
      BY <1>1, <1>4, PartialDomain, WritesPartial
    <3>2. Await(c, u)
      BY <2>3 DEF InsertPre
    <3> HIDE DEF w
    <3>3. u \in TaskState /\ u.round = t.round /\ u.at = t.at /\ u.pc = "insert"
      BY <1>3, <3>1 DEF TaskState, Working, Persisting, Writing
    <3> QED BY <3>2, <3>3
  <2>4. CASE InsertDone(c) \/ InsertPost(c)
    <3> DEFINE u == [t EXCEPT !.pc = "insertPost"]
    <3>1. u \in TaskState /\ u.round = t.round /\ u.at = t.at /\ u.pc = "insertPost"
      BY <1>3 DEF TaskState, Working, Persisting, Writing
    <3>2. Await(c, u) \/ Continue(c, AfterInserts(t))
      BY <2>4 DEF InsertDone, InsertPost
    <3>3. CASE Await(c, u)
      BY <3>1, <3>3
    <3>4. CASE Continue(c, AfterInserts(t))
      BY <1>3, <3>4, AfterInsertsTyped DEF Continue
    <3> QED BY <3>2, <3>3, <3>4
  <2>5. CASE UpdateDone(c)
    <3> DEFINE u(pc) == [t EXCEPT !.pc = pc]
    <3>1. \A pc \in {"store", "updatePost"} : u(pc) \in TaskState /\ u(pc).round = t.round /\ u(pc).at = t.at
                                             /\ u(pc).pc = pc
      BY <1>3 DEF TaskState, Working, Persisting, Writing
    <3>2. Await(c, u("updatePost")) \/ Go(c, u("store"))
      BY <2>5 DEF UpdateDone
    <3> HIDE DEF u
    <3> QED BY <3>1, <3>2
  <2>6. CASE StoreMany(c)
    <3> DEFINE u == [t EXCEPT !.pc = "groups", !.inserts = NoWrites, !.changes = NoWrites]
    <3>1. Go(c, u)
      BY <2>6 DEF StoreMany
    <3>2. u \in TaskState /\ u.round = t.round /\ u.at = t.at
      BY <1>3, NoWritesPartial DEF TaskState, Working, Persisting
    <3> QED BY <3>1, <3>2
  <2> QED BY <2>1, <2>2, <2>3, <2>4, <2>5, <2>6
<1>7. RoundsTyped' /\ BooksTyped' /\ TasksTyped'
  BY <1>1, <1>2, <1>6, WorkGoesOn
<1> QED BY <1>5, <1>7 DEF SessionInv

(* doDelete(): the soft-deleted entities come into another round.          *)
LEMMA NextDeleteKeeps ==
  ASSUME SessionInv, NEW c \in Commits, NextDelete(c)
  PROVE  SessionInv' /\ Grown
<1> DEFINE t == task[c]
<1>1. /\ RowsTyped /\ TasksTyped /\ RoundsTyped /\ BooksTyped
      /\ t.pc = "deletes" /\ t.pc \in Working /\ running \subseteq {c}
  BY Zenon DEF SessionInv, NextDelete, At, Working, Deleting
<1>2. t \in TaskState /\ t.todo \subseteq Classes /\ t.round \in Nat /\ t.round <= Len(round)
      /\ t.round # 0 /\ t.at # 0
  BY <1>1, TaskOf DEF TasksTyped
<1>3. UNCHANGED <<db, entities, commitDepth, persistence, released, check>>
  BY Zenon DEF NextDelete
<1>4. BooksTyped'
  BY <1>1, <1>3, BooksStay DEF BooksTyped
<1>5. RowsTyped'
  <2>1. \A k : (obj' = [i \in Items |-> IF i \in OfClass(round[t.round].remove, k) THEN Deleted ELSE obj[i]])
                 => obj' \in [Items -> Values]
    BY <1>1, SessionAssumption DEF RowsTyped
  <2>2. obj' \in [Items -> Values]
    BY Zenon, <1>1, <2>1 DEF NextDelete, RowsTyped
  <2> QED BY <1>1, <1>3, <2>2 DEF RowsTyped, entities
<1>6. RoundsTyped' /\ Grown
  <2>1. CASE UNCHANGED <<round, rounds>>
    BY <1>1, <2>1, RoundOf DEF RoundsTyped, Grown
  <2>2. ASSUME NEW k, PutCurrentRound(AddTo(CurrentRound, OfClass(round[t.round].remove, k)))
        PROVE  RoundsTyped' /\ Grown
    <3>1. OfClass(round[t.round].remove, k) \in SUBSET Items
      BY <1>1, WorkingOn DEF OfClass, Round, RoundState
    <3>2. CurrentRound \in Round /\ ~ CurrentRound.inCommit
      BY <1>1, CurrentRoundFree
    <3> DEFINE r == AddTo(CurrentRound, OfClass(round[t.round].remove, k))
    <3>3. r \in Round /\ ~ r.inCommit
      BY <3>1, <3>2, AddToRound
    <3> HIDE DEF r
    <3>4. PutCurrentRound(r)
      BY <2>2 DEF r
    <3> QED BY <1>1, <3>3, <3>4, PutRound
  <2> QED BY Zenon, <2>1, <2>2 DEF NextDelete
<1>7. Longer
  BY <1>1, <1>6, RoundOf DEF RoundsTyped, Grown, Longer
<1>8. PICK u \in TaskState : u.round = t.round /\ u.at = t.at /\ u.pc \in Working \ {"store"} /\ Await(c, u)
  <2> DEFINE done == [t EXCEPT !.pc = "persist", !.class = "none"]
             more(k) == [t EXCEPT !.pc = Hooked("deletePre", "delete"), !.class = k, !.todo = @ \ {k}]
  <2>1. Await(c, done) \/ \E k \in t.todo : Await(c, more(k))
    BY Zenon DEF NextDelete
  <2>2. done \in TaskState /\ done.round = t.round /\ done.at = t.at /\ done.pc \in Working \ {"store"}
    BY <1>2 DEF TaskState, Working
  <2>3. \A k \in t.todo : /\ more(k) \in TaskState /\ more(k).round = t.round /\ more(k).at = t.at
                          /\ more(k).pc \in Working \ {"store"}
    BY <1>2 DEF TaskState, Working, Deleting, Hooked
  <2> HIDE DEF done, more
  <2> QED BY <2>1, <2>2, <2>3
<1>9. GoesTo(c, u)
  BY <1>1, <1>2, <1>7, <1>8 DEF GoesTo, Longer, Await
<1>10. TasksTyped'
  BY <1>1, <1>7, <1>9, TaskStep
<1> QED BY <1>4, <1>5, <1>6, <1>10 DEF SessionInv

LEMMA NextGroupKeeps ==
  ASSUME SessionInv, NEW c \in Commits, NextGroup(c)
  PROVE  SessionInv'
<1> DEFINE t == task[c]
           n == t.round
<1>1. /\ RowsTyped /\ TasksTyped /\ RoundsTyped /\ BooksTyped
      /\ t.pc = "groups" /\ t.pc \in Working /\ running \subseteq {c}
  BY Zenon DEF SessionInv, NextGroup, At, Working, Persisting
<1>2. t \in TaskState /\ t.todo \subseteq Classes /\ t.round \in Nat /\ t.round <= Len(round)
      /\ t.round # 0 /\ t.at # 0 /\ t.at \in Nat /\ t.check \in BOOLEAN
  BY <1>1, TaskOf DEF TasksTyped
<1>3. UNCHANGED <<obj, db, entities, rounds, commitDepth, persistence, released>>
  BY Zenon DEF NextGroup
<1>4. RowsTyped' /\ rounds' = rounds
  BY <1>1, <1>3, RowsStay
<1>5. CASE t.todo = {}
  <2> DEFINE q == [round[n] EXCEPT !.committed = TRUE, !.inCommit = FALSE]
             at == t.at + 1
             u == [Idle EXCEPT !.pc = "rounds", !.at = at]
  <2>1. check' = t.check /\ Await(c, u)
        /\ round' = [round EXCEPT ![n].committed = TRUE, ![n].inCommit = FALSE]
    BY <1>5 DEF NextGroup
  <2>2. n \in 1 .. Len(round) /\ round[n] \in Round
    BY <1>1, WorkingOn
  <2>3. round' = [round EXCEPT ![n] = q] /\ q \in Round
    BY <1>1, <2>1, <2>2 DEF RoundsTyped, Round, RoundState
  <2>4. RoundsTyped' /\ Len(round') = Len(round)
    BY <1>1, <1>3, <2>2, <2>3, ReplaceRound DEF RoundsTyped
  <2>5. BooksTyped'
    BY <1>1, <1>2, <1>3, <2>1, BooksStay
  <2>6. Longer
    BY <1>1, <2>4, RoundOf DEF Longer
  <2>7. u \in TaskState /\ u.pc = "rounds" /\ u.round = 0 /\ u.at # 0
    <3>1. at \in Nat /\ at # 0
      BY <1>2
    <3> HIDE DEF at
    <3>2. Idle.round = 0
      BY DEF Idle
    <3> QED BY <3>1, <3>2, IdleTyped DEF TaskState
  <2>8. "rounds" \notin Working
    BY DEF Working, Deleting, Persisting, Writing
  <2>9. GoesTo(c, u)
    BY <1>1, <2>1, <2>6, <2>7, <2>8 DEF GoesTo, Longer, Await
  <2>10. TasksTyped'
    BY <1>1, <2>6, <2>9, TaskStep
  <2> QED BY <1>4, <2>4, <2>5, <2>10 DEF SessionInv
<1>6. CASE t.todo # {}
  <2>1. UNCHANGED session /\ check' \in BOOLEAN
    BY Zenon, <1>1, <1>3, <1>6 DEF NextGroup, session, BooksTyped
  <2>2. PICK k \in First(t) :
          LET items == OfClass(round[t.round].add, k)
              new == items \ known
              g == [t EXCEPT !.class = k, !.todo = @ \ {k},
                             !.changes = Writes({i \in items \cap known : obj[i] # snap[i]})]
          IN IF new = {} THEN Continue(c, AfterInserts(g))
             ELSE Await(c, [g EXCEPT !.pc = Hooked("insertPre", "insert"), !.inserts = Writes(new)])
    BY Zenon, <1>6 DEF NextGroup
  <2> DEFINE items == OfClass(round[t.round].add, k)
             new == items \ known
             changed == {i \in items \cap known : obj[i] # snap[i]}
             g == [t EXCEPT !.class = k, !.todo = @ \ {k}, !.changes = Writes(changed)]
             u == [g EXCEPT !.pc = Hooked("insertPre", "insert"), !.inserts = Writes(new)]
  <2>3. k \in t.todo
    BY DEF First
  <2>4. new \in SUBSET Items /\ changed \in SUBSET Items
    BY <1>1, WorkingOn DEF OfClass, Round, RoundState
  <2>5. Writes(changed) \in PartialRows /\ Writes(new) \in PartialRows
    BY <1>1, <2>4, WritesPartial
  <2>6. Continue(c, AfterInserts(g)) \/ Await(c, u)
    BY <2>2
  <2> HIDE DEF items, new, changed
  <2>7. g \in TaskState /\ g.round = t.round /\ g.at = t.at
    BY <1>2, <2>3, <2>5 DEF TaskState
  <2>8. u \in TaskState /\ u.round = t.round /\ u.at = t.at /\ u.pc # "store"
    BY <2>5, <2>7 DEF TaskState, Hooked, Working, Persisting, Writing
  <2> HIDE DEF g, u
  <2>9. PICK v \in TaskState : /\ v.round = t.round /\ v.at = t.at /\ (Go(c, v) \/ Await(c, v))
                               /\ v.pc = "store" => Go(c, v)
    BY <2>6, <2>7, <2>8, AfterInsertsTyped DEF Continue
  <2>10. RoundsTyped' /\ BooksTyped' /\ TasksTyped'
    BY <1>1, <2>1, <2>9, WorkGoesOn
  <2> QED BY <1>4, <2>10 DEF SessionInv
<1> QED BY <1>5, <1>6

(* Errors, stopped events, and the end of a commit that failed.            *)
LEMMA FailKeeps ==
  ASSUME SessionInv, NEW c \in Commits, Fail(c)
  PROVE  SessionInv'
<1> DEFINE t == task[c]
           n == t.round
           u == [Idle EXCEPT !.pc = "thrown"]
           q == [round[n] EXCEPT !.inCommit = FALSE]
<1>1. /\ RowsTyped /\ TasksTyped /\ RoundsTyped /\ BooksTyped
      /\ t.pc \in Working /\ running \subseteq {c}
  BY DEF SessionInv, Fail, Throw, Working, Deleting, Persisting, Writing
<1>2. /\ UNCHANGED <<obj, db, entities, rounds, commitDepth, persistence, released>>
      /\ round' = [round EXCEPT ![n].inCommit = FALSE] /\ check' = CheckAfter(t)
      /\ Await(c, u)
  BY DEF Fail, Throw
<1>3. RowsTyped'
  BY <1>1, <1>2, RowsStay
<1>4. n \in 1 .. Len(round) /\ round[n] \in Round
  BY <1>1, WorkingOn
<1>5. round' = [round EXCEPT ![n] = q] /\ q \in Round
  BY <1>1, <1>2, <1>4 DEF RoundsTyped, Round, RoundState
<1>6. RoundsTyped' /\ Len(round') = Len(round)
  BY <1>1, <1>2, <1>4, <1>5, ReplaceRound DEF RoundsTyped
<1>7. check' \in BOOLEAN
  <2>1. check \in BOOLEAN /\ t.check \in BOOLEAN
    BY <1>1, TaskOf DEF BooksTyped
  <2> QED BY <1>2, <2>1 DEF CheckAfter
<1>8. BooksTyped'
  BY <1>1, <1>2, <1>7, BooksStay
<1>9. Longer
  BY <1>1, <1>6, RoundOf DEF Longer
<1>10. u \in TaskState /\ u.pc = "thrown" /\ u.round = 0
  BY IdleTyped DEF TaskState, Idle
<1>11. "thrown" \notin Working
  BY DEF Working, Deleting, Persisting, Writing
<1>12. GoesTo(c, u)
  BY <1>1, <1>2, <1>9, <1>10, <1>11 DEF GoesTo, Longer, Await
<1>13. TasksTyped'
  BY <1>1, <1>9, <1>12, TaskStep
<1> QED BY <1>3, <1>6, <1>8, <1>13 DEF SessionInv

LEMMA StopKeeps ==
  ASSUME SessionInv, NEW c \in Commits, Stop(c)
  PROVE  SessionInv'
<1> DEFINE t == task[c]
           stored == [t EXCEPT !.pc = "store"]
<1>1. RowsTyped /\ TasksTyped /\ RoundsTyped /\ check \in BOOLEAN /\ running \subseteq {c}
  BY DEF SessionInv, BooksTyped, Stop
<1>2. RowsTyped' /\ UNCHANGED session /\ check' \in BOOLEAN
  BY <1>1, RowsStay DEF Stop
<1>3. t \in TaskState
  BY <1>1, TaskOf
<1>4. CASE t.pc = "commitPre" /\ Await(c, Idle)
  <2>1. Idle.pc = "idle" /\ Idle.round = 0 /\ Len(round) \in Nat /\ "idle" \notin Working
    BY <1>1, RoundOf DEF Idle, Working, Deleting, Persisting, Writing
  <2>2. RoundsTyped' /\ BooksTyped' /\ TasksTyped'
    <3> HIDE DEF Idle
    <3> QED BY <1>1, <1>2, <1>4, <2>1, IdleTyped, CallGoesOn
  <2> QED BY <1>2, <2>2 DEF SessionInv
<1>5. CASE t.pc \in {"insertPre", "updatePre"}
             /\ (Continue(c, AfterInserts(t)) \/ Go(c, stored))
  <2>1. t.pc \in Working
    BY <1>5 DEF Working, Persisting, Writing
  <2>2. stored \in TaskState /\ stored.round = t.round /\ stored.at = t.at
    BY <1>3 DEF TaskState, Working, Persisting, Writing
  <2>3. PICK v \in TaskState : /\ v.round = t.round /\ v.at = t.at /\ (Go(c, v) \/ Await(c, v))
                               /\ v.pc = "store" => Go(c, v)
    <3> HIDE DEF stored
    <3>1. CASE Go(c, stored)
      BY <2>2, <3>1
    <3>2. CASE Continue(c, AfterInserts(t))
      BY <1>3, <3>2, AfterInsertsTyped DEF Continue
    <3> QED BY <1>5, <3>1, <3>2
  <2>4. RoundsTyped' /\ BooksTyped' /\ TasksTyped'
    BY <1>1, <1>2, <2>1, <2>3, WorkGoesOn
  <2> QED BY <1>2, <2>4 DEF SessionInv
<1> QED BY <1>4, <1>5 DEF Stop

LEMMA CaughtKeeps ==
  ASSUME SessionInv, NEW c \in Commits, Caught(c)
  PROVE  SessionInv'
<1>1. RowsTyped /\ TasksTyped /\ RoundsTyped /\ BooksTyped /\ running \subseteq {c}
  BY DEF SessionInv, Caught, At
<1>2. RowsTyped' /\ RoundsTyped' /\ Longer
  BY <1>1, RowsStay, NoRounds, RoundOf DEF Caught, Longer
<1>3. BooksTyped'
  BY <1>1, ReleaseKeeps DEF Caught, BooksTyped
<1>4. Idle.pc = "idle" /\ Idle.round = 0 /\ "idle" \notin Working
  BY DEF Idle, Working, Deleting, Persisting, Writing
<1>5. GoesTo(c, Idle)
  <2> HIDE DEF Idle
  <2> QED BY <1>1, <1>2, <1>4, IdleTyped DEF GoesTo, Longer, Caught, Await
<1>6. TasksTyped'
  BY <1>1, <1>2, <1>5, TaskStep
<1> QED BY <1>2, <1>3, <1>6 DEF SessionInv

LEMMA SessionStep == SessionInv /\ [Next]_vars => SessionInv'
<1> SUFFICES ASSUME SessionInv, [Next]_vars PROVE SessionInv'
  OBVIOUS
<1>1. CASE UNCHANGED vars
  <2>1. UNCHANGED <<obj, db, entities, round, session, check, task, running>>
    BY <1>1 DEF vars, session
  <2>2. check' \in BOOLEAN /\ Longer
    BY <2>1, RoundOf DEF SessionInv, BooksTyped, Longer
  <2> QED BY <2>1, <2>2, RowsStay, SessionStays, TasksWait DEF SessionInv
<1>2. CASE Reset
  BY <1>2, ResetKeeps
<1>3. CASE \E i \in Items : Change(i) \/ Add(i) \/ Remove(i)
  BY <1>3, EditsKeep
<1>4. ASSUME NEW c \in Commits,
             \/ Commit(c) \/ CommitPre(c) \/ NextRound(c)
             \/ NextDelete(c) \/ DeletePre(c) \/ DeleteDone(c) \/ DeletePost(c)
             \/ BeginPersist(c) \/ NextGroup(c)
             \/ InsertPre(c) \/ InsertDone(c) \/ InsertPost(c)
             \/ UpdatePre(c) \/ UpdateDone(c) \/ UpdatePost(c)
             \/ StoreMany(c) \/ Stop(c) \/ Fail(c) \/ Caught(c)
      PROVE  SessionInv'
  BY <1>4, CommitKeeps, HooksKeep, NextRoundKeeps, NextDeleteKeeps, WorkKeeps, NextGroupKeeps, StopKeeps,
     FailKeeps, CaughtKeeps
<1> QED BY <1>1, <1>2, <1>3, <1>4 DEF Next

LEMMA InvIsTypeOK == SessionInv => TypeOK
<1> SUFFICES ASSUME SessionInv PROVE TypeOK
  OBVIOUS
<1>1. RowsTyped /\ TasksTyped /\ RoundsTyped /\ BooksTyped
  BY DEF SessionInv
<1>2. \A n \in DOMAIN round : round[n] \in RoundState /\ round[n].add \cap round[n].remove = {}
  BY <1>1, RoundOf DEF Round
<1>3. \A k \in DOMAIN rounds : rounds[k] \in DOMAIN round
  BY <1>1, RoundOf
<1>4. /\ commitDepth \in Int /\ persistence \in Nat /\ check \in BOOLEAN
      /\ released \subseteq Nat /\ persistence \notin released
  BY <1>1 DEF BooksTyped
<1>5. \A c \in Commits : /\ task[c].inserts \in PartialRows /\ task[c].changes \in PartialRows
                         /\ task[c].todo \subseteq Classes /\ task[c].round \in 0 .. Len(round)
  BY <1>1, RoundOf, TaskOf
<1>6. running \subseteq Commits /\ Cardinality(running) <= 1
  <2>1. Cardinality({}) = 0 /\ \A x : Cardinality({x}) = 1
    BY FS_EmptySet, FS_Singleton
  <2>2. CASE running = {}
    <3>1. Cardinality(running) = 0
      BY <2>1, <2>2
    <3> QED BY <2>2, <3>1
  <2>3. CASE \E c \in Commits : running = {c}
    <3>1. Cardinality(running) = 1
      BY <2>1, <2>3
    <3> QED BY <2>3, <3>1
  <2> QED BY <1>1, <2>2, <2>3 DEF TasksTyped
<1> QED BY <1>1, <1>2, <1>3, <1>4, <1>5, <1>6 DEF TypeOK, RowsTyped

(***************************************************************************)
(* A session is well-formed whatever overlaps: an item waits in one queue  *)
(* of a round, a call works on a round there is, the persistence of the    *)
(* session was not released (getCurrentPersistence(), reset(), commit()).  *)
(***************************************************************************)
THEOREM SessionInvariance == Spec => []SessionInv
<1>1. Init => SessionInv
  BY SessionStart
<1> QED BY <1>1, SessionStep, PTL DEF Spec

(* The rounds, queues, snapshots and every task of commit() keep their      *)
(* shape, however many calls of commit() overlap: what a task works on is   *)
(* a round that exists, and every row it writes is one it took before.      *)
THEOREM SessionTyped == Spec => []TypeOK
BY SessionInvariance, InvIsTypeOK, PTL
-----------------------------------------------------------------------------
(* Where the only call goes, and what it takes with it.                    *)
Moves(c, pcs) ==
  /\ task'[c].pc \in pcs /\ task'[c].round = task[c].round /\ (task'[c].check <=> task[c].check)
Carries(c) ==
  task'[c].inserts = task[c].inserts /\ task'[c].changes = task[c].changes

LEMMA HooksMove ==
  ASSUME SessionInv, NEW c \in Commits
  PROVE  /\ CommitPre(c) => Moves(c, {"rounds"}) /\ Carries(c)
         /\ NextDelete(c) => Moves(c, {"persist", "deletePre", "delete"}) /\ Carries(c)
         /\ DeletePre(c) => Moves(c, {"persist", "delete"}) /\ Carries(c)
         /\ DeleteDone(c) => Moves(c, {"deletePost", "deletes"}) /\ Carries(c)
         /\ DeletePost(c) => Moves(c, {"deletes"}) /\ Carries(c)
         /\ UpdatePre(c) => Moves(c, {"update"}) /\ Carries(c) /\ task'[c].class = task[c].class
         /\ UpdateDone(c) => Moves(c, {"updatePost", "store"}) /\ Carries(c) /\ task'[c].class = task[c].class
         /\ UpdatePost(c) => Moves(c, {"store"}) /\ Carries(c) /\ task'[c].class = task[c].class
<1> DEFINE t == task[c]
<1>1. task \in [Commits -> TaskState] /\ t \in TaskState
  BY DEF SessionInv, TasksTyped
<1>2. \A u : Go(c, u) \/ Await(c, u) => task'[c] = u
  BY <1>1 DEF Go, Await
<1>3. ASSUME CommitPre(c) PROVE Moves(c, {"rounds"}) /\ Carries(c)
  BY <1>1, <1>2, <1>3 DEF CommitPre, Moves, Carries, TaskState
<1>4. ASSUME NextDelete(c) PROVE Moves(c, {"persist", "deletePre", "delete"}) /\ Carries(c)
  <2>1. \/ task'[c] = [t EXCEPT !.pc = "persist", !.class = "none"]
        \/ \E k : task'[c] = [t EXCEPT !.pc = Hooked("deletePre", "delete"), !.class = k, !.todo = @ \ {k}]
    BY Zenon, <1>2, <1>4 DEF NextDelete
  <2>2. CASE task'[c] = [t EXCEPT !.pc = "persist", !.class = "none"]
    BY <1>1, <2>2 DEF Moves, Carries, TaskState
  <2>3. ASSUME NEW pc \in {"deletePre", "delete"}, NEW k, NEW todo,
               task'[c] = [t EXCEPT !.pc = pc, !.class = k, !.todo = todo]
        PROVE  Moves(c, {"persist", "deletePre", "delete"}) /\ Carries(c)
    BY <1>1, <2>3 DEF Moves, Carries, TaskState
  <2> QED BY <2>1, <2>2, <2>3 DEF Hooked
<1>5. ASSUME DeletePre(c) PROVE Moves(c, {"persist", "delete"}) /\ Carries(c)
  BY <1>1, <1>2, <1>5 DEF DeletePre, Moves, Carries, TaskState
<1>6. ASSUME DeleteDone(c) PROVE Moves(c, {"deletePost", "deletes"}) /\ Carries(c)
  BY <1>1, <1>2, <1>6 DEF DeleteDone, Moves, Carries, TaskState
<1>7. ASSUME DeletePost(c) PROVE Moves(c, {"deletes"}) /\ Carries(c)
  BY <1>1, <1>2, <1>7 DEF DeletePost, Moves, Carries, TaskState
<1>8. ASSUME UpdatePre(c) PROVE Moves(c, {"update"}) /\ Carries(c) /\ task'[c].class = task[c].class
  BY <1>1, <1>2, <1>8 DEF UpdatePre, Moves, Carries, TaskState
<1>9. ASSUME UpdateDone(c)
      PROVE  Moves(c, {"updatePost", "store"}) /\ Carries(c) /\ task'[c].class = task[c].class
  BY <1>1, <1>2, <1>9 DEF UpdateDone, Moves, Carries, TaskState
<1>10. ASSUME UpdatePost(c) PROVE Moves(c, {"store"}) /\ Carries(c) /\ task'[c].class = task[c].class
  BY <1>1, <1>2, <1>10 DEF UpdatePost, Moves, Carries, TaskState
<1> QED BY <1>3, <1>4, <1>5, <1>6, <1>7, <1>8, <1>9, <1>10

(* After its inserts a group has no updates to write if it is stored at    *)
(* once.                                                                   *)
LEMMA InsertsMove ==
  ASSUME SessionInv, NEW c \in Commits
  PROVE  /\ InsertPre(c) => /\ Moves(c, {"insert"}) /\ task'[c].class = task[c].class
                            /\ task'[c].changes = task[c].changes
                            /\ task'[c].inserts = Writes(DOMAIN task[c].inserts)
         /\ InsertDone(c) \/ InsertPost(c) =>
              /\ Moves(c, {"insertPost", "updatePre", "update", "store"})
              /\ Carries(c) /\ task'[c].class = task[c].class
              /\ task'[c].pc = "store" => task[c].changes = NoWrites
<1> DEFINE t == task[c]
<1>1. task \in [Commits -> TaskState] /\ t \in TaskState
  BY DEF SessionInv, TasksTyped
<1>2. \A u : Go(c, u) \/ Await(c, u) \/ Continue(c, u) => task'[c] = u
  BY <1>1 DEF Go, Await, Continue
<1>3. ASSUME InsertPre(c)
      PROVE  /\ Moves(c, {"insert"}) /\ task'[c].class = task[c].class
             /\ task'[c].changes = task[c].changes /\ task'[c].inserts = Writes(DOMAIN task[c].inserts)
  BY <1>1, <1>2, <1>3 DEF InsertPre, Moves, TaskState
<1>4. ASSUME InsertDone(c) \/ InsertPost(c)
      PROVE  /\ Moves(c, {"insertPost", "updatePre", "update", "store"})
             /\ Carries(c) /\ task'[c].class = task[c].class
             /\ task'[c].pc = "store" => task[c].changes = NoWrites
  <2>1. CASE task'[c] = [t EXCEPT !.pc = "insertPost"]
    BY <1>1, <2>1 DEF Moves, Carries, TaskState
  <2>2. CASE task'[c] = AfterInserts(t)
    BY <1>1, <2>2, AfterInsertsTyped DEF Moves, Carries
  <2> QED BY <1>2, <1>4, <2>1, <2>2 DEF InsertDone, InsertPost
<1> QED BY <1>3, <1>4

LEMMA OthersMove ==
  ASSUME SessionInv, NEW c \in Commits
  PROVE  /\ BeginPersist(c) => /\ task'[c].pc = "groups" /\ task'[c].round = task[c].round
                               /\ (task'[c].check <=> check) /\ Carries(c)
         /\ StoreMany(c) => Moves(c, {"groups"}) /\ task'[c].inserts = NoWrites
         /\ Fail(c) => task'[c].pc = "thrown" /\ task'[c].inserts = NoWrites
         /\ Caught(c) => task'[c].pc = "idle" /\ task'[c].inserts = NoWrites
<1> DEFINE t == task[c]
<1>1. task \in [Commits -> TaskState] /\ t \in TaskState
  BY DEF SessionInv, TasksTyped
<1>2. \A u : Go(c, u) \/ Await(c, u) => task'[c] = u
  BY <1>1 DEF Go, Await
<1>3. ASSUME BeginPersist(c)
      PROVE  /\ task'[c].pc = "groups" /\ task'[c].round = task[c].round
             /\ (task'[c].check <=> check) /\ Carries(c)
  BY <1>1, <1>2, <1>3 DEF BeginPersist, Carries, TaskState
<1>4. ASSUME StoreMany(c) PROVE Moves(c, {"groups"}) /\ task'[c].inserts = NoWrites
  BY <1>1, <1>2, <1>4 DEF StoreMany, Moves, TaskState
<1>5. Idle.inserts = NoWrites /\ Idle.pc = "idle" /\ Idle \in TaskState
  BY IdleTyped DEF Idle
<1>6. Fail(c) => task'[c].pc = "thrown" /\ task'[c].inserts = NoWrites
  <2> HIDE DEF Idle
  <2> QED BY <1>2, <1>5 DEF Fail, Throw, TaskState
<1>7. Caught(c) => task'[c].pc = "idle" /\ task'[c].inserts = NoWrites
  <2> HIDE DEF Idle
  <2> QED BY <1>2, <1>5 DEF Caught
<1> QED BY <1>3, <1>4, <1>6, <1>7

(* The only call is all there is to be tidy about.                         *)
LEMMA OnlyCall ==
  ASSUME OneCaller, NEW c \in Commits
  PROVE  /\ Tidy <=> (~ meddled => TidyAt(task[c]))
         /\ Tidy' <=> (~ meddled' => TidyAt(task[c])')
BY DEF OneCaller, Tidy

LEMMA TidyStays ==
  ASSUME SessionInv, OneCaller, Tidy, Grown, ~ meddled,
         UNCHANGED <<commitDepth, persistence, check, task>>
  PROVE  Tidy'
<1> SUFFICES ASSUME NEW c \in Commits PROVE TidyAt(task[c])'
  BY DEF Tidy
<1>1. TidyAt(task[c])
  BY DEF Tidy
<1>2. task[c].pc \in Working => task[c].round \in 1 .. Len(round)
  BY WorkingOn DEF SessionInv
<1>3. \A n \in 1 .. Len(round') : round'[n].inCommit <=> task[c].pc \in Working /\ n = task[c].round
  BY <1>1, <1>2 DEF TidyAt, Grown
<1> QED BY <1>1, <1>3 DEF TidyAt

(* A call that works on a round goes on with it.                           *)
LEMMA TidyWork ==
  ASSUME SessionInv, OneCaller, Tidy, Grown, ~ meddled, NEW c \in Commits,
         task[c].pc \in Working, task'[c].pc \in Working, task'[c].round = task[c].round,
         UNCHANGED <<commitDepth, persistence>>,
         check' <=> task'[c].pc \in Persisting, task'[c].pc \in Persisting => ~ task'[c].check
  PROVE  Tidy'
<1>1. TidyAt(task[c])
  BY DEF Tidy
<1>2. task[c].round \in 1 .. Len(round)
  BY WorkingOn DEF SessionInv
<1>3. \A n \in 1 .. Len(round') : round'[n].inCommit <=> task'[c].pc \in Working /\ n = task'[c].round
  BY <1>1, <1>2 DEF TidyAt, Grown
<1>4. commitDepth' = 1 /\ task'[c].pc # "idle"
  BY <1>1 DEF TidyAt, Working, Deleting, Persisting, Writing
<1> QED BY <1>3, <1>4, OnlyCall DEF TidyAt

LEMMA SameRounds == SessionInv /\ round' = round => Grown
BY RoundOf DEF SessionInv, Grown

LEMMA WorkTidy ==
  ASSUME SessionInv, OneCaller, Tidy, ~ meddled, NEW c \in Commits,
         \/ NextDelete(c) \/ DeletePre(c) \/ DeleteDone(c) \/ DeletePost(c) \/ BeginPersist(c)
         \/ InsertPre(c) \/ InsertDone(c) \/ InsertPost(c)
         \/ UpdatePre(c) \/ UpdateDone(c) \/ UpdatePost(c) \/ StoreMany(c)
  PROVE  Tidy'
<1>1. TidyAt(task[c])
  BY DEF Tidy
<1>2. Grown
  BY NextDeleteKeeps, SameRounds
     DEF session, DeletePre, DeleteDone, DeletePost, BeginPersist, InsertPre, InsertDone, InsertPost,
         UpdatePre, UpdateDone, UpdatePost, StoreMany
<1>3. UNCHANGED <<commitDepth, persistence>>
  BY Zenon DEF session, NextDelete, DeletePre, DeleteDone, DeletePost, BeginPersist, InsertPre, InsertDone, InsertPost,
         UpdatePre, UpdateDone, UpdatePost, StoreMany
<1>4. CASE NextDelete(c) \/ DeletePre(c) \/ DeleteDone(c) \/ DeletePost(c)
  <2>1. /\ task[c].pc \in Deleting /\ task'[c].pc \in Deleting \cup {"persist"}
        /\ task'[c].round = task[c].round /\ check' = check
    BY Zenon, <1>4, HooksMove DEF NextDelete, DeletePre, DeleteDone, DeletePost, At, Moves, Deleting
  <2>2. Deleting \cup {"persist"} \subseteq Working \ Persisting
    BY DEF Working, Deleting, Persisting, Writing
  <2>3. ~ check
    BY <1>1, <2>1, <2>2 DEF TidyAt
  <2> QED BY <1>2, <1>3, <2>1, <2>2, <2>3, TidyWork
<1>5. CASE BeginPersist(c)
  <2>1. /\ task[c].pc = "persist" /\ task'[c].pc = "groups" /\ task'[c].round = task[c].round
        /\ (task'[c].check <=> check) /\ check' = TRUE
    BY <1>5, OthersMove DEF BeginPersist, At
  <2>2. "persist" \in Working \ Persisting /\ "groups" \in Working \cap Persisting
    BY DEF Working, Deleting, Persisting, Writing
  <2>3. ~ task'[c].check
    BY <1>1, <2>1, <2>2 DEF TidyAt
  <2> QED BY <1>2, <1>3, <2>1, <2>2, <2>3, TidyWork
<1>6. CASE \/ InsertPre(c) \/ InsertDone(c) \/ InsertPost(c)
           \/ UpdatePre(c) \/ UpdateDone(c) \/ UpdatePost(c) \/ StoreMany(c)
  <2>1. /\ task[c].pc \in Persisting /\ task'[c].pc \in Persisting
        /\ task'[c].round = task[c].round /\ (task'[c].check <=> task[c].check) /\ check' = check
    BY Zenon, <1>6, HooksMove, InsertsMove, OthersMove
       DEF InsertPre, InsertDone, InsertPost, UpdatePre, UpdateDone, UpdatePost, StoreMany, At, Moves,
           Persisting, Writing
  <2>2. Persisting \subseteq Working
    BY DEF Working
  <2> QED BY <1>1, <1>2, <1>3, <2>1, <2>2, TidyWork DEF TidyAt
<1> QED BY <1>4, <1>5, <1>6

(* A tidy session refuses no commit(): its rounds are not in commit.       *)
LEMMA CommitTidy ==
  ASSUME SessionInv, OneCaller, Tidy, ~ meddled, NEW c \in Commits, Commit(c)
  PROVE  Tidy' /\ task'[c].pc \in {"commitPre", "rounds"} /\ task'[c].inserts = NoWrites
<1>1. TidyAt(task[c]) /\ task[c].pc = "idle" /\ RoundsTyped /\ TasksTyped
  BY DEF Tidy, Commit, SessionInv
<1>2. "idle" \notin Working /\ "idle" \notin Persisting
  BY DEF Working, Deleting, Persisting, Writing
<1>3. \A n \in 1 .. Len(round) : ~ round[n].inCommit
  BY <1>1, <1>2 DEF TidyAt
<1>4. Grown
  BY CommitRounds
<1>5. \A n \in 1 .. Len(round') : ~ round'[n].inCommit
  BY <1>3, <1>4 DEF Grown
<1>6. /\ commitDepth' = commitDepth + 1 /\ check' = check
      /\ \/ Await(c, [Idle EXCEPT !.pc = "commitPre", !.at = 1])
         \/ Go(c, [Idle EXCEPT !.pc = "rounds", !.at = 1])
  <2> DEFINE none == rounds = <<>>
             made == IF none THEN Append(round, NewRound) ELSE round
             list == IF none THEN <<Len(made)>> ELSE rounds
             current == list[Len(list)]
  <2>1. ~ made[current].inCommit
    <3>1. CASE none
      <4>1. made[Len(made)] = NewRound /\ current = Len(made)
        BY <1>1, <3>1 DEF RoundsTyped
      <4> QED BY <4>1 DEF NewRound
    <3>2. CASE ~ none
      <4>1. Len(rounds) \in 1 .. Len(rounds)
        BY <1>1, <3>2 DEF RoundsTyped
      <4>2. current \in 1 .. Len(round) /\ made = round
        BY <1>1, <3>2, <4>1, RoundOf
      <4> QED BY <1>3, <4>2
    <3> QED BY <3>1, <3>2
  <2> HIDE DEF made, current
  <2> QED BY <2>1 DEF Commit, made, current
<1>7. task'[c].pc \in {"commitPre", "rounds"} /\ task'[c].inserts = NoWrites
  <2>1. Idle.inserts = NoWrites /\ Idle \in TaskState
    BY IdleTyped DEF Idle
  <2>2. task'[c] = [Idle EXCEPT !.pc = "commitPre", !.at = 1] \/ task'[c] = [Idle EXCEPT !.pc = "rounds", !.at = 1]
    BY <1>1, <1>6 DEF Await, Go, TasksTyped
  <2> HIDE DEF Idle
  <2> QED BY <2>1, <2>2 DEF TaskState
<1>8. task'[c].pc \notin Working /\ task'[c].pc \notin Persisting /\ task'[c].pc # "idle"
  BY <1>7 DEF Working, Deleting, Persisting, Writing
<1>9. commitDepth' = 1 /\ ~ check'
  BY <1>1, <1>2, <1>6 DEF TidyAt
<1>10. TidyAt(task[c])'
  BY <1>5, <1>8, <1>9 DEF TidyAt
<1> QED BY <1>7, <1>10, OnlyCall

LEMMA CommitPreTidy ==
  ASSUME SessionInv, OneCaller, Tidy, ~ meddled, NEW c \in Commits, CommitPre(c)
  PROVE  Tidy'
<1>1. TidyAt(task[c]) /\ task[c].pc = "commitPre" /\ task'[c].pc = "rounds"
  BY HooksMove DEF Tidy, CommitPre, At, Moves
<1>2. UNCHANGED <<commitDepth, persistence, round, check>>
  BY DEF CommitPre, session
<1>3. {"commitPre", "rounds"} \cap (Working \cup Persisting) = {}
  BY DEF Working, Deleting, Persisting, Writing
<1>4. TidyAt(task[c])'
  BY <1>1, <1>2, <1>3 DEF TidyAt
<1> QED BY <1>4, OnlyCall

LEMMA NextRoundTidy ==
  ASSUME SessionInv, OneCaller, Tidy, ~ meddled, NEW c \in Commits, NextRound(c)
  PROVE  /\ Tidy' /\ task'[c].pc \notin Writing
         /\ task'[c].inserts = task[c].inserts \/ task'[c].inserts = NoWrites
<1> DEFINE t == task[c]
           n == rounds[t.at]
<1>1. /\ TidyAt(t) /\ t.pc = "rounds" /\ RoundsTyped /\ task \in [Commits -> TaskState] /\ t \in TaskState
      /\ t.at \in Nat /\ t.at # 0
  BY TaskOf DEF Tidy, NextRound, At, SessionInv, TasksTyped
<1>2. {"idle", "rounds"} \cap (Working \cup Persisting) = {} /\ Writing \subseteq Working
      /\ "deletes" \in Working \ Persisting /\ "deletes" \notin Writing
  BY DEF Working, Deleting, Persisting, Writing
<1>3. (\A m \in 1 .. Len(round) : ~ round[m].inCommit) /\ commitDepth = 1 /\ ~ check
  BY <1>1, <1>2 DEF TidyAt
<1>4. CASE t.at > Len(rounds)
  <2>1. Return(c)
    BY Zenon, <1>4 DEF NextRound
  <2>2. Idle.pc = "idle" /\ Idle.inserts = NoWrites
    BY DEF Idle
  <2>3. task'[c] = Idle /\ commitDepth' = 0 /\ persistence' = 0 /\ UNCHANGED <<round, check>>
    BY <1>1, <1>3, <2>1 DEF Return, Await
  <2>4. TidyAt(task[c])'
    BY <1>2, <1>3, <2>2, <2>3 DEF TidyAt
  <2> QED BY <1>2, <2>2, <2>3, <2>4, OnlyCall
<1>5. CASE ~ (t.at > Len(rounds))
  <2> DEFINE next == [t EXCEPT !.at = @ + 1]
             begun == [t EXCEPT !.pc = "deletes", !.round = n, !.persist = persistence,
                                !.todo = {Class[i] : i \in round[n].remove}]
  <2>1. /\ \/ (Go(c, next) \/ Await(c, next)) /\ UNCHANGED round
           \/ round' = [round EXCEPT ![n].inCommit = TRUE] /\ Go(c, begun)
        /\ UNCHANGED <<commitDepth, persistence, check>>
    BY Zenon, <1>5 DEF NextRound
  <2>2. CASE (Go(c, next) \/ Await(c, next)) /\ UNCHANGED round
    <3>1. task'[c].pc = "rounds" /\ task'[c].inserts = t.inserts
      BY <1>1, <2>2 DEF Go, Await, TaskState
    <3>2. TidyAt(task[c])'
      BY <1>1, <1>2, <1>3, <2>1, <2>2, <3>1 DEF TidyAt
    <3> QED BY <1>2, <3>1, <3>2, OnlyCall
  <2>3. CASE round' = [round EXCEPT ![n].inCommit = TRUE] /\ Go(c, begun)
    <3>1. task'[c].pc = "deletes" /\ task'[c].inserts = t.inserts /\ task'[c].round = n
      BY <1>1, <2>3 DEF Go, TaskState
    <3>2. n \in 1 .. Len(round)
      <4>1. Len(rounds) \in Nat
        BY <1>1, RoundOf
      <4>2. t.at \in 1 .. Len(rounds)
        BY <1>1, <1>5, <4>1
      <4> QED BY <1>1, <4>2, RoundOf
    <3> HIDE DEF n
    <3>3. Len(round') = Len(round) /\ \A m \in 1 .. Len(round) : round'[m].inCommit <=> m = n
      <4>1. DOMAIN round = 1 .. Len(round) /\ round[n] \in RoundState
        BY <1>1, <3>2, RoundOf DEF Round
      <4>2. Len(round') = Len(round) /\ round'[n].inCommit = TRUE
        BY <1>1, <2>3, <3>2, <4>1 DEF RoundsTyped, RoundState
      <4>3. \A m \in 1 .. Len(round) : m # n => round'[m] = round[m]
        BY <2>3, <4>1
      <4> QED BY <1>3, <4>2, <4>3
    <3>4. TidyAt(task[c])'
      BY <1>2, <1>3, <2>1, <3>1, <3>3 DEF TidyAt
    <3> QED BY <1>2, <3>1, <3>4, OnlyCall
  <2> QED BY <2>1, <2>2, <2>3
<1> QED BY <1>4, <1>5

(* The next group: what is taken of it is what its entities hold.          *)
LEMMA NextGroupMoves ==
  ASSUME SessionInv, NEW c \in Commits, NextGroup(c), task[c].todo # {}
  PROVE  LET u == task'[c] IN
         /\ u.round = task[c].round /\ (u.check <=> task[c].check) /\ u.pc \in Writing \ {"insertPost", "updatePost"}
         /\ task[c].inserts = NoWrites =>
              Taken(u) /\ (u.pc \notin {"insertPre", "insert"} => DOMAIN u.inserts = {})
         /\ u.pc = "store" => DOMAIN u.changes = {}
         /\ UNCHANGED <<round, check, commitDepth, persistence>>
<1> DEFINE t == task[c]
<1>1. /\ RowsTyped /\ TasksTyped /\ RoundsTyped
      /\ t.pc = "groups" /\ t.pc \in Working
  BY Zenon DEF SessionInv, NextGroup, At, Working, Persisting
<1>2. t \in TaskState /\ task \in [Commits -> TaskState]
  BY <1>1, TaskOf DEF TasksTyped
<1>3. PICK k \in First(t) :
        LET items == OfClass(round[t.round].add, k)
            new == items \ known
            g == [t EXCEPT !.class = k, !.todo = @ \ {k},
                           !.changes = Writes({i \in items \cap known : obj[i] # snap[i]})]
        IN IF new = {} THEN Continue(c, AfterInserts(g))
           ELSE Await(c, [g EXCEPT !.pc = Hooked("insertPre", "insert"), !.inserts = Writes(new)])
  BY Zenon DEF NextGroup
<1> DEFINE items == OfClass(round[t.round].add, k)
           new == items \ known
           changed == {i \in items \cap known : obj[i] # snap[i]}
           g == [t EXCEPT !.class = k, !.todo = @ \ {k}, !.changes = Writes(changed)]
           v == [g EXCEPT !.pc = Hooked("insertPre", "insert"), !.inserts = Writes(new)]
           u == task'[c]
<1>4. k \in t.todo
  BY DEF First
<1>5. new \in SUBSET Items /\ changed \in SUBSET Items
  BY <1>1, WorkingOn DEF OfClass, Round, RoundState
<1>6. /\ Writes(changed) \in PartialRows /\ DOMAIN Writes(changed) = changed
      /\ Writes(new) \in PartialRows /\ DOMAIN Writes(new) = new
      /\ \A i \in changed : Writes(changed)[i] = obj[i]
      /\ \A i \in new : Writes(new)[i] = obj[i]
  BY <1>1, <1>5, WritesPartial
<1>7. IF new = {} THEN u = AfterInserts(g) ELSE u = v
  BY <1>2, <1>3 DEF Continue, Go, Await
<1>8. UNCHANGED <<round, check, commitDepth, persistence>>
  BY Zenon DEF NextGroup
<1>9. items = OfClass(round[t.round].add, k)
  OBVIOUS
<1>10. new = items \ known /\ changed \subseteq items \cap known
       /\ \A i \in items \cap known : i \in changed <=> obj[i] # snap[i]
  OBVIOUS
<1> HIDE DEF items, new, changed
<1>11. /\ g \in TaskState /\ g.round = t.round /\ g.class = k /\ g.changes = Writes(changed)
       /\ g.inserts = t.inserts /\ (g.check <=> t.check)
  <2>1. t.todo \ {k} \in SUBSET Classes /\ k \in Classes
    BY <1>2, <1>4 DEF TaskState
  <2> QED BY <1>2, <1>6, <2>1 DEF TaskState
<1>12. /\ u.round = t.round /\ u.class = k /\ u.changes = Writes(changed) /\ (u.check <=> t.check)
       /\ u.inserts = IF new = {} THEN t.inserts ELSE Writes(new)
       /\ u.pc \in IF new = {} THEN {"store", "updatePre", "update"} ELSE {"insertPre", "insert"}
       /\ u.pc = "store" => Writes(changed) = NoWrites
  <2>1. CASE new = {}
    <3> HIDE DEF g
    <3> QED BY <1>7, <1>11, <2>1, AfterInsertsTyped
  <2>2. CASE new # {}
    <3> HIDE DEF g
    <3>1. v \in TaskState /\ v.round = g.round /\ v.class = g.class /\ v.changes = g.changes
          /\ v.inserts = Writes(new) /\ (v.check <=> g.check) /\ v.pc \in {"insertPre", "insert"}
      BY <1>6, <1>11 DEF TaskState, Hooked, Working, Persisting, Writing
    <3> HIDE DEF v
    <3> QED BY <1>7, <1>11, <2>2, <3>1
  <2> QED BY <2>1, <2>2
<1> HIDE DEF u
<1>13. t.inserts = NoWrites => DOMAIN u.inserts = new /\ \A i \in new : u.inserts[i] = obj[i]
  BY <1>6, <1>12, NoWritesPartial
<1>14. Adding(u) = items
  BY <1>9, <1>12 DEF Adding
<1>15. ASSUME t.inserts = NoWrites
       PROVE  Taken(u)
  <2>1. DOMAIN u.inserts = new /\ \A i \in new : u.inserts[i] = obj[i]
    BY <1>13, <1>15
  <2>2. DOMAIN u.changes = changed /\ \A i \in changed : u.changes[i] = obj[i]
    BY <1>6, <1>12
  <2> QED BY <1>10, <1>14, <2>1, <2>2 DEF Taken
<1>16. u.pc \in Writing \ {"insertPost", "updatePost"}
  BY <1>12 DEF Writing
<1>17. t.inserts = NoWrites /\ u.pc \notin {"insertPre", "insert"} => DOMAIN u.inserts = {}
  BY <1>12, <1>13
<1>18. u.pc = "store" => DOMAIN u.changes = {}
  BY <1>12, NoWritesPartial
<1> QED BY <1>8, <1>12, <1>15, <1>16, <1>17, <1>18 DEF u

LEMMA GroupsEnd ==
  ASSUME SessionInv, NEW c \in Commits, NextGroup(c), task[c].todo = {}
  PROVE  /\ task'[c].pc = "rounds" /\ task'[c].inserts = NoWrites
         /\ Len(round') = Len(round) /\ check' = task[c].check /\ UNCHANGED <<commitDepth, persistence>>
         /\ \A n \in 1 .. Len(round) : round'[n].inCommit <=> n # task[c].round /\ round[n].inCommit
<1>1. TasksTyped /\ RoundsTyped /\ task[c].pc \in Working
  BY DEF SessionInv, NextGroup, At, Working, Persisting
<1>2. /\ Await(c, [Idle EXCEPT !.pc = "rounds", !.at = task[c].at + 1])
      /\ round' = [round EXCEPT ![task[c].round].committed = TRUE, ![task[c].round].inCommit = FALSE]
      /\ check' = task[c].check /\ UNCHANGED <<commitDepth, persistence>>
  BY DEF NextGroup
<1>3. task'[c].pc = "rounds" /\ task'[c].inserts = NoWrites
  <2>1. Idle.inserts = NoWrites /\ Idle \in TaskState
    BY IdleTyped DEF Idle
  <2> HIDE DEF Idle
  <2> QED BY <1>1, <1>2, <2>1 DEF Await, TasksTyped, TaskState
<1>4. task[c].round \in 1 .. Len(round) /\ round[task[c].round] \in RoundState /\ DOMAIN round = 1 .. Len(round)
  BY <1>1, WorkingOn, RoundOf DEF Round
<1>5. Len(round') = Len(round) /\ ~ round'[task[c].round].inCommit
  BY <1>1, <1>2, <1>4 DEF RoundsTyped, RoundState
<1>6. \A n \in 1 .. Len(round) : n # task[c].round => round'[n] = round[n]
  BY <1>2, <1>4
<1> QED BY <1>2, <1>3, <1>5, <1>6

LEMMA NextGroupTidy ==
  ASSUME SessionInv, OneCaller, Tidy, ~ meddled, NEW c \in Commits, NextGroup(c)
  PROVE  Tidy'
<1>1. TidyAt(task[c]) /\ task[c].pc = "groups"
  BY Zenon DEF Tidy, NextGroup, At
<1>2. /\ "groups" \in Working \cap Persisting /\ Writing \subseteq Working \cap Persisting
      /\ "rounds" \notin Working \cup Persisting
  BY DEF Working, Deleting, Persisting, Writing
<1>3. CASE task[c].todo = {}
  <2>1. TidyAt(task[c])'
    BY <1>1, <1>2, <1>3, GroupsEnd DEF TidyAt
  <2> QED BY <2>1, OnlyCall
<1>4. CASE task[c].todo # {}
  <2>1. /\ task'[c].round = task[c].round /\ (task'[c].check <=> task[c].check) /\ task'[c].pc \in Writing
        /\ UNCHANGED <<round, check, commitDepth, persistence>>
    BY <1>4, NextGroupMoves
  <2>2. Grown
    BY <2>1, SameRounds
  <2> QED BY <1>1, <1>2, <2>1, <2>2, TidyWork DEF TidyAt
<1> QED BY <1>3, <1>4

LEMMA FailTidy ==
  ASSUME SessionInv, OneCaller, Tidy, ~ meddled, NEW c \in Commits, Fail(c)
  PROVE  Tidy'
<1> DEFINE t == task[c]
<1>1. /\ TidyAt(t) /\ TasksTyped /\ RoundsTyped /\ t.pc \in Working
      /\ t.pc \in {"deletePre", "delete", "deletePost"} \/ t.pc \in Persisting
  BY DEF Tidy, Fail, Throw, SessionInv, Working, Deleting, Persisting, Writing
<1>2. /\ task'[c].pc = "thrown"
      /\ round' = [round EXCEPT ![t.round].inCommit = FALSE] /\ check' = CheckAfter(t)
      /\ UNCHANGED <<commitDepth, persistence>>
  BY OthersMove DEF Fail, Throw
<1>3. {"idle", "thrown"} \cap (Working \cup Persisting) = {}
      /\ {"deletePre", "delete", "deletePost"} \cap Persisting = {}
  BY DEF Working, Deleting, Persisting, Writing
<1>4. ~ check'
  BY <1>1, <1>2, <1>3 DEF TidyAt, CheckAfter
<1>5. t.round \in 1 .. Len(round) /\ round[t.round] \in RoundState /\ DOMAIN round = 1 .. Len(round)
  BY <1>1, WorkingOn, RoundOf DEF Round
<1>6. Len(round') = Len(round) /\ \A n \in 1 .. Len(round) : ~ round'[n].inCommit
  <2>1. Len(round') = Len(round) /\ ~ round'[t.round].inCommit
    BY <1>1, <1>2, <1>5 DEF RoundsTyped, RoundState
  <2>2. \A n \in 1 .. Len(round) : n # t.round => round'[n] = round[n]
    BY <1>2, <1>5
  <2> QED BY <1>1, <2>1, <2>2 DEF TidyAt
<1>7. TidyAt(task[c])'
  BY <1>1, <1>2, <1>3, <1>4, <1>6 DEF TidyAt
<1> QED BY <1>7, OnlyCall

LEMMA CaughtTidy ==
  ASSUME SessionInv, OneCaller, Tidy, ~ meddled, NEW c \in Commits, Caught(c)
  PROVE  Tidy'
<1>1. TidyAt(task[c]) /\ task[c].pc = "thrown" /\ task'[c].pc = "idle"
  BY OthersMove DEF Tidy, Caught, At
<1>2. commitDepth' = 0 /\ persistence' = 0 /\ UNCHANGED <<round, check>>
  BY DEF Caught
<1>3. {"idle", "thrown"} \cap (Working \cup Persisting) = {}
  BY DEF Working, Deleting, Persisting, Writing
<1>4. TidyAt(task[c])'
  BY <1>1, <1>2, <1>3 DEF TidyAt
<1> QED BY <1>4, OnlyCall

LEMMA ResetTidy ==
  ASSUME SessionInv, OneCaller, Tidy, ~ meddled, Reset, ~ meddled'
  PROVE  Tidy'
<1> SUFFICES ASSUME NEW c \in Commits PROVE TidyAt(task[c])'
  BY DEF Tidy
<1>1. TidyAt(task[c]) /\ task[c].pc = "idle"
  BY DEF Tidy, Reset
<1> QED BY <1>1 DEF TidyAt, Reset
-----------------------------------------------------------------------------
(* Snapshots and rows, one action after the other.                         *)
LEMMA OnlyStored ==
  ASSUME OneCaller, NEW c \in Commits
  PROVE  Stored' <=> (~ meddled' => StoredAt(task[c])')
BY DEF OneCaller, Stored

(* The round a call works on is not given out again.                       *)
LEMMA AddingStays ==
  ASSUME SessionInv, Tidy, ~ meddled, Grown, NEW c \in Commits, task[c].pc \in Writing,
         task'[c].round = task[c].round, task'[c].class = task[c].class
  PROVE  Adding(task[c])' = Adding(task[c])
<1>1. task[c].pc \in Working
  BY DEF Working, Persisting
<1>2. task[c].round \in 1 .. Len(round)
  BY <1>1, WorkingOn DEF SessionInv
<1>3. round'[task[c].round] = round[task[c].round]
  BY <1>1, <1>2 DEF Tidy, TidyAt, Grown
<1> QED BY <1>3 DEF Adding, OfClass

(* The application changes no entity that is being written, and has not    *)
(* the thread when snapshots are taken.                                    *)
LEMMA EditsStored ==
  ASSUME SessionInv, OneCaller, ~ EditInFlight, Tidy, Stored, ~ meddled,
         NEW i \in Items, Change(i) \/ Add(i) \/ Remove(i), NEW c \in Commits
  PROVE  StoredAt(task[c])'
<1> DEFINE t == task[c]
<1>1. StoredAt(t) /\ RowsTyped /\ TasksTyped
  BY DEF Stored, SessionInv
<1>2. UNCHANGED <<db, known, snap, task>> /\ running = {}
  BY DEF Change, Add, Remove, Edit, entities, Free
<1>3. Grown
  BY EditsKeep
<1>4. CASE t.pc \notin Writing
  BY <1>1, <1>2, <1>4 DEF StoredAt, Writing
<1>5. CASE t.pc \in Writing
  <2>1. Adding(task[c])' = Adding(t)
    BY <1>2, <1>3, <1>5, AddingStays
  <2>2. t.pc # "store"
    BY <1>1, <1>2 DEF TasksTyped
  <2>3. \A j \in Items : obj'[j] # obj[j] => j \notin Adding(t) \/ (t.pc = "insertPre" /\ j \in DOMAIN t.inserts)
    <3>1. CASE Change(i)
      <4>1. ~ InFlight(i) /\ \A j \in Items : j # i => obj'[j] = obj[j]
        BY <1>1, <3>1 DEF Change, RowsTyped
      <4>2. i \in Adding(t) => t.pc = "insertPre" /\ i \in DOMAIN t.inserts
        BY <1>5, <2>2, <4>1 DEF InFlight, Writing, Adding, OfClass
      <4> QED BY <4>1, <4>2
    <3>2. CASE Add(i) \/ Remove(i)
      BY <3>2 DEF Add, Remove
    <3> QED BY <3>1, <3>2
  <2>4. Adding(t) \subseteq Items
    BY <1>1, <1>5, WorkingOn DEF SessionInv, Working, Persisting
  <2>5. Taken(t) /\ Written(t)
    BY <1>1, <1>5 DEF StoredAt
  <2>6. Taken(task[c])'
    BY <1>2, <2>1, <2>3, <2>4, <2>5 DEF Taken
  <2>7. Written(task[c])'
    BY <1>2, <2>5 DEF Written
  <2> QED BY <1>1, <1>2, <2>6, <2>7 DEF StoredAt
<1> QED BY <1>4, <1>5

(* Where nothing is written.                                               *)
LEMMA RestStored ==
  ASSUME Stored, ~ meddled, NEW c \in Commits, UNCHANGED <<db, snap, known>>,
         task[c].pc \notin {"updatePost", "store"}, task'[c].pc \notin Writing, task'[c].inserts = NoWrites
  PROVE  StoredAt(task[c])'
BY DEF Stored, StoredAt

LEMMA DeleteStored ==
  ASSUME SessionInv, Stored, ~ meddled, NEW c \in Commits, DeleteDone(c)
  PROVE  StoredAt(task[c])'
<1>1. StoredAt(task[c]) /\ RowsTyped /\ task[c].pc = "delete"
  BY DEF Stored, SessionInv, DeleteDone, At
<1>2. task'[c].pc \notin Writing /\ task'[c].inserts = NoWrites
  BY <1>1, HooksMove DEF Moves, Carries, StoredAt, Writing
<1>3. /\ known' = known \ (Removing(task[c]) \cap identityMap) /\ snap' = snap
      /\ \A i \in Items : i \notin Removing(task[c]) => db'[i] = db[i]
  BY DEF DeleteDone
<1>4. \A i \in known' : i \in known /\ snap'[i] = snap[i] /\ db'[i] = db[i]
  BY <1>1, <1>3 DEF RowsTyped
<1> QED BY <1>1, <1>2, <1>4 DEF StoredAt

LEMMA NextGroupStored ==
  ASSUME SessionInv, Stored, ~ meddled, NEW c \in Commits, NextGroup(c)
  PROVE  StoredAt(task[c])'
<1>1. StoredAt(task[c]) /\ task[c].pc = "groups" /\ UNCHANGED <<obj, db, known, snap>>
  BY Zenon DEF Stored, NextGroup, At, entities
<1>2. task[c].inserts = NoWrites /\ \A i \in known : snap[i] # NoRow /\ snap[i] = db[i]
  BY <1>1 DEF StoredAt, Writing
<1>3. CASE task[c].todo = {}
  BY <1>1, <1>2, <1>3, GroupsEnd DEF StoredAt, Writing
<1>4. CASE task[c].todo # {}
  <2> DEFINE u == task'[c]
  <2>1. /\ u.pc \in Writing \ {"insertPost", "updatePost"} /\ Taken(u)
        /\ u.pc \notin {"insertPre", "insert"} => DOMAIN u.inserts = {}
        /\ u.pc = "store" => DOMAIN u.changes = {}
        /\ round' = round
    BY <1>2, <1>4, NextGroupMoves
  <2>2. Taken(task[c])'
    BY <1>1, <2>1 DEF Taken, Adding, OfClass
  <2>3. Written(task[c])'
    BY <2>1 DEF Written
  <2> QED BY <1>1, <1>2, <2>1, <2>2, <2>3 DEF StoredAt
<1> QED BY <1>3, <1>4

(* Inserted rows are those of unknown entities: no snapshot is about them. *)
LEMMA InsertsStored ==
  ASSUME SessionInv, Stored, ~ meddled, NEW c \in Commits, InsertPre(c) \/ InsertDone(c) \/ InsertPost(c)
  PROVE  StoredAt(task[c])'
<1> DEFINE t == task[c]
           u == task'[c]
<1>1. StoredAt(t) /\ t.pc \in {"insertPre", "insert", "insertPost"} /\ RowsTyped /\ TasksTyped
  BY DEF Stored, SessionInv, InsertPre, InsertDone, InsertPost, At
<1>2. Taken(t) /\ Written(t) /\ \A i \in known : snap[i] # NoRow /\ snap[i] = db[i]
  BY <1>1 DEF StoredAt, Writing
<1>3. t.inserts \in PartialRows /\ t.changes \in PartialRows
  BY <1>1, TaskOf
<1>4. UNCHANGED <<obj, known, snap, round>>
  BY DEF InsertPre, InsertDone, InsertPost, entities, session
<1>5. u.round = t.round /\ u.class = t.class /\ u.changes = t.changes
  BY HooksMove, InsertsMove, <1>1 DEF Moves, Carries
<1>6. Adding(task[c])' = Adding(t)
  BY <1>4, <1>5 DEF Adding, OfClass
<1>7. CASE InsertPre(c)
  <2>1. u.pc = "insert" /\ u.inserts = Writes(DOMAIN t.inserts) /\ db' = db
    BY <1>7, InsertsMove DEF Moves, InsertPre
  <2>2. DOMAIN u.inserts = DOMAIN t.inserts /\ \A i \in DOMAIN u.inserts : u.inserts[i] = obj[i]
    BY <1>1, <1>3, <2>1, PartialDomain, WritesPartial
  <2>3. Taken(task[c])'
    BY <1>2, <1>4, <1>5, <1>6, <2>2 DEF Taken
  <2>4. Written(task[c])'
    BY <2>1 DEF Written
  <2> QED BY <1>2, <1>4, <2>1, <2>3, <2>4 DEF StoredAt, Writing
<1>8. CASE InsertDone(c) \/ InsertPost(c)
  <2>1. u.pc \in {"insertPost", "updatePre", "update", "store"} /\ u.inserts = t.inserts
        /\ (u.pc = "store" => DOMAIN u.changes = {})
    BY <1>5, <1>8, InsertsMove, NoWritesPartial DEF Moves, Carries
  <2>2. /\ \A i \in known : db'[i] = db[i]
        /\ \A i \in DOMAIN t.inserts : db'[i] = t.inserts[i]
    <3>1. CASE InsertDone(c)
      <4>1. \A i \in Items : db'[i] = IF i \in DOMAIN t.inserts THEN t.inserts[i] ELSE db[i]
        BY <3>1 DEF InsertDone
      <4>2. DOMAIN t.inserts \subseteq Items /\ known \subseteq Items /\ DOMAIN t.inserts \cap known = {}
        BY <1>1, <1>2, <1>3, PartialDomain DEF RowsTyped, Taken
      <4> QED BY <4>1, <4>2
    <3>2. CASE InsertPost(c)
      BY <1>2, <3>2 DEF InsertPost, Written, At
    <3> QED BY <1>8, <3>1, <3>2
  <2>3. t.pc # "insertPre"
    BY <1>8 DEF InsertDone, InsertPost, At
  <2>4. Taken(task[c])'
    BY <1>2, <1>4, <1>5, <1>6, <2>1, <2>3 DEF Taken
  <2>5. Written(task[c])'
    BY <2>1, <2>2 DEF Written
  <2> QED BY <1>2, <1>4, <2>1, <2>2, <2>4, <2>5 DEF StoredAt, Writing
<1> QED BY <1>7, <1>8

(* Updated rows await their snapshots.                                     *)
LEMMA UpdatesStored ==
  ASSUME SessionInv, Stored, ~ meddled, NEW c \in Commits, UpdatePre(c) \/ UpdateDone(c) \/ UpdatePost(c)
  PROVE  StoredAt(task[c])'
<1> DEFINE t == task[c]
           u == task'[c]
<1>1. StoredAt(t) /\ t.pc \in {"updatePre", "update", "updatePost"} /\ RowsTyped /\ TasksTyped
  BY DEF Stored, SessionInv, UpdatePre, UpdateDone, UpdatePost, At
<1>2. Taken(t) /\ Written(t)
  BY <1>1 DEF StoredAt, Writing
<1>3. t.inserts \in PartialRows /\ t.changes \in PartialRows
  BY <1>1, TaskOf
<1>4. UNCHANGED <<obj, known, snap, round>>
  BY DEF UpdatePre, UpdateDone, UpdatePost, entities, session
<1>5. /\ u.round = t.round /\ u.class = t.class /\ u.changes = t.changes /\ u.inserts = t.inserts
      /\ u.pc \in {"update", "updatePost", "store"} /\ (u.pc = "update" <=> UpdatePre(c))
  BY <1>1, HooksMove DEF Moves, Carries, UpdatePre, UpdateDone, UpdatePost, At
<1>6. Adding(task[c])' = Adding(t)
  BY <1>4, <1>5 DEF Adding, OfClass
<1>7. Taken(task[c])'
  BY <1>1, <1>2, <1>4, <1>5, <1>6 DEF Taken
<1>8. DOMAIN t.changes \subseteq known /\ DOMAIN t.inserts \cap known = {} /\ known \subseteq Items
      /\ DOMAIN t.inserts \subseteq Items
  BY <1>1, <1>2, <1>3, PartialDomain DEF Taken, RowsTyped
<1>9. CASE UpdatePre(c)
  <2>1. db' = db /\ t.pc = "updatePre" /\ u.pc = "update"
    BY <1>5, <1>9 DEF UpdatePre, At
  <2>2. Written(task[c])'
    BY <1>2, <1>5, <2>1 DEF Written
  <2> QED BY <1>1, <1>4, <1>7, <2>1, <2>2 DEF StoredAt, Writing
<1>10. CASE UpdateDone(c)
  <2>1. t.pc = "update" /\ u.pc \in {"updatePost", "store"}
    BY <1>1, <1>5, <1>10, HooksMove DEF UpdateDone, At, Moves
  <2>2. \A i \in known : snap[i] # NoRow /\ snap[i] = db[i]
    BY <1>1, <2>1 DEF StoredAt
  <2>3. \A i \in Items : db'[i] = IF i \in DOMAIN t.changes /\ db[i] # NoRow THEN t.changes[i] ELSE db[i]
    BY <1>10 DEF UpdateDone
  <2>4. /\ \A i \in known : db'[i] = IF i \in DOMAIN t.changes THEN t.changes[i] ELSE db[i]
        /\ \A i \in DOMAIN t.inserts : db'[i] = db[i]
    BY <1>8, <2>2, <2>3
  <2>5. Written(task[c])'
    BY <1>2, <1>5, <1>8, <2>1, <2>4 DEF Written
  <2> QED BY <1>4, <1>5, <1>7, <2>1, <2>2, <2>4, <2>5 DEF StoredAt, Writing
<1>11. CASE UpdatePost(c)
  <2>1. db' = db /\ t.pc = "updatePost" /\ u.pc = "store"
    BY <1>1, <1>5, <1>11, HooksMove DEF UpdatePost, At, Moves
  <2>2. Written(task[c])'
    BY <1>2, <1>5, <2>1 DEF Written
  <2> QED BY <1>1, <1>4, <1>5, <1>7, <2>1, <2>2 DEF StoredAt, Writing
<1> QED BY <1>9, <1>10, <1>11

(* What the entities of a group hold when their snapshots are taken is in  *)
(* their rows, be it inserted, updated or as it was.                       *)
LEMMA StoreStored ==
  ASSUME SessionInv, Stored, ~ meddled, NEW c \in Commits, StoreMany(c)
  PROVE  StoredAt(task[c])'
<1> DEFINE t == task[c]
<1>1. StoredAt(t) /\ t.pc = "store" /\ RowsTyped
  BY DEF Stored, SessionInv, StoreMany, At
<1>2. Taken(t) /\ Written(t) /\ \A i \in known : snap[i] # NoRow /\ (snap[i] # db[i] => i \in DOMAIN t.changes)
  BY <1>1 DEF StoredAt, Writing
<1>3. task'[c].pc \notin Writing /\ task'[c].inserts = NoWrites
  BY OthersMove DEF Moves, Writing
<1>4. Adding(t) \subseteq Items
  BY <1>1, WorkingOn DEF SessionInv, Working, Persisting, Writing
<1>5. /\ known' = known \cup Adding(t) /\ db' = db
      /\ \A i \in Items : snap'[i] = IF i \in Adding(t) THEN obj[i] ELSE snap[i]
  BY DEF StoreMany
<1>6. \A i \in Adding(t) : obj[i] = db[i]
  BY <1>1, <1>2 DEF Taken, Written
<1>7. \A i \in known \ Adding(t) : snap[i] = db[i]
  BY <1>2 DEF Taken
<1>8. \A i \in Items : obj[i] # NoRow
  BY <1>1, SessionAssumption DEF RowsTyped
<1>9. \A i \in known' : snap'[i] # NoRow /\ snap'[i] = db'[i]
  BY <1>1, <1>2, <1>4, <1>5, <1>6, <1>7, <1>8 DEF RowsTyped
<1> QED BY <1>3, <1>9 DEF StoredAt
-----------------------------------------------------------------------------
(* What a listener has done to a commit is not forgotten.                  *)
LEMMA MeddledStays == ASSUME [Next]_vars, meddled PROVE meddled'
<1>1. UNCHANGED vars => meddled'
  BY DEF vars, observed
<1>2. Reset \/ (\E i \in Items : Change(i) \/ Add(i) \/ Remove(i)) => meddled'
  BY Zenon DEF Change, Add, Remove, Edit, Reset
<1>3. ASSUME NEW c \in Commits, Commit(c) \/ CommitPre(c) \/ NextRound(c) \/ Stop(c) \/ Fail(c) \/ Caught(c)
      PROVE  meddled'
  BY Zenon, <1>3 DEF Commit, CommitPre, NextRound, Return, Stop, Fail, Caught, observed
<1>4. ASSUME NEW c \in Commits,
             NextDelete(c) \/ DeletePre(c) \/ DeleteDone(c) \/ DeletePost(c) \/ BeginPersist(c) \/ NextGroup(c)
      PROVE  meddled'
  BY Zenon, <1>4 DEF NextDelete, DeletePre, DeleteDone, DeletePost, BeginPersist, NextGroup, observed
<1>5. ASSUME NEW c \in Commits,
             \/ InsertPre(c) \/ InsertDone(c) \/ InsertPost(c)
             \/ UpdatePre(c) \/ UpdateDone(c) \/ UpdatePost(c) \/ StoreMany(c)
      PROVE  meddled'
  BY <1>5 DEF InsertPre, InsertDone, InsertPost, UpdatePre, UpdateDone, UpdatePost, StoreMany, observed
<1> QED BY <1>1, <1>2, <1>3, <1>4, <1>5 DEF Next

LEMMA CallersStep ==
  ASSUME SessionInv, OneCaller, Tidy, [Next]_vars, ~ EditInFlight => Stored
  PROVE  Tidy' /\ (~ EditInFlight => Stored')
<1> SUFFICES ASSUME ~ meddled' PROVE Tidy' /\ (~ EditInFlight => Stored')
  BY DEF Tidy, Stored
<1>1. ~ meddled
  BY MeddledStays
<1>2. CASE UNCHANGED vars
  BY <1>2 DEF Tidy, TidyAt, Stored, StoredAt, Taken, Written, Adding, OfClass, vars, session, entities, observed
<1>3. CASE Reset
  <2>1. \A c \in Commits : task[c].pc \notin Writing
    BY <1>1, <1>3 DEF Reset, Writing
  <2>2. UNCHANGED <<db, known, snap, task>>
    BY <1>3 DEF Reset, entities
  <2>3. Stored => Stored'
    BY <1>1, <2>1, <2>2 DEF Stored, StoredAt
  <2> QED BY <1>1, <1>3, <2>3, ResetTidy
<1>4. CASE \E i \in Items : Change(i) \/ Add(i) \/ Remove(i)
  <2>1. PICK i \in Items : Change(i) \/ Add(i) \/ Remove(i)
    BY <1>4
  <2>2. Grown /\ UNCHANGED <<commitDepth, persistence, check, task>>
    BY <2>1, EditsKeep DEF Change, Add, Remove, Edit
  <2>3. Tidy'
    BY <1>1, <2>2, TidyStays
  <2>4. ~ EditInFlight => \A c \in Commits : StoredAt(task[c])'
    BY <1>1, <2>1, EditsStored
  <2> QED BY <2>3, <2>4 DEF Stored
<1>5. ASSUME NEW c \in Commits, Commit(c) \/ CommitPre(c) \/ NextRound(c) \/ Fail(c) \/ Caught(c)
      PROVE  Tidy' /\ (~ EditInFlight => Stored')
  <2>1. Tidy' /\ task'[c].pc \notin Writing
        /\ (task'[c].inserts = task[c].inserts \/ task'[c].inserts = NoWrites)
    BY <1>1, <1>5, CommitTidy, CommitPreTidy, NextRoundTidy, FailTidy, CaughtTidy, HooksMove, OthersMove
       DEF Moves, Carries, Writing
  <2>2. UNCHANGED <<db, snap, known>>
    BY Zenon, <1>5 DEF Commit, CommitPre, NextRound, Return, Fail, Throw, Caught, entities
  <2>3. task[c].pc \notin {"updatePost", "store"} /\ (task[c].pc \in Writing => Fail(c))
    BY Zenon, <1>5 DEF Commit, CommitPre, NextRound, Fail, Throw, Caught, At, Writing
  <2>4. ASSUME Stored PROVE task'[c].inserts = NoWrites
    <3>1. StoredAt(task[c])
      BY <1>1, <2>4 DEF Stored
    <3> QED BY <2>1, <2>3, <3>1, OthersMove DEF StoredAt
  <2> QED BY <1>1, <2>1, <2>2, <2>3, <2>4, RestStored, OnlyStored
<1>6. ASSUME NEW c \in Commits, NextDelete(c) \/ DeletePre(c) \/ DeletePost(c) \/ BeginPersist(c)
      PROVE  Tidy' /\ (~ EditInFlight => Stored')
  <2>1. Tidy'
    BY <1>1, <1>6, WorkTidy
  <2>2. /\ task[c].pc \notin Writing /\ task'[c].pc \notin Writing /\ task'[c].inserts = task[c].inserts
        /\ UNCHANGED <<db, snap, known>>
    BY Zenon, <1>6, HooksMove, OthersMove
       DEF NextDelete, DeletePre, DeletePost, BeginPersist, At, Moves, Carries, Writing, entities
  <2>3. Stored => task'[c].inserts = NoWrites
    BY <1>1, <2>2 DEF Stored, StoredAt
  <2>4. task[c].pc \notin {"updatePost", "store"}
    BY <2>2 DEF Writing
  <2> QED BY <1>1, <2>1, <2>2, <2>3, <2>4, RestStored, OnlyStored
<1>7. ASSUME NEW c \in Commits,
             \/ DeleteDone(c) \/ InsertPre(c) \/ InsertDone(c) \/ InsertPost(c)
             \/ UpdatePre(c) \/ UpdateDone(c) \/ UpdatePost(c) \/ StoreMany(c)
      PROVE  Tidy' /\ (~ EditInFlight => Stored')
  <2>1. Tidy'
    BY <1>1, <1>7, WorkTidy
  <2>2. Stored => StoredAt(task[c])'
    BY <1>1, <1>7, DeleteStored, InsertsStored, UpdatesStored, StoreStored
  <2> QED BY <2>1, <2>2, OnlyStored
<1>8. ASSUME NEW c \in Commits, NextGroup(c) PROVE Tidy' /\ (~ EditInFlight => Stored')
  BY <1>1, <1>8, NextGroupTidy, NextGroupStored, OnlyStored
<1>9. ASSUME NEW c \in Commits, Stop(c) PROVE FALSE
  BY <1>9 DEF Stop
<1> QED BY <1>2, <1>3, <1>4, <1>5, <1>6, <1>7, <1>8, <1>9 DEF Next

(***************************************************************************)
(* A session with one caller of commit() is tidy, whatever the application *)
(* does meanwhile, whatever fails and however often it commits.            *)
(***************************************************************************)
THEOREM OneCallerIsClean == OneCaller => (Spec => []QuietIsClean)
<1> SUFFICES ASSUME OneCaller PROVE Spec => []QuietIsClean
  OBVIOUS
<1> DEFINE Inv == SessionInv /\ Tidy /\ (~ EditInFlight => Stored)
<1>1. Init => Inv
  BY SessionStart
<1>2. Inv /\ [Next]_vars => Inv'
  BY SessionStep, CallersStep
<1>3. Inv => QuietIsClean
  <2> SUFFICES ASSUME Inv, Quiet, ~ meddled
               PROVE  /\ commitDepth = 0 /\ persistence = 0 /\ ~ check
                      /\ \A n \in DOMAIN round : ~ round[n].inCommit
    BY DEF QuietIsClean
  <2>1. PICK c \in Commits : TRUE
    BY DEF OneCaller
  <2>2. TidyAt(task[c]) /\ task[c].pc = "idle" /\ DOMAIN round = 1 .. Len(round)
    BY RoundOf DEF Tidy, Quiet, SessionInv
  <2>3. "idle" \notin Working \cup Persisting
    BY DEF Working, Deleting, Persisting, Writing
  <2> QED BY <2>2, <2>3 DEF TidyAt
<1> QED BY <1>1, <1>2, <1>3, PTL DEF Spec

(***************************************************************************)
(* The invariant of a session with one caller: between its commits it is   *)
(* as before, and the snapshots that change detection relies on are the    *)
(* rows, unless the application changes entities while they are written.   *)
(***************************************************************************)
THEOREM SessionIsSafe == OneCaller /\ ~ EditInFlight => (Spec => []SessionSafety)
<1> SUFFICES ASSUME OneCaller, ~ EditInFlight PROVE Spec => []SessionSafety
  OBVIOUS
<1> DEFINE Inv == SessionInv /\ Tidy /\ Stored
<1>1. Init => Inv
  BY SessionStart
<1>2. Inv /\ [Next]_vars => Inv'
  BY SessionStep, CallersStep
<1>3. Inv => SnapshotIsStored
  <2> SUFFICES ASSUME Inv, Quiet, ~ meddled, NEW i \in known PROVE snap[i] = db[i]
    BY DEF SnapshotIsStored
  <2>1. PICK c \in Commits : TRUE
    BY DEF OneCaller
  <2>2. StoredAt(task[c]) /\ task[c].pc = "idle"
    BY DEF Stored, Quiet
  <2> QED BY <2>2 DEF StoredAt
<1>4. Spec => []SnapshotIsStored
  BY <1>1, <1>2, <1>3, PTL DEF Spec
<1>5. Spec => []QuietIsClean
  BY OneCallerIsClean
<1>6. TypeOK /\ QuietIsClean /\ SnapshotIsStored => SessionSafety
  BY DEF SessionSafety
<1> QED BY <1>4, <1>5, <1>6, SessionTyped, PTL
-----------------------------------------------------------------------------
(* What a commit owes. First the rounds: none is listed twice, and what an *)
(* added entity refers to waits in its round.                              *)
RefsIn(r) == \A i \in r.add : \A j \in Refs[i] : j \in r.add \cup r.remove
Distinct == \A j, k \in 1 .. Len(rounds) : rounds[j] = rounds[k] => j = k
RoundsAgree == Distinct /\ \A n \in 1 .. Len(round) : RefsIn(round[n])

(* The rounds that a call still comes to, and the one it works on.         *)
Ahead(t, n) == \E k \in 1 .. Len(rounds) : rounds[k] = n /\ t.at <= k /\ (t.pc \in Working => t.at # k)
Concerns(t, n) == Ahead(t, n) \/ (t.pc \in Working /\ n = t.round)

(* An entity that is yet to be written, or its row to be removed.          *)
Queued(t, i) == \E n \in 1 .. Len(round) : Ahead(t, n) /\ i \in round[n].add
Listed(t, i) == \E n \in 1 .. Len(round) : Ahead(t, n) /\ i \in round[n].remove
InHand(t, i) ==
  /\ t.pc \in Working /\ i \in round[t.round].add
  /\ t.pc \in Persisting => Class[i] \in t.todo \/ (t.pc \in Writing /\ Class[i] = t.class)
Going(t, i) ==
  /\ t.pc \in Deleting /\ i \in round[t.round].remove
  /\ \/ Class[i] \in t.todo
     \/ t.pc \in {"deletePre", "delete"} /\ Class[i] = t.class /\ t.class \notin SoftDeleted

(* The loop finds what it comes to uncommitted, and no round takes back    *)
(* what another one does.                                                  *)
QueuesAt(t) ==
  /\ owed \subseteq Items /\ doomed \subseteq Items
  /\ t.pc = "idle" => owed = {} /\ doomed = {} /\ Len(rounds) <= 1 /\ t.at = 0
  /\ t.pc \in Working => t.at \in 1 .. Len(rounds) /\ rounds[t.at] = t.round
  /\ t.pc # "thrown" =>
       \A n \in 1 .. Len(round) :
         /\ Ahead(t, n) => ~ round[n].committed
         /\ Concerns(t, n) => owed \cap round[n].remove = {} /\ doomed \cap round[n].add = {}

(* What is owed was done, or is waiting to be.                             *)
WorkAt(t) ==
  t.pc # "thrown" =>
    /\ \A i \in owed : db[i] = obj[i] \/ Queued(t, i) \/ InHand(t, i)
    /\ \A i \in doomed : i \in skipped \/ db[i] = NoRow \/ Listed(t, i) \/ Going(t, i)

(* The group in hand refers to groups that have rows.                      *)
OrderAt(t) ==
  /\ t.pc \in Persisting => \A i \in round[t.round].add : db[i] # NoRow \/ InHand(t, i)
  /\ t.pc \in Writing =>
       \A i \in Adding(t) : \A j \in Refs[i] : j \in round[t.round].add => Class[j] \notin t.todo \cup {t.class}

CompleteAt(t) == QueuesAt(t) /\ WorkAt(t) /\ OrderAt(t)
Complete == ~ meddled => RoundsAgree /\ \A c \in Commits : CompleteAt(task[c])

LEMMA OnlyComplete ==
  ASSUME OneCaller, NEW c \in Commits
  PROVE  Complete' <=> (~ meddled' => RoundsAgree' /\ CompleteAt(task[c])')
BY DEF OneCaller, Complete

(* The queues of a round.                                                  *)
LEMMA AddFollows ==
  ASSUME NEW r \in Round, NEW items \in SUBSET Items, RefsIn(r)
  PROVE  LET q == AddTo(r, items) IN
         /\ RefsIn(q) /\ q.remove = r.remove /\ q.committed = r.committed
         /\ r.add \subseteq q.add /\ items \subseteq q.add \cup r.remove
<1> DEFINE waiting == r.add \cup r.remove
           new == items \ waiting
           refs == UNION {Refs[i] : i \in new}
           more == r.add \cup new \cup (refs \ waiting)
           q == AddTo(r, items)
<1>1. q = [r EXCEPT !.add = more]
  BY DEF AddTo
<1>2. \A i \in new : Refs[i] \subseteq refs
  OBVIOUS
<1>3. \A j \in refs : j \in Items /\ Refs[j] = {}
  BY SessionAssumption
<1> HIDE DEF refs
<1>4. /\ \A i \in more : \A j \in Refs[i] : j \in more \cup r.remove
      /\ r.add \subseteq more /\ items \subseteq more \cup r.remove
  BY <1>2, <1>3 DEF RefsIn
<1> HIDE DEF more
<1>5. q.add = more /\ q.remove = r.remove /\ q.committed = r.committed
  BY <1>1 DEF Round, RoundState
<1> HIDE DEF q
<1>6. RefsIn(q)
  BY <1>4, <1>5 DEF RefsIn
<1> QED BY <1>4, <1>5, <1>6 DEF q

LEMMA RemoveFollows ==
  ASSUME NEW r \in Round, NEW i \in Items, RefsIn(r)
  PROVE  LET q == RemoveFrom(r, i) IN
         /\ RefsIn(q) /\ q.remove = r.remove \cup {i} /\ q.committed = r.committed /\ q.add = r.add \ {i}
BY DEF RemoveFrom, RefsIn, Round, RoundState

LEMMA NewFollows ==
  /\ NewRound \in Round /\ RefsIn(NewRound)
  /\ NewRound.add = {} /\ NewRound.remove = {} /\ ~ NewRound.committed
BY DEF NewRound, RefsIn, Round, RoundState

(* The round that is put into the list, and where.                         *)
Target == IF NeedsRound THEN Len(round) + 1 ELSE Last

LEMMA PutEffect ==
  ASSUME SessionInv, NEW r \in Round, ~ r.inCommit, PutCurrentRound(r)
  PROVE  /\ Len(round) \in Nat /\ Len(round') \in Nat /\ Len(rounds) \in Nat /\ Len(rounds') \in Nat
         /\ Target \in 1 .. Len(round') /\ round'[Target] = r
         /\ \A n \in 1 .. Len(round) : n \in 1 .. Len(round') /\ (n # Target => round'[n] = round[n])
         /\ \A n \in 1 .. Len(round') : n \in 1 .. Len(round) \/ n = Target
         /\ \A k \in 1 .. Len(rounds) : k \in 1 .. Len(rounds') /\ rounds'[k] = rounds[k]
         /\ \A k \in 1 .. Len(rounds') : k \in 1 .. Len(rounds) \/ (rounds'[k] = Target /\ Target \notin 1 .. Len(round))
         /\ \/ Target \in 1 .. Len(round) /\ CurrentRound = round[Target] /\ ~ round[Target].inCommit /\ rounds' = rounds
            \/ Target \notin 1 .. Len(round) /\ CurrentRound = NewRound
               /\ Len(rounds') = Len(rounds) + 1 /\ rounds'[Len(rounds) + 1] = Target
<1>1. /\ round \in Seq(Round) /\ rounds \in Seq(1 .. Len(round)) /\ RoundsTyped
      /\ Len(round) \in Nat /\ Len(rounds) \in Nat
  BY RoundOf DEF SessionInv, RoundsTyped
<1>2. CASE NeedsRound
  <2>1. round' = Append(round, r) /\ rounds' = Append(rounds, Len(round) + 1) /\ Target = Len(round) + 1
        /\ CurrentRound = NewRound
    BY <1>2 DEF PutCurrentRound, Target, CurrentRound
  <2>2. Len(round') = Len(round) + 1 /\ round'[Len(round) + 1] = r
        /\ \A n \in 1 .. Len(round) : round'[n] = round[n]
    BY <1>1, <2>1
  <2>3. Len(rounds') = Len(rounds) + 1 /\ rounds'[Len(rounds) + 1] = Target
        /\ \A k \in 1 .. Len(rounds) : rounds'[k] = rounds[k]
    BY <1>1, <2>1
  <2> QED BY <1>1, <2>1, <2>2, <2>3
<1>3. CASE ~ NeedsRound
  <2>1. round' = [round EXCEPT ![Last] = r] /\ rounds' = rounds /\ Target = Last /\ CurrentRound = round[Last]
    BY <1>3 DEF PutCurrentRound, Target, CurrentRound
  <2>2. Last \in 1 .. Len(round) /\ ~ round[Last].inCommit
    BY <1>1, <1>3, CurrentRoundFree
  <2>3. Len(round') = Len(round) /\ round'[Last] = r /\ \A n \in 1 .. Len(round) : n # Last => round'[n] = round[n]
    BY <1>1, <2>1, <2>2
  <2> QED BY <1>1, <2>1, <2>2, <2>3
<1> QED BY <1>2, <1>3

LEMMA PutAgrees ==
  ASSUME SessionInv, RoundsAgree, NEW r \in Round, ~ r.inCommit, PutCurrentRound(r), RefsIn(r)
  PROVE  RoundsAgree'
<1>1. \A k \in 1 .. Len(rounds) : rounds[k] \in 1 .. Len(round)
  BY RoundOf DEF SessionInv
<1>2. Distinct'
  BY <1>1, PutEffect DEF RoundsAgree, Distinct
<1>3. \A n \in 1 .. Len(round') : RefsIn(round'[n])
  BY PutEffect DEF RoundsAgree
<1> QED BY <1>2, <1>3 DEF RoundsAgree, RefsIn

LEMMA CurrentFollows ==
  ASSUME SessionInv, RoundsAgree
  PROVE  CurrentRound \in Round /\ ~ CurrentRound.inCommit /\ RefsIn(CurrentRound)
<1>1. RoundsTyped
  BY DEF SessionInv
<1>2. NeedsRound => CurrentRound = NewRound
  BY DEF CurrentRound
<1>3. ~ NeedsRound => CurrentRound = round[Last] /\ Last \in 1 .. Len(round)
  BY <1>1, CurrentRoundFree DEF CurrentRound
<1> QED BY <1>1, <1>2, <1>3, CurrentRoundFree, NewFollows DEF RoundsAgree

(* What is put into the list of rounds takes nothing back.                 *)
LEMMA PutQueues ==
  ASSUME SessionInv, RoundsAgree, Tidy, ~ meddled, NEW c \in Commits, QueuesAt(task[c]),
         NEW r \in Round, ~ r.inCommit, PutCurrentRound(r),
         r.committed = CurrentRound.committed, CurrentRound.remove \subseteq r.remove,
         task'[c].at = task[c].at, task'[c].round = task[c].round,
         task'[c].pc = task[c].pc \/ {task[c].pc, task'[c].pc} \subseteq Working,
         owed' \subseteq owed, doomed' \subseteq doomed,
         \A i \in owed' : /\ i \in r.remove => i \in CurrentRound.remove
                          /\ i \in CurrentRound.add => i \in r.add,
         \A i \in doomed' : i \in r.add => i \in CurrentRound.add
  PROVE  /\ QueuesAt(task[c])'
         /\ \A i \in owed' : Queued(task[c], i) => Queued(task[c], i)'
         /\ \A i \in Items : Listed(task[c], i) => Listed(task[c], i)'
         /\ task[c].pc \in Working => round'[task[c].round] = round[task[c].round]
<1> DEFINE t == task[c]
           u == task'[c]
<1>1. /\ TidyAt(t) /\ t.at \in Nat
      /\ t.pc \in Working => t.round \in 1 .. Len(round)
  BY TaskOf, WorkingOn DEF SessionInv, Tidy
<1>2. {"idle", "thrown"} \cap Working = {}
  BY DEF Working, Deleting, Persisting, Writing
<1>3. /\ u.at = t.at /\ u.round = t.round /\ (u.pc \in Working <=> t.pc \in Working)
      /\ (u.pc = "idle" <=> t.pc = "idle") /\ (u.pc = "thrown" <=> t.pc = "thrown")
  BY <1>2
<1>4. t.pc \in Working => /\ t.round # Target /\ t.round \in 1 .. Len(round') /\ round'[t.round] = round[t.round]
  BY <1>1, PutEffect DEF TidyAt
<1>5. \A n \in 1 .. Len(round') : Ahead(t, n)' => Ahead(t, n) \/ (n = Target /\ n \notin 1 .. Len(round))
  BY <1>3, PutEffect DEF Ahead
<1>6. \A n \in 1 .. Len(round) : n \in 1 .. Len(round') /\ (Ahead(t, n) => Ahead(t, n)')
  BY <1>3, PutEffect DEF Ahead
<1> HIDE DEF u
<1>7. \A n \in 1 .. Len(round') :
        n = Target => /\ round'[n] = r
                      /\ \/ n \in 1 .. Len(round) /\ CurrentRound = round[n]
                         \/ n \notin 1 .. Len(round) /\ CurrentRound = NewRound
  BY PutEffect
<1>8. ASSUME NEW n \in 1 .. Len(round'), Ahead(t, n)', t.pc # "thrown"
      PROVE  /\ ~ round'[n].committed
             /\ owed' \cap round'[n].remove = {} /\ doomed' \cap round'[n].add = {}
  <2>1. CASE n = Target
    <3>1. CASE n \in 1 .. Len(round)
      <4>1. Ahead(t, n) /\ round'[n] = r /\ CurrentRound = round[n]
        BY <1>5, <1>7, <1>8, <2>1, <3>1
      <4>2. ~ round[n].committed /\ owed \cap round[n].remove = {} /\ doomed \cap round[n].add = {}
        BY <1>8, <3>1, <4>1 DEF QueuesAt, Concerns
      <4> QED BY <1>4, <2>1, <4>1, <4>2
    <3>2. CASE n \notin 1 .. Len(round)
      <4>1. round'[n] = r /\ CurrentRound = NewRound
        BY <1>7, <2>1, <3>2
      <4> QED BY <1>4, <2>1, <4>1, NewFollows
    <3> QED BY <3>1, <3>2
  <2>2. CASE n # Target
    <3>1. n \in 1 .. Len(round) /\ round'[n] = round[n]
      BY <2>2, PutEffect
    <3>2. Ahead(t, n)
      BY <1>5, <1>8, <3>1
    <3> QED BY <1>8, <3>1, <3>2 DEF QueuesAt, Concerns
  <2> QED BY <2>1, <2>2
<1>9. ASSUME t.pc \in Working
      PROVE  owed' \cap round'[t.round].remove = {} /\ doomed' \cap round'[t.round].add = {}
  BY <1>1, <1>2, <1>4, <1>9 DEF QueuesAt, Concerns
<1>10. t.pc = "idle" => owed' = {} /\ doomed' = {} /\ Len(rounds') <= 1 /\ t.at = 0
  <2> SUFFICES ASSUME t.pc = "idle" PROVE owed' = {} /\ doomed' = {} /\ Len(rounds') <= 1 /\ t.at = 0
    OBVIOUS
  <2>1. owed' = {} /\ doomed' = {} /\ Len(rounds) <= 1 /\ t.at = 0
    BY DEF QueuesAt
  <2>2. \A n \in 1 .. Len(round) : ~ round[n].inCommit
    BY <1>1, <1>2 DEF TidyAt
  <2>3. CASE rounds = <<>>
    BY <2>1, <2>3, PutEffect
  <2>4. CASE rounds # <<>>
    <3>1. Last \in 1 .. Len(round)
      <4>1. RoundsTyped /\ Len(rounds) \in 1 .. Len(rounds)
        BY <2>4 DEF SessionInv, RoundsTyped
      <4> QED BY <4>1, RoundOf DEF Last
    <3>2. ~ NeedsRound
      BY <2>2, <2>4, <3>1 DEF NeedsRound
    <3> QED BY <2>1, <3>2 DEF PutCurrentRound
  <2> QED BY <2>1, <2>3, <2>4
<1>11. t.pc \in Working => t.at \in 1 .. Len(rounds') /\ rounds'[t.at] = t.round
  BY PutEffect DEF QueuesAt
<1>16. QueuesAt(task[c])'
  BY <1>3, <1>8, <1>9, <1>10, <1>11 DEF QueuesAt, Concerns, u
<1>12. \A i \in owed', n \in 1 .. Len(round) : i \in round[n].add => i \in round'[n].add
  BY <1>6, <1>7, PutEffect
<1>13. \A i \in owed' : Queued(t, i) => Queued(t, i)'
  BY <1>6, <1>12 DEF Queued
<1>14. \A i \in Items, n \in 1 .. Len(round) : i \in round[n].remove => i \in round'[n].remove
  BY <1>6, <1>7, PutEffect
<1>15. \A i \in Items : Listed(t, i) => Listed(t, i)'
  BY <1>6, <1>14 DEF Listed
<1> QED BY <1>4, <1>13, <1>15, <1>16

(* The application goes on: what it changes or removes is not owed any     *)
(* more, what it adds is not doomed.                                       *)
LEMMA EditsComplete ==
  ASSUME SessionInv, RoundsAgree, Tidy, ~ meddled, NEW c \in Commits, CompleteAt(task[c]),
         NEW i \in Items, Change(i) \/ Add(i) \/ Remove(i)
  PROVE  RoundsAgree' /\ CompleteAt(task[c])'
<1> DEFINE t == task[c]
<1>1. UNCHANGED <<db, known, task, skipped>>
  BY DEF Change, Add, Remove, Edit, entities
<1>2. CurrentRound \in Round /\ ~ CurrentRound.inCommit /\ RefsIn(CurrentRound)
  BY CurrentFollows
<1>3. owed' \subseteq owed /\ doomed' \subseteq doomed /\ \A j \in owed' : j \in Items /\ obj'[j] = obj[j]
  BY DEF Change, Add, Remove, CompleteAt, QueuesAt, SessionInv, RowsTyped
<1>4. /\ RoundsAgree' /\ QueuesAt(t)'
      /\ \A j \in owed' : Queued(t, j) => Queued(t, j)'
      /\ \A j \in Items : Listed(t, j) => Listed(t, j)'
      /\ t.pc \in Working => round'[t.round] = round[t.round]
  <2>1. CASE Change(i)
    <3>1. UNCHANGED <<round, rounds, task>>
      BY <1>1, <2>1 DEF Change
    <3>2. RoundsAgree'
      BY <3>1 DEF RoundsAgree, Distinct, RefsIn
    <3>3. QueuesAt(t)'
      BY <1>3, <3>1 DEF CompleteAt, QueuesAt, Concerns, Ahead
    <3> QED BY <3>1, <3>2, <3>3 DEF Queued, Listed, Ahead
  <2>2. CASE Add(i)
    <3> DEFINE r == AddTo(CurrentRound, {i})
    <3>1. PutCurrentRound(r) /\ doomed' = doomed \ r.add
      BY <2>2 DEF Add
    <3>2. r \in Round /\ ~ r.inCommit
      BY <1>2, AddToRound
    <3>3. RefsIn(r) /\ r.remove = CurrentRound.remove /\ r.committed = CurrentRound.committed
          /\ CurrentRound.add \subseteq r.add
      BY <1>2, AddFollows
    <3> HIDE DEF r
    <3>4. \A j \in doomed' : j \notin r.add
      BY <3>1
    <3> QED BY <1>1, <1>3, <3>1, <3>2, <3>3, <3>4, PutAgrees, PutQueues DEF CompleteAt
  <2>3. CASE Remove(i)
    <3> DEFINE r == RemoveFrom(CurrentRound, i)
    <3>1. PutCurrentRound(r) /\ owed' = owed \ {i}
      BY <2>3 DEF Remove
    <3>2. r \in Round /\ ~ r.inCommit
      BY <1>2, RemoveFromRound
    <3>3. RefsIn(r) /\ r.remove = CurrentRound.remove \cup {i} /\ r.committed = CurrentRound.committed
          /\ r.add = CurrentRound.add \ {i}
      BY <1>2, RemoveFollows
    <3> HIDE DEF r
    <3> QED BY <1>1, <1>3, <3>1, <3>2, <3>3, PutAgrees, PutQueues DEF CompleteAt
  <2> QED BY <2>1, <2>2, <2>3
<1>5. doomed \subseteq Items
  BY DEF CompleteAt, QueuesAt
<1>6. WorkAt(t)'
  BY <1>1, <1>3, <1>4, <1>5 DEF CompleteAt, WorkAt, InHand, Going, Deleting, Working
<1>7. OrderAt(t)'
  BY <1>1, <1>4 DEF CompleteAt, OrderAt, InHand, Adding, OfClass, Working, Persisting
<1> QED BY <1>4, <1>6, <1>7 DEF CompleteAt

(* The work on a round, one action after the other.                        *)
LEMMA PlanStays ==
  ASSUME SessionInv, NEW c \in Commits,
         \/ DeleteDone(c) \/ DeletePost(c) \/ InsertPre(c) \/ InsertDone(c) \/ InsertPost(c)
         \/ UpdatePre(c) \/ UpdateDone(c) \/ UpdatePost(c) \/ StoreMany(c)
  PROVE  LET u == task'[c] IN
         u.at = task[c].at /\ u.round = task[c].round /\ u.todo = task[c].todo /\ u.class = task[c].class
<1> DEFINE t == task[c]
           Plan(u) == u.at = t.at /\ u.round = t.round /\ u.todo = t.todo /\ u.class = t.class
<1>1. task \in [Commits -> TaskState] /\ t \in TaskState
  BY DEF SessionInv, TasksTyped
<1>2. \A u : Go(c, u) \/ Await(c, u) \/ Continue(c, u) => task'[c] = u
  BY <1>1 DEF Go, Await, Continue
<1>3. CASE DeleteDone(c) \/ DeletePost(c)
  BY <1>1, <1>2, <1>3 DEF DeleteDone, DeletePost, TaskState
<1>4. CASE UpdatePre(c) \/ UpdateDone(c) \/ UpdatePost(c)
  BY <1>1, <1>2, <1>4 DEF UpdatePre, UpdateDone, UpdatePost, TaskState
<1>5. CASE InsertPre(c)
  BY <1>1, <1>2, <1>5 DEF InsertPre, TaskState
<1>6. CASE InsertDone(c) \/ InsertPost(c)
  <2>1. Plan(AfterInserts(t))
    BY <1>1 DEF AfterInserts, TaskState
  <2>2. Plan([t EXCEPT !.pc = "insertPost"])
    BY <1>1 DEF TaskState
  <2>3. task'[c] = AfterInserts(t) \/ task'[c] = [t EXCEPT !.pc = "insertPost"]
    BY <1>2, <1>6 DEF InsertDone, InsertPost
  <2> QED BY <2>1, <2>2, <2>3
<1>7. CASE StoreMany(c)
  BY <1>1, <1>2, <1>7 DEF StoreMany, TaskState
<1> QED BY <1>3, <1>4, <1>5, <1>6, <1>7

LEMMA SameQueues ==
  ASSUME NEW c \in Commits, QueuesAt(task[c]), UNCHANGED <<round, rounds, owed, doomed>>,
         task'[c].at = task[c].at, task'[c].round = task[c].round,
         task[c].pc \in Working, task'[c].pc \in Working
  PROVE  /\ QueuesAt(task[c])'
         /\ \A i : Queued(task[c], i) => Queued(task[c], i)'
         /\ \A i : Listed(task[c], i) => Listed(task[c], i)'
<1>1. {"idle", "thrown"} \cap Working = {}
  BY DEF Working, Deleting, Persisting, Writing
<1>2. \A n : Ahead(task[c], n)' <=> Ahead(task[c], n)
  BY DEF Ahead
<1> QED BY <1>1, <1>2 DEF QueuesAt, Concerns, Queued, Listed

LEMMA SameRoundsAgree == RoundsAgree /\ UNCHANGED <<round, rounds>> => RoundsAgree'
BY DEF RoundsAgree, Distinct, RefsIn

(* The next class whose rows are removed, or the end of that.              *)
LEMMA NextDeleteMoves ==
  ASSUME SessionInv, NEW c \in Commits, NextDelete(c)
  PROVE  LET t == task[c]
             u == task'[c] IN
         /\ u.at = t.at /\ u.round = t.round /\ UNCHANGED <<db, skipped>>
         /\ \/ /\ t.todo = {} /\ u.pc = "persist" /\ UNCHANGED <<obj, round, rounds, owed, doomed>>
            \/ \E k \in t.todo :
                 /\ u.pc \in {"deletePre", "delete"} /\ u.class = k /\ u.todo = t.todo \ {k}
                 /\ \/ k \notin SoftDeleted /\ UNCHANGED <<obj, round, rounds, owed, doomed>>
                    \/ LET items == OfClass(round[t.round].remove, k)
                           r == AddTo(CurrentRound, items)
                       IN /\ \A i \in Items \ items : obj'[i] = obj[i]
                          /\ PutCurrentRound(r) /\ doomed' = doomed \ r.add /\ owed' = owed \ items
<1> DEFINE t == task[c]
           u == task'[c]
           done == [t EXCEPT !.pc = "persist", !.class = "none"]
           more(k) == [t EXCEPT !.pc = Hooked("deletePre", "delete"), !.class = k, !.todo = @ \ {k}]
<1>1. task \in [Commits -> TaskState] /\ t \in TaskState
  BY DEF SessionInv, TasksTyped
<1>2. \A v : Await(c, v) => u = v
  BY <1>1 DEF Await
<1>3. done.at = t.at /\ done.round = t.round /\ done.pc = "persist"
  BY <1>1 DEF TaskState
<1>4. \A k : /\ more(k).at = t.at /\ more(k).round = t.round /\ more(k).pc \in {"deletePre", "delete"}
             /\ more(k).class = k /\ more(k).todo = t.todo \ {k}
  BY <1>1 DEF TaskState, Hooked
<1> HIDE DEF done, more
<1>5. CASE t.todo = {}
  <2>1. Await(c, done) /\ UNCHANGED <<obj, round, rounds, owed, doomed, db, skipped>>
    BY <1>5 DEF NextDelete, done
  <2> QED BY <1>2, <1>3, <1>5, <2>1
<1>6. CASE t.todo # {}
  <2>1. PICK k \in t.todo :
          LET items == OfClass(round[t.round].remove, k) IN
          /\ Await(c, more(k))
          /\ IF k \in SoftDeleted
             THEN /\ obj' = [i \in Items |-> IF i \in items THEN Deleted ELSE obj[i]]
                  /\ LET r == AddTo(CurrentRound, items) IN PutCurrentRound(r) /\ doomed' = doomed \ r.add
                  /\ owed' = owed \ items
             ELSE UNCHANGED <<obj, round, rounds, owed, doomed>>
    BY Zenon, <1>6 DEF NextDelete, more
  <2>2. UNCHANGED <<db, skipped>>
    BY Zenon DEF NextDelete
  <2>3. u = more(k)
    BY <1>2, <2>1
  <2> QED BY <1>4, <2>1, <2>2, <2>3
<1> QED BY <1>5, <1>6

(* A class is in hand until its rows are removed, or left to a new round.  *)
LEMMA NextDeleteComplete ==
  ASSUME SessionInv, Tidy, ~ meddled, RoundsAgree, NEW c \in Commits, CompleteAt(task[c]), NextDelete(c)
  PROVE  RoundsAgree' /\ CompleteAt(task[c])'
<1> DEFINE t == task[c]
           u == task'[c]
<1>1. /\ t.pc = "deletes" /\ QueuesAt(t) /\ WorkAt(t)
      /\ u.pc \in {"persist", "deletePre", "delete"} /\ u.at = t.at /\ u.round = t.round
      /\ UNCHANGED <<db, skipped>>
  BY Zenon, NextDeleteMoves, HooksMove DEF NextDelete, At, CompleteAt, Moves
<1>2. /\ {"persist", "deletes", "deletePre", "delete"} \subseteq Working \ Persisting
      /\ {"deletes", "deletePre", "delete"} \subseteq Deleting /\ "persist" \notin Deleting
      /\ "thrown" \notin Working
  BY DEF Working, Deleting, Persisting, Writing
<1>3. OrderAt(t)'
  BY <1>1, <1>2 DEF OrderAt, Persisting
<1>4. t.round \in 1 .. Len(round) /\ TidyAt(t)
  BY <1>1, <1>2, WorkingOn DEF SessionInv, Tidy
<1>5. ASSUME UNCHANGED <<obj, round, rounds, owed, doomed>>,
             \A i \in Items : Going(t, i) => Going(t, i)'
      PROVE  RoundsAgree' /\ CompleteAt(t)'
  <2>1. /\ RoundsAgree' /\ QueuesAt(t)'
        /\ \A i : Queued(t, i) => Queued(t, i)'
        /\ \A i : Listed(t, i) => Listed(t, i)'
    BY <1>1, <1>2, <1>5, SameQueues, SameRoundsAgree
  <2>2. \A i : InHand(t, i) => InHand(t, i)'
    BY <1>1, <1>2, <1>5 DEF InHand
  <2>3. WorkAt(t)'
    BY <1>1, <1>2, <1>5, <2>1, <2>2 DEF WorkAt, QueuesAt
  <2> QED BY <1>3, <2>1, <2>3 DEF CompleteAt
<1>6. CASE t.todo = {} /\ u.pc = "persist" /\ UNCHANGED <<obj, round, rounds, owed, doomed>>
  <2>1. \A i : ~ Going(t, i)
    BY <1>1, <1>6 DEF Going
  <2> QED BY <1>5, <1>6, <2>1
<1>7. ASSUME NEW k \in t.todo, u.pc \in {"deletePre", "delete"}, u.class = k, u.todo = t.todo \ {k},
             k \notin SoftDeleted, UNCHANGED <<obj, round, rounds, owed, doomed>>
      PROVE  RoundsAgree' /\ CompleteAt(t)'
  <2>1. \A i \in Items : Going(t, i) => Going(t, i)'
    BY <1>1, <1>2, <1>7 DEF Going
  <2> QED BY <1>5, <1>7, <2>1
<1>8. ASSUME NEW k \in t.todo, u.pc \in {"deletePre", "delete"}, u.class = k, u.todo = t.todo \ {k},
             NEW items, items = OfClass(round[t.round].remove, k),
             NEW r, r = AddTo(CurrentRound, items),
             \A i \in Items \ items : obj'[i] = obj[i],
             PutCurrentRound(r), doomed' = doomed \ r.add, owed' = owed \ items
      PROVE  RoundsAgree' /\ CompleteAt(t)'
  <2>1. CurrentRound \in Round /\ ~ CurrentRound.inCommit /\ RefsIn(CurrentRound)
    BY CurrentFollows
  <2>2. items \in SUBSET Items
    BY <1>1, <1>2, <1>8, WorkingOn DEF SessionInv, OfClass, Round, RoundState
  <2>3. r \in Round /\ ~ r.inCommit
    BY <1>8, <2>1, <2>2, AddToRound
  <2>4. /\ RefsIn(r) /\ r.remove = CurrentRound.remove /\ r.committed = CurrentRound.committed
        /\ CurrentRound.add \subseteq r.add /\ items \subseteq r.add \cup CurrentRound.remove
    BY <1>8, <2>1, <2>2, AddFollows
  <2>5. RoundsAgree'
    BY <1>8, <2>3, <2>4, PutAgrees
  <2>6. /\ QueuesAt(t)' /\ round'[t.round] = round[t.round]
        /\ \A i \in owed' : Queued(t, i) => Queued(t, i)'
        /\ \A i \in Items : Listed(t, i) => Listed(t, i)'
    <3>1. task'[c].pc = task[c].pc \/ {task[c].pc, task'[c].pc} \subseteq Working
      BY <1>1, <1>2
    <3>2. \A i \in doomed' : i \notin r.add
      BY <1>8
    <3>3. owed' \subseteq owed /\ doomed' \subseteq doomed
      BY <1>8
    <3> QED BY Zenon, <1>1, <1>2, <1>8, <2>3, <2>4, <3>1, <3>2, <3>3, PutQueues
  <2>7. \E n \in 1 .. Len(round') : Ahead(t, n)' /\ round'[n] = r
    <3>1. Target \in 1 .. Len(round') /\ round'[Target] = r
      BY <1>8, <2>3, PutEffect
    <3>2. t.at \in 1 .. Len(rounds) /\ rounds[t.at] = t.round /\ Len(rounds) \in Nat
      BY <1>1, <1>2, RoundOf DEF QueuesAt, SessionInv
    <3>3. CASE NeedsRound
      <4>1. Target = Len(round) + 1 /\ Len(round) \in Nat
        BY <3>3, RoundOf DEF Target, SessionInv
      <4>2. Len(rounds') = Len(rounds) + 1 /\ rounds'[Len(rounds) + 1] = Target
        BY <1>8, <2>3, <4>1, PutEffect
      <4>3. Len(rounds) + 1 \in 1 .. Len(rounds') /\ t.at <= Len(rounds) + 1 /\ t.at # Len(rounds) + 1
        BY <3>2, <4>2
      <4> QED BY <1>1, <3>1, <4>2, <4>3 DEF Ahead
    <3>4. CASE ~ NeedsRound
      <4>1. Target = rounds[Len(rounds)] /\ ~ round[Last].inCommit
        BY <3>4, CurrentRoundFree DEF Target, Last, SessionInv
      <4>2. CASE rounds' = rounds
        <5>1. round[t.round].inCommit
          BY <1>1, <1>2, <1>4 DEF TidyAt
        <5>2. t.at # Len(rounds)
          BY <3>2, <4>1, <5>1 DEF Last
        <5> QED BY <1>1, <3>1, <3>2, <4>1, <4>2, <5>2 DEF Ahead
      <4> QED BY <1>8, <3>4, <4>2 DEF PutCurrentRound
    <3> QED BY <3>1, <3>3, <3>4
  <2>8. ASSUME NEW i \in doomed', Going(t, i) PROVE Going(t, i)' \/ Listed(t, i)'
    <3>1. Class[i] \in t.todo /\ i \in round[t.round].remove
      BY <1>1, <2>8 DEF Going
    <3>2. CASE Class[i] = k
      <4>1. i \in items /\ i \notin r.add
        BY <1>8, <3>1, <3>2 DEF OfClass
      <4>2. i \in r.remove
        BY <2>4, <4>1
      <4> QED BY <2>7, <4>2 DEF Listed
    <3>3. CASE Class[i] # k
      BY <1>1, <1>2, <1>8, <2>6, <3>1, <3>3 DEF Going
    <3> QED BY <3>2, <3>3
  <2>9. \A i \in owed' : i \in owed /\ obj'[i] = obj[i]
    BY <1>1, <1>8 DEF QueuesAt
  <2>10. \A i \in doomed' : i \in doomed /\ i \in Items
    BY <1>1, <1>8 DEF QueuesAt
  <2>11. \A i : InHand(t, i) => InHand(t, i)'
    BY <1>1, <1>2, <2>6 DEF InHand
  <2>12. WorkAt(t)'
    BY <1>1, <1>2, <2>6, <2>8, <2>9, <2>10, <2>11 DEF WorkAt
  <2> QED BY <1>3, <2>5, <2>6, <2>12 DEF CompleteAt
<1> QED BY <1>6, <1>7, <1>8, NextDeleteMoves

LEMMA DeletePreMoves ==
  ASSUME SessionInv, NEW c \in Commits, DeletePre(c)
  PROVE  LET t == task[c]
             u == task'[c] IN
         /\ u.at = t.at /\ u.round = t.round
         /\ \/ /\ t.class \in SoftDeleted /\ u.pc = "persist"
               /\ skipped' = skipped \cup {i \in round[t.round].remove : Class[i] \in t.todo}
            \/ u.pc = "delete" /\ u.class = t.class /\ u.todo = t.todo /\ skipped' = skipped
<1> DEFINE t == task[c]
<1>1. task \in [Commits -> TaskState] /\ t \in TaskState
  BY DEF SessionInv, TasksTyped
<1>2. \A v : Await(c, v) => task'[c] = v
  BY <1>1 DEF Await
<1>3. CASE t.class \in SoftDeleted
  BY <1>1, <1>2, <1>3 DEF DeletePre, TaskState
<1>4. CASE t.class \notin SoftDeleted
  BY <1>1, <1>2, <1>4 DEF DeletePre, TaskState
<1> QED BY <1>3, <1>4

(* The rows of a class are removed, or left out with those of all classes  *)
(* that are left.                                                          *)
LEMMA DeletesComplete ==
  ASSUME SessionInv, RoundsAgree, NEW c \in Commits, CompleteAt(task[c]),
         DeletePre(c) \/ DeleteDone(c) \/ DeletePost(c)
  PROVE  RoundsAgree' /\ CompleteAt(task[c])'
<1> DEFINE t == task[c]
           u == task'[c]
<1>1. /\ t.pc \in {"deletePre", "delete", "deletePost"} /\ u.pc \in {"persist", "delete", "deletePost", "deletes"}
      /\ u.at = t.at /\ u.round = t.round
      /\ UNCHANGED <<obj, round, rounds, owed, doomed>>
  <2>1. UNCHANGED <<obj, round, rounds, owed, doomed>>
    BY DEF DeletePre, DeleteDone, DeletePost, session, observed
  <2>2. t.pc \in {"deletePre", "delete", "deletePost"}
    BY DEF DeletePre, DeleteDone, DeletePost, At
  <2>3. u.at = t.at /\ u.round = t.round
    BY DeletePreMoves, PlanStays
  <2>4. u.pc \in {"persist", "delete", "deletePost", "deletes"}
    BY HooksMove DEF Moves
  <2> QED BY <2>1, <2>2, <2>3, <2>4
<1>2. /\ {"persist", "deletes", "deletePre", "delete", "deletePost"} \subseteq Working \ Persisting
      /\ {"deletes", "deletePre", "delete", "deletePost"} \subseteq Deleting /\ "persist" \notin Deleting
      /\ "thrown" \notin Working
  BY DEF Working, Deleting, Persisting, Writing
<1>3. /\ RoundsAgree' /\ QueuesAt(t)'
      /\ \A i : Queued(t, i) => Queued(t, i)'
      /\ \A i : Listed(t, i) => Listed(t, i)'
  BY <1>1, <1>2, SameQueues, SameRoundsAgree DEF CompleteAt
<1>4. OrderAt(t)'
  BY <1>1, <1>2 DEF OrderAt, Persisting
<1>5. /\ owed \subseteq Items /\ doomed \subseteq Items /\ WorkAt(t)
      /\ owed \cap round[t.round].remove = {}
  <2>1. t.round \in 1 .. Len(round)
    BY <1>1, <1>2, WorkingOn DEF SessionInv
  <2> QED BY <1>1, <1>2, <2>1 DEF CompleteAt, QueuesAt, Concerns
<1>6. \A i : InHand(t, i) => InHand(t, i)'
  BY <1>1, <1>2 DEF InHand
<1>7. /\ skipped \subseteq skipped'
      /\ \A i \in Items : \/ db'[i] = db[i]
                          \/ i \in round[t.round].remove /\ db'[i] = NoRow
      /\ \A i \in Items : Going(t, i) => i \in skipped' \/ db'[i] = NoRow \/ Going(t, i)'
  <2>1. CASE DeletePre(c)
    <3>1. t.pc = "deletePre" /\ db' = db
      BY <2>1 DEF DeletePre, At
    <3>2. CASE t.class \in SoftDeleted /\ skipped' = skipped \cup {i \in round[t.round].remove : Class[i] \in t.todo}
      BY <3>1, <3>2 DEF Going
    <3>3. CASE u.pc = "delete" /\ u.class = t.class /\ u.todo = t.todo /\ skipped' = skipped
      BY <1>1, <1>2, <3>1, <3>3 DEF Going
    <3> QED BY <2>1, <3>2, <3>3, DeletePreMoves
  <2>2. CASE DeleteDone(c)
    <3>1. /\ t.pc = "delete" /\ u.pc \in {"deletes", "deletePost"} /\ u.todo = t.todo /\ skipped' = skipped
          /\ \A i \in Items : db'[i] = IF i \in Removing(t) THEN NoRow ELSE db[i]
      BY <2>2, PlanStays, HooksMove DEF DeleteDone, At, Moves, observed
    <3>2. \A i \in Items : i \in Removing(t) <=> i \in round[t.round].remove /\ Class[i] = t.class
      BY DEF Removing, OfClass
    <3> QED BY <1>1, <1>2, <3>1, <3>2 DEF Going
  <2>3. CASE DeletePost(c)
    <3>1. t.pc = "deletePost" /\ u.pc = "deletes" /\ u.todo = t.todo /\ skipped' = skipped /\ db' = db
      BY <2>3, PlanStays, HooksMove DEF DeletePost, At, Moves, observed
    <3> QED BY <1>1, <1>2, <3>1 DEF Going
  <2> QED BY <2>1, <2>2, <2>3
<1>8. WorkAt(t)'
  <2>1. \A i \in owed' : db'[i] = obj'[i] \/ Queued(t, i)' \/ InHand(t, i)'
    BY <1>1, <1>2, <1>3, <1>5, <1>6, <1>7 DEF WorkAt
  <2>2. \A i \in doomed' : i \in skipped' \/ db'[i] = NoRow \/ Listed(t, i)' \/ Going(t, i)'
    BY <1>1, <1>2, <1>3, <1>5, <1>7 DEF WorkAt
  <2> QED BY <2>1, <2>2 DEF WorkAt
<1> QED BY <1>3, <1>4, <1>8 DEF CompleteAt

(* All that is added is in hand when persisting begins.                    *)
LEMMA BeginPersistComplete ==
  ASSUME SessionInv, RoundsAgree, NEW c \in Commits, CompleteAt(task[c]), BeginPersist(c)
  PROVE  RoundsAgree' /\ CompleteAt(task[c])'
<1> DEFINE t == task[c]
           u == task'[c]
<1>1. /\ t.pc = "persist" /\ u.pc = "groups" /\ u.at = t.at /\ u.round = t.round
      /\ u.todo = {Class[i] : i \in round[t.round].add}
      /\ UNCHANGED <<obj, db, round, rounds, owed, doomed, skipped>>
  <2>1. task \in [Commits -> TaskState] /\ t \in TaskState
    BY DEF SessionInv, TasksTyped
  <2> QED BY <2>1 DEF BeginPersist, At, Go, session, observed, TaskState
<1>2. /\ {"persist", "groups"} \subseteq Working \ (Deleting \cup Writing)
      /\ "persist" \notin Persisting /\ "groups" \in Persisting
      /\ "thrown" \notin Working
  BY DEF Working, Deleting, Persisting, Writing
<1>3. /\ RoundsAgree' /\ QueuesAt(t)'
      /\ \A i : Queued(t, i) => Queued(t, i)'
      /\ \A i : Listed(t, i) => Listed(t, i)'
  BY <1>1, <1>2, SameQueues, SameRoundsAgree DEF CompleteAt
<1>4. \A i \in round[t.round].add : InHand(t, i)'
  BY <1>1, <1>2 DEF InHand
<1>5. OrderAt(t)'
  BY <1>1, <1>2, <1>4 DEF OrderAt
<1>6. \A i : InHand(t, i) => InHand(t, i)'
  BY <1>4 DEF InHand
<1>7. \A i : ~ Going(t, i)
  BY <1>1, <1>2 DEF Going
<1>8. WorkAt(t)'
  BY <1>1, <1>2, <1>3, <1>6, <1>7 DEF WorkAt, CompleteAt
<1> QED BY <1>3, <1>5, <1>8 DEF CompleteAt

LEMMA NextGroupPlan ==
  ASSUME SessionInv, NEW c \in Commits, NextGroup(c), task[c].todo # {}
  PROVE  LET t == task[c]
             u == task'[c] IN
         /\ t.pc = "groups" /\ u.pc \in Writing /\ u.at = t.at /\ u.round = t.round
         /\ \E k \in First(t) : k \in t.todo /\ u.class = k /\ u.todo = t.todo \ {k}
         /\ UNCHANGED <<obj, db, round, rounds, owed, doomed, skipped>>
<1> DEFINE t == task[c]
           u == task'[c]
           G(k, w) == [t EXCEPT !.class = k, !.todo = @ \ {k}, !.changes = w]
           B(k, w, x, pc) == [G(k, w) EXCEPT !.pc = pc, !.inserts = x]
           Plan(v, k) == v.at = t.at /\ v.round = t.round /\ v.class = k /\ v.todo = t.todo \ {k}
<1>1. task \in [Commits -> TaskState] /\ t \in TaskState
  BY DEF SessionInv, TasksTyped
<1>2. \A v : Await(c, v) \/ Continue(c, v) => u = v
  BY <1>1 DEF Go, Await, Continue
<1>3. PICK k \in First(t) : \E w, x, pc :
        u = AfterInserts(G(k, w)) \/ u = B(k, w, x, pc)
  BY Zenon, <1>2 DEF NextGroup
<1>4. \A w : /\ Plan([G(k, w) EXCEPT !.pc = "store"], k)
             /\ \A pc : Plan([G(k, w) EXCEPT !.pc = pc], k)
  BY <1>1 DEF TaskState
<1>10. \A w, x, pc : Plan(B(k, w, x, pc), k)
  BY <1>1 DEF TaskState
<1> HIDE DEF G, B, Plan
<1>5. \A w : Plan(AfterInserts(G(k, w)), k)
  BY <1>4 DEF AfterInserts
<1>6. Plan(u, k)
  <2>1. PICK w, x, pc : u = AfterInserts(G(k, w)) \/ u = B(k, w, x, pc)
    BY <1>3
  <2>2. CASE u = AfterInserts(G(k, w))
    BY <1>5, <2>2
  <2>3. CASE u = B(k, w, x, pc)
    BY <1>10, <2>3
  <2> QED BY <2>1, <2>2, <2>3
<1>7. u.pc \in Writing
  BY NextGroupMoves
<1>8. k \in t.todo
  BY DEF First
<1>9. t.pc = "groups" /\ UNCHANGED <<obj, db, round, rounds, owed, doomed, skipped>>
  BY Zenon DEF NextGroup, At, observed
<1> QED BY <1>6, <1>7, <1>8, <1>9 DEF Plan

(* The group in hand is the one that refers to no group that is left.      *)
LEMMA NextGroupComplete ==
  ASSUME SessionInv, RoundsAgree, NEW c \in Commits, CompleteAt(task[c]), NextGroup(c), task[c].todo # {}
  PROVE  RoundsAgree' /\ CompleteAt(task[c])'
<1> DEFINE t == task[c]
           u == task'[c]
<1>1. /\ t.pc = "groups" /\ u.pc \in Writing /\ u.at = t.at /\ u.round = t.round
      /\ UNCHANGED <<obj, db, round, rounds, owed, doomed, skipped>>
  BY NextGroupPlan
<1>2. PICK k \in First(t) : k \in t.todo /\ u.class = k /\ u.todo = t.todo \ {k}
  BY NextGroupPlan
<1>3. /\ "groups" \in (Working \cap Persisting) \ (Deleting \cup Writing) /\ Writing \subseteq Working \cap Persisting
      /\ Writing \cap Deleting = {} /\ "thrown" \notin Working
  BY DEF Working, Deleting, Persisting, Writing
<1>4. /\ RoundsAgree' /\ QueuesAt(t)'
      /\ \A i : Queued(t, i) => Queued(t, i)'
      /\ \A i : Listed(t, i) => Listed(t, i)'
  BY <1>1, <1>3, SameQueues, SameRoundsAgree DEF CompleteAt
<1>5. \A i : InHand(t, i) => InHand(t, i)'
  BY <1>1, <1>2, <1>3 DEF InHand
<1>6. \A i : ~ Going(t, i)
  BY <1>1, <1>3 DEF Going
<1>7. WorkAt(t)'
  BY <1>1, <1>3, <1>4, <1>5, <1>6 DEF WorkAt, CompleteAt
<1>8. OrderAt(t)'
  <2>1. \A i \in round[t.round].add : db[i] # NoRow \/ InHand(t, i)
    BY <1>1, <1>3 DEF CompleteAt, OrderAt
  <2>2. \A i \in Adding(t)' : \A j \in Refs[i] : j \in round[t.round].add => Class[j] \notin u.todo \cup {u.class}
    <3>1. Adding(t)' = OfClass(round[t.round].add, k)
      BY <1>1, <1>2 DEF Adding, OfClass
    <3>2. \A i \in OfClass(round[t.round].add, k) : \A j \in Refs[i] \cap round[t.round].add : Class[j] \notin t.todo
      BY <1>2 DEF First
    <3> QED BY <1>2, <3>1, <3>2
  <2> QED BY <1>1, <1>5, <2>1, <2>2 DEF OrderAt
<1> QED BY <1>4, <1>7, <1>8 DEF CompleteAt

(* What the database takes of a group is what its entities hold.           *)
LEMMA WritingMoves ==
  ASSUME SessionInv, Stored, ~ meddled, NEW c \in Commits,
         InsertPre(c) \/ InsertDone(c) \/ InsertPost(c) \/ UpdatePre(c) \/ UpdateDone(c) \/ UpdatePost(c)
  PROVE  /\ task[c].pc \in Writing /\ task'[c].pc \in Writing
         /\ UNCHANGED <<obj, round, rounds, owed, doomed, skipped>>
         /\ \A i \in Items : db'[i] = db[i] \/ (i \in Adding(task[c]) /\ db'[i] = obj[i])
<1> DEFINE t == task[c]
<1>1. t.pc \in Writing
  BY DEF InsertPre, InsertDone, InsertPost, UpdatePre, UpdateDone, UpdatePost, At, Writing
<1>2. task'[c].pc \in Writing
  BY HooksMove, InsertsMove DEF Moves, Writing
<1>3. UNCHANGED <<obj, round, rounds, owed, doomed, skipped>>
  BY DEF InsertPre, InsertDone, InsertPost, UpdatePre, UpdateDone, UpdatePost, session, observed
<1>4. Taken(t)
  BY <1>1 DEF Stored, StoredAt
<1>5. ASSUME InsertDone(c), NEW i \in Items
      PROVE  db'[i] = db[i] \/ (i \in Adding(t) /\ db'[i] = obj[i])
  <2>1. db'[i] = (IF i \in DOMAIN t.inserts THEN t.inserts[i] ELSE db[i]) /\ t.pc = "insert"
    BY <1>5 DEF InsertDone, At
  <2> QED BY <1>4, <2>1 DEF Taken
<1>6. ASSUME UpdateDone(c), NEW i \in Items
      PROVE  db'[i] = db[i] \/ (i \in Adding(t) /\ db'[i] = obj[i])
  <2>1. db'[i] = IF i \in DOMAIN t.changes /\ db[i] # NoRow THEN t.changes[i] ELSE db[i]
    BY <1>6 DEF UpdateDone
  <2> QED BY <1>4, <2>1 DEF Taken
<1>7. InsertPre(c) \/ InsertPost(c) \/ UpdatePre(c) \/ UpdatePost(c) => db' = db
  BY DEF InsertPre, InsertPost, UpdatePre, UpdatePost
<1> QED BY <1>1, <1>2, <1>3, <1>5, <1>6, <1>7

LEMMA WritingComplete ==
  ASSUME SessionInv, RoundsAgree, Stored, ~ meddled, NEW c \in Commits, CompleteAt(task[c]),
         InsertPre(c) \/ InsertDone(c) \/ InsertPost(c) \/ UpdatePre(c) \/ UpdateDone(c) \/ UpdatePost(c)
  PROVE  RoundsAgree' /\ CompleteAt(task[c])'
<1> DEFINE t == task[c]
           u == task'[c]
<1>1. /\ t.pc \in Writing /\ u.pc \in Writing /\ u.at = t.at /\ u.round = t.round
      /\ u.todo = t.todo /\ u.class = t.class
      /\ UNCHANGED <<obj, round, rounds, owed, doomed, skipped>>
      /\ \A i \in Items : db'[i] = db[i] \/ (i \in Adding(t) /\ db'[i] = obj[i])
  BY WritingMoves, PlanStays
<1>2. /\ Writing \subseteq Working \cap Persisting /\ Writing \cap Deleting = {} /\ "thrown" \notin Working
  BY DEF Working, Deleting, Persisting, Writing
<1>3. /\ RoundsAgree' /\ QueuesAt(t)'
      /\ \A i : Queued(t, i) => Queued(t, i)'
      /\ \A i : Listed(t, i) => Listed(t, i)'
  BY <1>1, <1>2, SameQueues, SameRoundsAgree DEF CompleteAt
<1>4. \A i : InHand(t, i) => InHand(t, i)'
  BY <1>1, <1>2 DEF InHand
<1>5. \A i : ~ Going(t, i)
  BY <1>1, <1>2 DEF Going
<1>6. /\ owed \subseteq Items /\ doomed \subseteq Items /\ doomed \cap round[t.round].add = {}
      /\ round[t.round].add \subseteq Items
  <2>1. t.round \in 1 .. Len(round) /\ round[t.round] \in RoundState
    BY <1>1, <1>2, WorkingOn DEF SessionInv, Round
  <2> QED BY <1>1, <1>2, <2>1 DEF CompleteAt, QueuesAt, Concerns, RoundState
<1>7. \A i \in Items : obj[i] # NoRow
  BY SessionAssumption DEF SessionInv, RowsTyped
<1>8. WorkAt(t)'
  <2>1. \A i \in owed' : db'[i] = obj'[i] \/ Queued(t, i)' \/ InHand(t, i)'
    BY <1>1, <1>2, <1>3, <1>4, <1>6 DEF WorkAt, CompleteAt
  <2>2. \A i \in doomed' : i \in skipped' \/ db'[i] = NoRow \/ Listed(t, i)'
    BY <1>1, <1>2, <1>3, <1>5, <1>6 DEF WorkAt, CompleteAt, Adding, OfClass
  <2> QED BY <2>1, <2>2 DEF WorkAt
<1>9. OrderAt(t)'
  <2>1. \A i \in round[t.round].add : db'[i] # NoRow \/ InHand(t, i)'
    BY <1>1, <1>2, <1>4, <1>6, <1>7 DEF CompleteAt, OrderAt
  <2> QED BY <1>1, <1>2, <2>1 DEF CompleteAt, OrderAt, Adding, OfClass
<1> QED BY <1>3, <1>8, <1>9 DEF CompleteAt

(* A group that is stored has the rows of what its entities hold.          *)
LEMMA StoreComplete ==
  ASSUME SessionInv, RoundsAgree, Stored, ~ meddled, NEW c \in Commits, CompleteAt(task[c]), StoreMany(c)
  PROVE  RoundsAgree' /\ CompleteAt(task[c])'
<1> DEFINE t == task[c]
           u == task'[c]
<1>1. /\ t.pc = "store" /\ u.pc = "groups" /\ u.at = t.at /\ u.round = t.round
      /\ u.todo = t.todo /\ u.class = t.class
      /\ UNCHANGED <<obj, db, round, rounds, owed, doomed, skipped>>
  BY Zenon, OthersMove, PlanStays DEF StoreMany, At, Moves, session, observed
<1>2. /\ {"groups", "store"} \subseteq (Working \cap Persisting) \ Deleting
      /\ "store" \in Writing /\ "groups" \notin Writing /\ "thrown" \notin Working
  BY DEF Working, Deleting, Persisting, Writing
<1>3. /\ RoundsAgree' /\ QueuesAt(t)'
      /\ \A i : Queued(t, i) => Queued(t, i)'
      /\ \A i : Listed(t, i) => Listed(t, i)'
  BY <1>1, <1>2, SameQueues, SameRoundsAgree DEF CompleteAt
<1>4. Taken(t) /\ Written(t) /\ \A i \in known : snap[i] # db[i] => i \in DOMAIN t.changes
  BY <1>1, <1>2 DEF Stored, StoredAt
<1>5. \A i \in Adding(t) : db[i] = obj[i]
  BY <1>1, <1>4 DEF Taken, Written
<1>6. \A i \in Items : obj[i] # NoRow
  BY SessionAssumption DEF SessionInv, RowsTyped
<1>7. Adding(t) \subseteq Items
  BY <1>1, <1>2, WorkingOn DEF SessionInv
<1>8. \A i : InHand(t, i) => InHand(t, i)' \/ i \in Adding(t)
  BY <1>1, <1>2 DEF InHand, Adding, OfClass
<1>9. \A i : ~ Going(t, i)
  BY <1>1, <1>2 DEF Going
<1>10. WorkAt(t)'
  BY <1>1, <1>2, <1>3, <1>5, <1>8, <1>9 DEF WorkAt, CompleteAt
<1>11. OrderAt(t)'
  BY <1>1, <1>2, <1>5, <1>6, <1>7, <1>8 DEF OrderAt, CompleteAt
<1> QED BY <1>3, <1>10, <1>11 DEF CompleteAt

(* A round comes into its commit and leaves it; its queues stay.           *)
LEMMA FlagsOnly ==
  ASSUME RoundsTyped, NEW n \in 1 .. Len(round), NEW b \in BOOLEAN,
         \/ round' = [round EXCEPT ![n].inCommit = b]
         \/ round' = [round EXCEPT ![n].committed = TRUE, ![n].inCommit = FALSE]
  PROVE  /\ Len(round') = Len(round)
         /\ \A m \in 1 .. Len(round) : /\ round'[m].add = round[m].add /\ round'[m].remove = round[m].remove
                                       /\ m # n => round'[m] = round[m]
         /\ round' = [round EXCEPT ![n].inCommit = b] => round'[n].committed = round[n].committed
<1>1. round[n] \in RoundState /\ DOMAIN round = 1 .. Len(round)
  BY RoundOf DEF Round
<1> DEFINE q == [round[n] EXCEPT !.inCommit = b]
           done == [round[n] EXCEPT !.committed = TRUE, !.inCommit = FALSE]
<1>2. q \in RoundState /\ q.add = round[n].add /\ q.remove = round[n].remove /\ q.committed = round[n].committed
  BY <1>1 DEF RoundState
<1>3. done \in RoundState /\ done.add = round[n].add /\ done.remove = round[n].remove
  BY <1>1 DEF RoundState
<1>4. \/ round' = [round EXCEPT ![n] = q]
      \/ round' = [round EXCEPT ![n] = done] /\ round' # [round EXCEPT ![n].inCommit = b]
  OBVIOUS
<1> HIDE DEF q, done
<1>5. ASSUME NEW v, round' = [round EXCEPT ![n] = v]
      PROVE  Len(round') = Len(round) /\ round'[n] = v /\ \A m \in 1 .. Len(round) : m # n => round'[m] = round[m]
  BY <1>1, <1>5 DEF RoundsTyped
<1> QED BY <1>2, <1>3, <1>4, <1>5

LEMMA FlagsAgree ==
  ASSUME RoundsAgree, rounds' = rounds, Len(round') = Len(round),
         \A n \in 1 .. Len(round) : round'[n].add = round[n].add /\ round'[n].remove = round[n].remove
  PROVE  RoundsAgree'
BY DEF RoundsAgree, Distinct, RefsIn

(* A round that is done has nothing left, and is not come to again.        *)
LEMMA GroupsEndComplete ==
  ASSUME SessionInv, RoundsAgree, NEW c \in Commits, CompleteAt(task[c]), NextGroup(c), task[c].todo = {}
  PROVE  RoundsAgree' /\ CompleteAt(task[c])'
<1> DEFINE t == task[c]
           u == task'[c]
<1>1. /\ t.pc = "groups" /\ u.pc = "rounds" /\ u.at = t.at + 1
      /\ round' = [round EXCEPT ![t.round].committed = TRUE, ![t.round].inCommit = FALSE]
      /\ UNCHANGED <<obj, db, rounds, owed, doomed, skipped>>
  <2>1. task \in [Commits -> TaskState] /\ Await(c, [Idle EXCEPT !.pc = "rounds", !.at = t.at + 1])
    BY DEF SessionInv, TasksTyped, NextGroup
  <2>2. u.pc = "rounds" /\ u.at = t.at + 1
    BY <2>1 DEF Await, Idle
  <2> QED BY <2>2 DEF NextGroup, At, observed
<1>2. /\ "groups" \in (Working \cap Persisting) \ (Deleting \cup Writing)
      /\ "rounds" \notin Working \cup Persisting \cup Writing
  BY DEF Working, Deleting, Persisting, Writing
<1>3. t.round \in 1 .. Len(round) /\ RoundsTyped /\ t.at \in Nat
  BY <1>1, <1>2, WorkingOn, TaskOf DEF SessionInv
<1>4. /\ Len(round') = Len(round)
      /\ \A m \in 1 .. Len(round) : /\ round'[m].add = round[m].add /\ round'[m].remove = round[m].remove
                                    /\ m # t.round => round'[m] = round[m]
  BY <1>1, <1>3, FlagsOnly
<1>5. RoundsAgree'
  BY <1>1, <1>4, FlagsAgree
<1>6. QueuesAt(t) /\ WorkAt(t) /\ t.at \in 1 .. Len(rounds) /\ rounds[t.at] = t.round
  BY <1>1, <1>2 DEF CompleteAt, QueuesAt
<1>7. \A n : Ahead(t, n)' <=> Ahead(t, n)
  <2> SUFFICES ASSUME NEW n PROVE Ahead(t, n)' <=> Ahead(t, n)
    OBVIOUS
  <2>1. \A k \in 1 .. Len(rounds) : u.at <= k <=> t.at <= k /\ t.at # k
    BY <1>1, <1>3
  <2>2. t.pc \in Working /\ u.pc \notin Working /\ rounds' = rounds
    BY <1>1, <1>2
  <2> QED BY <2>1, <2>2 DEF Ahead
<1>8. \A n : Ahead(t, n) => n # t.round
  BY <1>1, <1>2, <1>6 DEF Ahead, RoundsAgree, Distinct
<1>9. QueuesAt(t)'
  BY <1>1, <1>2, <1>4, <1>6, <1>7, <1>8 DEF QueuesAt, Concerns
<1>10. \A i : ~ InHand(t, i) /\ ~ Going(t, i)
  BY <1>1, <1>2 DEF InHand, Going
<1>11. \A i : (Queued(t, i) => Queued(t, i)') /\ (Listed(t, i) => Listed(t, i)')
  BY <1>4, <1>7 DEF Queued, Listed
<1>12. WorkAt(t)'
  BY <1>1, <1>6, <1>10, <1>11 DEF WorkAt
<1>13. OrderAt(t)'
  BY <1>1, <1>2 DEF OrderAt
<1> QED BY <1>5, <1>9, <1>12, <1>13 DEF CompleteAt

(* The loop over the rounds passes by those that are empty: what is ahead  *)
(* is neither committed nor in commit.                                     *)
LEMMA NextRoundMoves ==
  ASSUME SessionInv, NEW c \in Commits, NextRound(c)
  PROVE  LET t == task[c]
             u == task'[c]
             n == rounds[t.at] IN
         /\ t.pc = "rounds" /\ UNCHANGED <<obj, db>>
         /\ \/ /\ t.at > Len(rounds) /\ Return(c) /\ u.pc = "idle" /\ u.at = 0
            \/ /\ t.at \in 1 .. Len(rounds) /\ u.pc = "rounds" /\ u.at = t.at + 1
               /\ round[n].committed \/ round[n].inCommit \/ round[n].add \cup round[n].remove = {}
               /\ UNCHANGED <<round, rounds, owed, doomed, skipped>>
            \/ /\ t.at \in 1 .. Len(rounds) /\ u.pc = "deletes" /\ u.at = t.at /\ u.round = n
               /\ u.todo = {Class[i] : i \in round[n].remove}
               /\ round' = [round EXCEPT ![n].inCommit = TRUE]
               /\ UNCHANGED <<rounds, owed, doomed, skipped>>
<1> DEFINE t == task[c]
           u == task'[c]
           n == rounds[t.at]
           next == [t EXCEPT !.at = @ + 1]
           begun == [t EXCEPT !.pc = "deletes", !.round = n, !.persist = persistence,
                              !.todo = {Class[i] : i \in round[n].remove}]
<1>1. task \in [Commits -> TaskState] /\ t \in TaskState /\ t.pc = "rounds" /\ Len(rounds) \in Nat
  BY RoundOf DEF SessionInv, TasksTyped, NextRound, At
<1>2. t.at \in Nat /\ t.at # 0
  BY <1>1, TaskOf DEF SessionInv, TasksTyped
<1>3. \A v : Go(c, v) \/ Await(c, v) => u = v
  BY <1>1 DEF Go, Await
<1>4. UNCHANGED <<obj, db>>
  BY Zenon DEF NextRound, Return
<1>5. CASE t.at > Len(rounds)
  <2>1. Return(c)
    BY Zenon, <1>5 DEF NextRound
  <2>2. u = Idle
    BY <1>3, <2>1 DEF Return
  <2>3. Idle.pc = "idle" /\ Idle.at = 0
    BY DEF Idle
  <2> QED BY <1>1, <1>4, <1>5, <2>1, <2>2, <2>3
<1>6. CASE ~ (t.at > Len(rounds))
  <2>1. t.at \in 1 .. Len(rounds)
    BY <1>1, <1>2, <1>6
  <2>2. UNCHANGED <<rounds, owed, doomed, skipped>>
    BY Zenon, <1>6 DEF NextRound, observed
  <2>3. \/ /\ Go(c, next) \/ Await(c, next)
           /\ round[n].committed \/ round[n].inCommit \/ round[n].add \cup round[n].remove = {}
           /\ UNCHANGED round
        \/ Go(c, begun) /\ round' = [round EXCEPT ![n].inCommit = TRUE]
    BY Zenon, <1>6 DEF NextRound
  <2>4. next.pc = "rounds" /\ next.at = t.at + 1
    BY <1>1 DEF TaskState
  <2>5. begun.pc = "deletes" /\ begun.at = t.at /\ begun.round = n /\ begun.todo = {Class[i] : i \in round[n].remove}
    BY <1>1 DEF TaskState
  <2> HIDE DEF next, begun, n
  <2>6. CASE /\ Go(c, next) \/ Await(c, next)
             /\ round[n].committed \/ round[n].inCommit \/ round[n].add \cup round[n].remove = {}
             /\ UNCHANGED round
    <3>1. u = next
      BY <1>3, <2>6
    <3> QED BY <1>1, <1>4, <2>1, <2>2, <2>4, <2>6, <3>1 DEF n
  <2>7. CASE Go(c, begun) /\ round' = [round EXCEPT ![n].inCommit = TRUE]
    <3>1. u = begun
      BY <1>3, <2>7
    <3> QED BY <1>1, <1>4, <2>1, <2>2, <2>5, <2>7, <3>1 DEF n
  <2> QED BY <2>3, <2>6, <2>7
<1> QED BY <1>5, <1>6

LEMMA NextRoundComplete ==
  ASSUME SessionInv, Tidy, ~ meddled, RoundsAgree, NEW c \in Commits, CompleteAt(task[c]), NextRound(c)
  PROVE  RoundsAgree' /\ CompleteAt(task[c])'
<1> DEFINE t == task[c]
           u == task'[c]
           n == rounds[t.at]
<1>1. /\ t.pc = "rounds" /\ UNCHANGED <<obj, db>> /\ TidyAt(t) /\ t.at \in Nat /\ RoundsTyped
      /\ QueuesAt(t) /\ WorkAt(t)
  BY NextRoundMoves, TaskOf DEF SessionInv, Tidy, CompleteAt
<1>2. /\ {"idle", "rounds"} \cap (Working \cup Persisting) = {}
      /\ "deletes" \in (Working \cap Deleting) \ Persisting /\ Deleting \cup Writing \subseteq Working
  BY DEF Working, Deleting, Persisting, Writing
<1>3. \A m \in 1 .. Len(round) : ~ round[m].inCommit
  BY <1>1, <1>2 DEF TidyAt
<1>4. \A i : ~ InHand(t, i) /\ ~ Going(t, i)
  BY <1>1, <1>2 DEF InHand, Going
<1>5. u.pc \in {"idle", "rounds", "deletes"} => OrderAt(t)'
  BY <1>2 DEF OrderAt, Working, Persisting, Writing, Deleting
<1>6. \A m : Ahead(t, m) <=> \E k \in 1 .. Len(rounds) : rounds[k] = m /\ t.at <= k
  BY <1>1, <1>2 DEF Ahead
<1>7. CASE t.at > Len(rounds) /\ Return(c) /\ u.pc = "idle" /\ u.at = 0
  <2>1. owed' = {} /\ doomed' = {} /\ rounds' = <<>> /\ UNCHANGED round
    BY <1>1, <1>7 DEF Return, TidyAt
  <2>2. Len(rounds') = 0
    BY <2>1
  <2>3. RoundsAgree'
    BY <2>1, <2>2 DEF RoundsAgree, Distinct, RefsIn
  <2>4. \A m : ~ Ahead(t, m)'
    BY <2>2 DEF Ahead
  <2>5. QueuesAt(t)'
    BY <1>2, <1>7, <2>1, <2>2, <2>4 DEF QueuesAt, Concerns
  <2>6. WorkAt(t)'
    BY <2>1 DEF WorkAt
  <2> QED BY <1>5, <1>7, <2>3, <2>5, <2>6 DEF CompleteAt
<1>8. CASE /\ t.at \in 1 .. Len(rounds) /\ u.pc = "rounds" /\ u.at = t.at + 1
           /\ round[n].committed \/ round[n].inCommit \/ round[n].add \cup round[n].remove = {}
           /\ UNCHANGED <<round, rounds, owed, doomed, skipped>>
  <2>1. Ahead(t, n) /\ n \in 1 .. Len(round)
    BY <1>1, <1>6, <1>8, RoundOf
  <2>2. round[n].add = {} /\ round[n].remove = {}
    BY <1>1, <1>3, <1>8, <2>1 DEF QueuesAt
  <2>3. \A m : Ahead(t, m)' <=> \E k \in 1 .. Len(rounds) : rounds[k] = m /\ t.at + 1 <= k
    BY <1>2, <1>8 DEF Ahead
  <2>4. \A k \in 1 .. Len(rounds) : t.at <= k <=> k = t.at \/ t.at + 1 <= k
    BY <1>1
  <2> HIDE DEF n
  <2>5. \A m : Ahead(t, m) <=> m = n \/ Ahead(t, m)'
    BY <1>6, <1>8, <2>3, <2>4 DEF n
  <2>6. RoundsAgree'
    BY <1>8, SameRoundsAgree
  <2>7. QueuesAt(t)'
    BY <1>1, <1>2, <1>8, <2>5 DEF QueuesAt, Concerns
  <2>8. \A i : (Queued(t, i) => Queued(t, i)') /\ (Listed(t, i) => Listed(t, i)')
    BY <1>8, <2>2, <2>5 DEF Queued, Listed
  <2>9. WorkAt(t)'
    BY <1>1, <1>4, <1>8, <2>8 DEF WorkAt
  <2> QED BY <1>5, <1>8, <2>6, <2>7, <2>9 DEF CompleteAt
<1>9. CASE /\ t.at \in 1 .. Len(rounds) /\ u.pc = "deletes" /\ u.at = t.at /\ u.round = n
           /\ u.todo = {Class[i] : i \in round[n].remove}
           /\ round' = [round EXCEPT ![n].inCommit = TRUE]
           /\ UNCHANGED <<rounds, owed, doomed, skipped>>
  <2>1. Ahead(t, n) /\ n \in 1 .. Len(round)
    BY <1>1, <1>6, <1>9, RoundOf
  <2>2. \A m : Ahead(t, m)' <=> \E k \in 1 .. Len(rounds) : rounds[k] = m /\ t.at <= k /\ t.at # k
    BY <1>2, <1>9 DEF Ahead
  <2> HIDE DEF n
  <2>3. \A m : Ahead(t, m) <=> m = n \/ Ahead(t, m)'
    BY <1>6, <1>9, <2>1, <2>2 DEF n
  <2>4. /\ Len(round') = Len(round)
        /\ \A m \in 1 .. Len(round) : /\ round'[m].add = round[m].add /\ round'[m].remove = round[m].remove
                                      /\ round'[m].committed = round[m].committed
    BY <1>1, <1>9, <2>1, FlagsOnly
  <2>5. RoundsAgree'
    BY <1>9, <2>4, FlagsAgree
  <2>6. QueuesAt(t)'
    BY <1>1, <1>2, <1>9, <2>1, <2>3, <2>4 DEF QueuesAt, Concerns, n
  <2>7. \A i : i \in round[n].add => InHand(t, i)'
    BY <1>2, <1>9, <2>1, <2>4 DEF InHand
  <2>8. \A i : i \in round[n].remove => Going(t, i)'
    BY <1>2, <1>9, <2>1, <2>4 DEF Going
  <2>9. \A i : Queued(t, i) => Queued(t, i)' \/ InHand(t, i)'
    BY <2>3, <2>4, <2>7 DEF Queued
  <2>10. \A i : Listed(t, i) => Listed(t, i)' \/ Going(t, i)'
    BY <2>3, <2>4, <2>8 DEF Listed
  <2>11. WorkAt(t)'
    BY <1>1, <1>4, <1>9, <2>9, <2>10 DEF WorkAt
  <2> QED BY <1>5, <1>9, <2>5, <2>6, <2>11 DEF CompleteAt
<1> QED BY <1>7, <1>8, <1>9, NextRoundMoves

(* What is put before commit() is a single round; what it finds in its     *)
(* queues and in the identity map is owed.                                 *)
LEMMA CommitMoves ==
  ASSUME SessionInv, Tidy, ~ meddled, RoundsAgree, NEW c \in Commits, QueuesAt(task[c]), Commit(c)
  PROVE  /\ UNCHANGED <<obj, db>> /\ task'[c].at = 1 /\ task'[c].pc \in {"commitPre", "rounds"}
         /\ \E n \in 1 .. Len(round'), r \in Round :
              /\ round'[n] = r /\ RefsIn(r) /\ ~ r.committed /\ identityMap \subseteq r.add \cup r.remove
              /\ Len(rounds') = 1 /\ rounds'[1] = n
              /\ \A m \in 1 .. Len(round') : m # n => RefsIn(round'[m])
              /\ owed' = (identityMap \cup r.add) \ r.remove /\ doomed' = r.remove
<1> DEFINE t == task[c]
           none == rounds = <<>>
           made == IF none THEN Append(round, NewRound) ELSE round
           list == IF none THEN <<Len(made)>> ELSE rounds
           current == list[Len(list)]
           refused == made[current].inCommit /\ identityMap # {}
           r == AddTo(made[current], identityMap)
           open == {IF list[k] = current THEN r ELSE made[list[k]] : k \in {k \in DOMAIN list :
                      ~ made[list[k]].inCommit /\ ~ made[list[k]].committed}}
           removes == UNION {q.remove : q \in open}
           adds == UNION {q.add : q \in open}
<1>1. /\ t.pc = "idle" /\ TidyAt(t) /\ round \in Seq(Round) /\ rounds \in Seq(1 .. Len(round))
      /\ identityMap \in SUBSET Items /\ task \in [Commits -> TaskState]
  BY DEF Tidy, Commit, SessionInv, RoundsTyped, RowsTyped, TasksTyped
<1>2. \A n \in 1 .. Len(round) : ~ round[n].inCommit
  BY <1>1 DEF TidyAt, Working, Deleting, Persisting, Writing
<1>3. owed = {} /\ doomed = {} /\ Len(rounds) <= 1 /\ t.at = 0
  BY <1>1 DEF QueuesAt
<1>4. /\ made \in Seq(Round) /\ Len(made) \in Nat /\ Len(list) = 1 /\ DOMAIN list = {1} /\ list[1] = current
      /\ current \in 1 .. Len(made)
      /\ \A n \in 1 .. Len(made) : /\ RefsIn(made[n]) /\ made[n] \in Round
                                   /\ ~ made[n].inCommit
      /\ ~ made[current].committed
  <2>1. CASE none
    <3>1. /\ made = Append(round, NewRound) /\ list = <<Len(round) + 1>> /\ Len(round) \in Nat
          /\ current = Len(round) + 1 /\ Len(made) = Len(round) + 1
      BY <1>1, <2>1
    <3>2. NewRound \in Round /\ RefsIn(NewRound) /\ ~ NewRound.committed /\ ~ NewRound.inCommit
      BY NewFollows DEF NewRound
    <3>3. /\ made \in Seq(Round) /\ made[Len(round) + 1] = NewRound
          /\ \A n \in 1 .. Len(round) : made[n] = round[n]
      BY <1>1, <3>1, <3>2
    <3>4. Len(list) = 1 /\ DOMAIN list = {1} /\ list[1] = current
      BY <3>1
    <3>5. \A n \in 1 .. Len(made) : n \in 1 .. Len(round) \/ n = Len(round) + 1
      BY <3>1
    <3> HIDE DEF made, list, current
    <3> QED BY <1>1, <1>2, <3>1, <3>2, <3>3, <3>4, <3>5 DEF RoundsAgree
  <2>2. CASE ~ none
    <3>1. made = round /\ list = rounds /\ Len(rounds) = 1
      <4>1. Len(rounds) \in 1 .. Len(rounds)
        BY <1>1, <2>2
      <4>2. Len(rounds) = 1
        BY <1>3, <4>1, RoundOf DEF SessionInv
      <4>3. made = round /\ list = rounds
        BY <2>2
      <4> QED BY <4>2, <4>3
    <3>2. current = rounds[1] /\ 1 \in 1 .. Len(rounds) /\ DOMAIN list = {1}
      <4>1. current = list[Len(list)]
        OBVIOUS
      <4>2. DOMAIN rounds = 1 .. 1
        BY <3>1, RoundOf DEF SessionInv
      <4>3. 1 \in 1 .. Len(rounds) /\ 1 .. 1 = {1}
        BY <3>1
      <4> HIDE DEF list, current
      <4> QED BY Zenon, <3>1, <4>1, <4>2, <4>3
    <3>3. current \in 1 .. Len(round)
      BY <1>1, <3>2
    <3> HIDE DEF current
    <3>4. Ahead(t, current)
      BY <1>1, <1>3, <3>2 DEF Ahead, Working, Deleting, Persisting, Writing
    <3>5. ~ round[current].committed
      BY <1>1, <3>3, <3>4 DEF QueuesAt
    <3> QED BY <1>1, <1>2, <3>1, <3>2, <3>3, <3>5 DEF RoundsAgree
  <2> QED BY <2>1, <2>2
<1>5. /\ rounds' = list /\ UNCHANGED <<obj, db>>
      /\ ~ refused => /\ round' = [made EXCEPT ![current] = IF @.inCommit THEN @ ELSE r]
                      /\ owed' = owed \cup ((identityMap \cup adds) \ removes)
                      /\ doomed' = doomed \cup removes
                      /\ \/ Await(c, [Idle EXCEPT !.pc = "commitPre", !.at = 1])
                         \/ Go(c, [Idle EXCEPT !.pc = "rounds", !.at = 1])
  BY DEF Commit
<1>6. task'[c].at = 1 /\ task'[c].pc \in {"commitPre", "rounds"}
  <2>1. ~ refused
    <3> HIDE DEF made, current
    <3> QED BY <1>4
  <2>2. \/ Await(c, [Idle EXCEPT !.pc = "commitPre", !.at = 1])
        \/ Go(c, [Idle EXCEPT !.pc = "rounds", !.at = 1])
    BY <1>5, <2>1
  <2> QED BY <1>1, <2>2 DEF Await, Go, Idle
<1> HIDE DEF made, list, current
<1>7. /\ r \in Round /\ RefsIn(r) /\ r.committed = made[current].committed
      /\ identityMap \subseteq r.add \cup made[current].remove /\ r.remove = made[current].remove
  BY <1>1, <1>4, AddFollows, AddToRound
<1> HIDE DEF r
<1>8. open = {r}
  BY <1>4
<1> HIDE DEF open
<1>9. removes = r.remove /\ adds = r.add
  BY <1>8
<1> HIDE DEF removes, adds
<1>10. /\ round' = [made EXCEPT ![current] = r]
       /\ owed' = (identityMap \cup r.add) \ r.remove /\ doomed' = r.remove
  BY <1>3, <1>4, <1>5, <1>9
<1>11. Len(round') = Len(made) /\ round'[current] = r /\ \A m \in 1 .. Len(made) : m # current => round'[m] = made[m]
  BY <1>4, <1>10
<1> QED BY <1>4, <1>5, <1>6, <1>7, <1>10, <1>11

LEMMA CommitComplete ==
  ASSUME SessionInv, Tidy, ~ meddled, RoundsAgree, NEW c \in Commits, CompleteAt(task[c]), Commit(c)
  PROVE  RoundsAgree' /\ CompleteAt(task[c])'
<1> DEFINE t == task[c]
           u == task'[c]
<1>1. UNCHANGED <<obj, db>> /\ u.at = 1 /\ u.pc \in {"commitPre", "rounds"}
  BY CommitMoves DEF CompleteAt
<1>2. PICK n \in 1 .. Len(round'), r \in Round :
        /\ round'[n] = r /\ RefsIn(r) /\ ~ r.committed /\ identityMap \subseteq r.add \cup r.remove
        /\ Len(rounds') = 1 /\ rounds'[1] = n
        /\ \A m \in 1 .. Len(round') : m # n => RefsIn(round'[m])
        /\ owed' = (identityMap \cup r.add) \ r.remove /\ doomed' = r.remove
  BY CommitMoves DEF CompleteAt
<1>3. u.pc \notin Working /\ u.pc \notin Persisting /\ u.pc \notin Writing /\ u.pc \notin {"idle", "thrown"}
  BY <1>1 DEF Working, Deleting, Persisting, Writing
<1>4. r.add \subseteq Items /\ r.remove \subseteq Items /\ r.add \cap r.remove = {} /\ identityMap \subseteq Items
  BY DEF Round, RoundState, SessionInv, RowsTyped
<1>5. RoundsAgree'
  <2>1. \A m \in 1 .. Len(round') : RefsIn(round'[m])
    BY <1>2
  <2>2. Distinct'
    BY <1>2 DEF Distinct
  <2> QED BY <2>1, <2>2 DEF RoundsAgree, RefsIn
<1>6. \A m : Ahead(t, m)' <=> m = n
  BY <1>1, <1>2, <1>3 DEF Ahead
<1>7. \A i \in owed' : Queued(t, i)'
  BY <1>2, <1>6 DEF Queued
<1>8. \A i \in doomed' : Listed(t, i)'
  BY <1>2, <1>6 DEF Listed
<1>9. QueuesAt(t)'
  BY <1>2, <1>3, <1>4, <1>6 DEF QueuesAt, Concerns
<1>10. WorkAt(t)' /\ OrderAt(t)'
  BY <1>3, <1>7, <1>8 DEF WorkAt, OrderAt
<1> QED BY <1>5, <1>9, <1>10 DEF CompleteAt

LEMMA CommitPreComplete ==
  ASSUME SessionInv, RoundsAgree, NEW c \in Commits, CompleteAt(task[c]), CommitPre(c)
  PROVE  RoundsAgree' /\ CompleteAt(task[c])'
<1> DEFINE t == task[c]
           u == task'[c]
<1>1. t.pc = "commitPre" /\ u.pc = "rounds" /\ u.at = t.at
  <2>1. task \in [Commits -> TaskState] /\ t \in TaskState
    BY DEF SessionInv, TasksTyped
  <2> QED BY <2>1 DEF CommitPre, At, Go, TaskState
<1>2. UNCHANGED <<obj, db, round, rounds, owed, doomed, skipped>>
  BY DEF CommitPre, session, observed
<1>3. {"commitPre", "rounds"} \cap (Working \cup Persisting \cup Writing \cup Deleting) = {}
  BY DEF Working, Deleting, Persisting, Writing
<1>4. \A m : Ahead(t, m)' <=> Ahead(t, m)
  BY <1>1, <1>2, <1>3 DEF Ahead
<1>5. RoundsAgree'
  BY <1>2, SameRoundsAgree
<1>6. QueuesAt(t)'
  BY <1>1, <1>2, <1>3, <1>4 DEF QueuesAt, Concerns, CompleteAt
<1>7. \A i : ~ InHand(t, i) /\ ~ Going(t, i)
  BY <1>1, <1>3 DEF InHand, Going
<1>8. WorkAt(t)'
  BY <1>1, <1>2, <1>4, <1>7 DEF WorkAt, CompleteAt, Queued, Listed
<1>9. OrderAt(t)'
  BY <1>1, <1>3 DEF OrderAt
<1> QED BY <1>5, <1>6, <1>8, <1>9 DEF CompleteAt

(* A commit that failed owes nothing any more, and forgets its rounds.     *)
LEMMA EndsComplete ==
  ASSUME SessionInv, RoundsAgree, ~ meddled, ~ meddled', NEW c \in Commits, CompleteAt(task[c]),
         Fail(c) \/ Caught(c) \/ Reset
  PROVE  RoundsAgree' /\ CompleteAt(task[c])'
<1> DEFINE t == task[c]
           u == task'[c]
<1>1. {"idle", "thrown"} \cap (Working \cup Persisting \cup Writing) = {}
  BY DEF Working, Deleting, Persisting, Writing
<1>2. QueuesAt(t)
  BY DEF CompleteAt
<1>3. CASE Fail(c)
  <2>1. u.pc = "thrown" /\ UNCHANGED <<rounds, owed, doomed>>
    BY <1>3, OthersMove DEF Fail, Throw
  <2>2. t.pc \in Working /\ round' = [round EXCEPT ![t.round].inCommit = FALSE]
    BY <1>3 DEF Fail, Throw, Working, Deleting, Persisting, Writing
  <2>3. RoundsAgree'
    <3>1. t.round \in 1 .. Len(round) /\ RoundsTyped /\ FALSE \in BOOLEAN
      BY <2>2, WorkingOn DEF SessionInv
    <3>2. Len(round') = Len(round)
          /\ \A m \in 1 .. Len(round) : round'[m].add = round[m].add /\ round'[m].remove = round[m].remove
      BY <2>2, <3>1, FlagsOnly
    <3> QED BY <2>1, <3>2, FlagsAgree
  <2> QED BY <1>1, <1>2, <2>1, <2>3 DEF CompleteAt, QueuesAt, WorkAt, OrderAt
<1>4. CASE Caught(c) \/ Reset
  <2>1. u.pc = "idle" /\ u.at = 0 /\ owed' = {} /\ doomed' = {} /\ rounds' = <<>> /\ UNCHANGED round
    <3>1. CASE Caught(c)
      <4>1. task'[c] = Idle
        BY <3>1 DEF Caught, Await, SessionInv, TasksTyped
      <4> QED BY <3>1, <4>1 DEF Caught, Idle
    <3>2. CASE Reset
      BY <1>2, <3>2 DEF Reset, QueuesAt
    <3> QED BY <1>4, <3>1, <3>2
  <2>2. Len(rounds') = 0
    BY <2>1
  <2>3. RoundsAgree'
    BY <2>1, <2>2 DEF RoundsAgree, Distinct, RefsIn
  <2>4. \A m : ~ Ahead(t, m)'
    BY <2>2 DEF Ahead
  <2>5. QueuesAt(t)'
    BY <1>1, <2>1, <2>2, <2>4 DEF QueuesAt, Concerns
  <2>6. WorkAt(t)' /\ OrderAt(t)'
    BY <1>1, <2>1 DEF WorkAt, OrderAt
  <2> QED BY <2>3, <2>5, <2>6 DEF CompleteAt
<1> QED BY <1>3, <1>4

LEMMA CompleteStart == Init => Complete
<1> SUFFICES ASSUME Init PROVE RoundsAgree /\ \A c \in Commits : CompleteAt(task[c])
  BY DEF Complete
<1>1. owed = {} /\ doomed = {} /\ Len(round) = 0 /\ Len(rounds) = 0
      /\ \A c \in Commits : task[c].pc = "idle" /\ task[c].at = 0
  BY DEF Init, Idle
<1>2. "idle" \notin Working \cup Persisting \cup Writing
  BY DEF Working, Deleting, Persisting, Writing
<1>3. RoundsAgree
  BY <1>1 DEF RoundsAgree, Distinct
<1>4. \A c \in Commits : QueuesAt(task[c]) /\ WorkAt(task[c]) /\ OrderAt(task[c])
  BY <1>1, <1>2 DEF QueuesAt, WorkAt, OrderAt
<1> QED BY <1>3, <1>4 DEF CompleteAt

LEMMA CompleteStep ==
  ASSUME SessionInv, OneCaller, Tidy, Stored, Complete, [Next]_vars
  PROVE  Complete'
<1> SUFFICES ASSUME ~ meddled' PROVE Complete'
  BY DEF Complete
<1>1. ~ meddled
  BY MeddledStays
<1>2. RoundsAgree /\ \A c \in Commits : CompleteAt(task[c])
  BY <1>1 DEF Complete
<1>3. \E c \in Commits : TRUE
  BY DEF OneCaller
<1>4. CASE UNCHANGED vars
  BY <1>1, <1>2, <1>4
     DEF Complete, RoundsAgree, Distinct, RefsIn, CompleteAt, QueuesAt, WorkAt, OrderAt, Concerns, Ahead, Queued,
         Listed, InHand, Going, Adding, OfClass, vars, session, entities, observed
<1>5. ASSUME NEW i \in Items, Change(i) \/ Add(i) \/ Remove(i) PROVE Complete'
  BY <1>1, <1>2, <1>3, <1>5, EditsComplete, OnlyComplete
<1>6. CASE Reset
  BY <1>1, <1>2, <1>3, <1>6, EndsComplete, OnlyComplete
<1>7. ASSUME NEW c \in Commits, Commit(c) \/ CommitPre(c) \/ NextRound(c) \/ Fail(c) \/ Caught(c)
      PROVE  Complete'
  BY <1>1, <1>2, <1>7, CommitComplete, CommitPreComplete, NextRoundComplete, EndsComplete, OnlyComplete
<1>8. ASSUME NEW c \in Commits,
             NextDelete(c) \/ DeletePre(c) \/ DeleteDone(c) \/ DeletePost(c) \/ BeginPersist(c) \/ NextGroup(c)
      PROVE  Complete'
  BY <1>1, <1>2, <1>8, NextDeleteComplete, DeletesComplete, BeginPersistComplete, NextGroupComplete,
     GroupsEndComplete, OnlyComplete
<1>9. ASSUME NEW c \in Commits,
             \/ InsertPre(c) \/ InsertDone(c) \/ InsertPost(c)
             \/ UpdatePre(c) \/ UpdateDone(c) \/ UpdatePost(c) \/ StoreMany(c)
      PROVE  Complete'
  BY <1>1, <1>2, <1>9, WritingComplete, StoreComplete, OnlyComplete
<1>10. ASSUME NEW c \in Commits, Stop(c) PROVE FALSE
  BY <1>10 DEF Stop
<1> QED BY <1>4, <1>5, <1>6, <1>7, <1>8, <1>9, <1>10 DEF Next
-----------------------------------------------------------------------------
(* A commit ends where nothing is left ahead and no round is in hand.      *)
LEMMA NothingLeft ==
  ASSUME SessionInv, OneCaller, ~ meddled, Complete, Next, Finished
  PROVE  (\A i \in owed : db[i] = obj[i]) /\ (\A i \in doomed : i \in skipped \/ db[i] = NoRow)
<1>1. PICK c \in Commits : task[c].pc = "rounds" /\ task'[c].pc = "idle"
  BY DEF Finished
<1>2. \A d \in Commits : d = c
  BY DEF OneCaller
<1>3. NextRound(c)
  <2>1. ASSUME NEW i \in Items, Change(i) \/ Add(i) \/ Remove(i) PROVE task' = task
    BY <2>1 DEF Change, Add, Remove, Edit
  <2>2. Reset => task' = task
    BY DEF Reset
  <2>3. ~ (Commit(c) \/ CommitPre(c) \/ Fail(c) \/ Caught(c) \/ Stop(c))
    BY <1>1 DEF Commit, CommitPre, Fail, Throw, Caught, Stop, At
  <2>4. ~ (NextDelete(c) \/ DeletePre(c) \/ DeleteDone(c) \/ DeletePost(c) \/ BeginPersist(c) \/ NextGroup(c))
    BY <1>1 DEF NextDelete, DeletePre, DeleteDone, DeletePost, BeginPersist, NextGroup, At
  <2>5. /\ ~ (InsertPre(c) \/ InsertDone(c) \/ InsertPost(c))
        /\ ~ (UpdatePre(c) \/ UpdateDone(c) \/ UpdatePost(c) \/ StoreMany(c))
    BY <1>1 DEF InsertPre, InsertDone, InsertPost, UpdatePre, UpdateDone, UpdatePost, StoreMany, At
  <2>6. task' # task
    BY <1>1
  <2> QED BY <1>2, <2>1, <2>2, <2>3, <2>4, <2>5, <2>6 DEF Next
<1>4. task[c].at > Len(rounds)
  BY <1>1, <1>3, NextRoundMoves
<1>5. \A n : ~ Ahead(task[c], n)
  <2>1. Len(rounds) \in Nat /\ task[c].at \in Nat
    BY RoundOf, TaskOf DEF SessionInv
  <2> QED BY <1>4, <2>1 DEF Ahead
<1>6. \A i : ~ InHand(task[c], i) /\ ~ Going(task[c], i)
  BY <1>1 DEF InHand, Going, Working, Deleting, Persisting, Writing
<1>7. WorkAt(task[c])
  BY DEF Complete, CompleteAt
<1> QED BY <1>1, <1>5, <1>6, <1>7 DEF WorkAt, Queued, Listed

(* What is inserted refers to what waits in its round, and of that the     *)
(* group has rows already.                                                 *)
LEMMA ReferencesFirst ==
  ASSUME SessionInv, ~ meddled, Stored, Complete, Next,
         NEW i \in Items, db[i] = NoRow, db'[i] # NoRow, NEW j \in Refs[i]
  PROVE  db[j] # NoRow \/ \E n \in DOMAIN round : j \in round[n].remove
<1>1. PICK c \in Commits : InsertDone(c)
  <2>1. ASSUME NEW c \in Commits, DeleteDone(c) \/ UpdateDone(c) PROVE FALSE
    BY <2>1 DEF DeleteDone, UpdateDone
  <2>2. Reset \/ (\E k \in Items : Change(k) \/ Add(k) \/ Remove(k)) => db' = db
    BY Zenon DEF Change, Add, Remove, Edit, Reset
  <2>3. ASSUME NEW c \in Commits, Commit(c) \/ CommitPre(c) \/ NextRound(c) \/ Stop(c) \/ Fail(c) \/ Caught(c)
        PROVE  db' = db
    BY Zenon, <2>3 DEF Commit, CommitPre, NextRound, Return, Stop, Fail, Throw, Caught
  <2>4. ASSUME NEW c \in Commits,
               NextDelete(c) \/ DeletePre(c) \/ DeletePost(c) \/ BeginPersist(c) \/ NextGroup(c)
        PROVE  db' = db
    BY Zenon, <2>4 DEF NextDelete, DeletePre, DeletePost, BeginPersist, NextGroup
  <2>5. ASSUME NEW c \in Commits, InsertPre(c) \/ InsertPost(c) \/ UpdatePre(c) \/ UpdatePost(c) \/ StoreMany(c)
        PROVE  db' = db
    BY <2>5 DEF InsertPre, InsertPost, UpdatePre, UpdatePost, StoreMany
  <2> QED BY <2>1, <2>2, <2>3, <2>4, <2>5 DEF Next
<1> DEFINE t == task[c]
<1>2. t.pc = "insert" /\ i \in DOMAIN t.inserts
  BY <1>1 DEF InsertDone, At
<1>3. "insert" \in Working \cap Persisting \cap Writing
  BY DEF Working, Persisting, Writing
<1>4. i \in Adding(t)
  BY <1>2, <1>3 DEF Stored, StoredAt, Taken
<1>5. t.round \in 1 .. Len(round) /\ DOMAIN round = 1 .. Len(round)
  BY <1>2, <1>3, WorkingOn, RoundOf DEF SessionInv
<1>6. j \in round[t.round].add \cup round[t.round].remove
  BY <1>4, <1>5 DEF Complete, RoundsAgree, RefsIn, Adding, OfClass
<1>7. OrderAt(t)
  BY DEF Complete, CompleteAt
<1>8. j \in round[t.round].add => db[j] # NoRow
  BY <1>2, <1>3, <1>4, <1>7 DEF OrderAt, InHand
<1> QED BY <1>5, <1>6, <1>8

(***************************************************************************)
(* What a commit owes, with one caller and entities that hold still while  *)
(* they are written: it writes what it found, removes what it found, and   *)
(* inserts nothing before what it refers to, through every soft delete and *)
(* everything that is added and removed meanwhile.                         *)
(***************************************************************************)
THEOREM CommitsComplete == OneCaller /\ ~ EditInFlight => (Spec => CommitsAreComplete)
<1> SUFFICES ASSUME OneCaller, ~ EditInFlight PROVE Spec => CommitsAreComplete
  OBVIOUS
<1> DEFINE Inv == SessionInv /\ Tidy /\ Stored /\ Complete
<1>1. Init => Inv
  BY SessionStart, CompleteStart
<1>2. Inv /\ [Next]_vars => Inv'
  BY SessionStep, CallersStep, CompleteStep
<1>3. Inv /\ [Next]_vars => [Finished /\ ~ meddled => \A i \in owed : db[i] = obj[i]]_vars
  BY NothingLeft
<1>4. Inv /\ [Next]_vars => [Finished /\ ~ meddled => \A i \in doomed \ skipped : db[i] = NoRow]_vars
  BY NothingLeft
<1>5. Inv /\ [Next]_vars =>
        [\A i \in Items : db[i] = NoRow /\ db'[i] # NoRow /\ ~ meddled =>
           \A j \in Refs[i] : db[j] # NoRow \/ \E n \in DOMAIN round : j \in round[n].remove]_vars
  BY ReferencesFirst
<1>6. Spec => CommitWrites
  BY <1>1, <1>2, <1>3, PTL DEF Spec, CommitWrites
<1>7. Spec => CommitRemoves
  BY <1>1, <1>2, <1>4, PTL DEF Spec, CommitRemoves
<1>8. Spec => InsertsFollowReferences
  BY <1>1, <1>2, <1>5, PTL DEF Spec, InsertsFollowReferences
<1> QED BY <1>6, <1>7, <1>8 DEF CommitsAreComplete
=============================================================================
