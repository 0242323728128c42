----------------------------- MODULE Migrations -----------------------------
(***************************************************************************)
(* The migration commands of @deepkit/sql: migration:create writes a file  *)
(* whose version is the time, migration:up runs the statements of the next *)
(* file and records its version in a table, migration:down reverts the     *)
(* last. What is to be run is decided by the highest version recorded.     *)
(* Commands of several people run at the same time, none in a transaction, *)
(* and a command may end between two statements. Files come from branches, *)
(* so one of an older version may appear later.                            *)
(***************************************************************************)
EXTENDS Naturals, FiniteSets, FiniteSetsExt

CONSTANTS
    Version,        \* the versions of the migrations, positive numbers
    Command,        \* the commands that run at the same time
    Statements,     \* how many statements each migration has
    MaxCommands,    \* bound on the number of commands
    MaxFakes        \* bound on the commands with --fake

ASSUME MigrationsAssumption ==
    /\ Version \subseteq Nat \ {0} /\ IsFiniteSet(Version)
    /\ Statements \in Nat /\ MaxCommands \in Nat /\ MaxFakes \in Nat

VARIABLES
    files,          \* versions with a file
    recorded,       \* the versions in it
    applied,        \* how many statements of a version are in effect
    run,            \* the commands under way
    commands,       \* commands started so far
    faked,          \* versions recorded or removed by --fake
    cut,            \* whose command was cut short or met one the other way
    late            \* that came after a higher one, or were reverted before it

vars == <<files, recorded, applied, run, commands, faked, cut, late>>

Idle == [op |-> "idle"]
Task == [op : {"up", "down"}, version : Version, fake : BOOLEAN, at : 1 .. Statements + 1]

TypeOK ==
    /\ files \subseteq Version /\ recorded \subseteq Version
    /\ applied \in [Version -> 0 .. Statements]
    /\ run \in [Command -> Task \cup {Idle}]
    /\ commands \in 0 .. MaxCommands
    /\ faked \subseteq Version /\ cut \subseteq Version /\ late \subseteq Version

Higher(v) == {c \in Command : run[c].op = "up" /\ run[c].version > v}

Latest(versions) == IF versions = {} THEN 0 ELSE Max(versions)

(* A file appears, written by migration:create or by a merge.              *)
Create(v) ==
    /\ v \notin files
    /\ files' = files \cup {v}
    /\ late' = IF v <= Latest(recorded) \/ Higher(v) # {} THEN late \cup {v} ELSE late
    /\ UNCHANGED <<recorded, applied, run, commands, faked, cut>>

(* Every command decides by the latest version it reads when it begins.    *)
Read(c, op, v, fake) ==
    /\ run[c] = Idle /\ commands < MaxCommands
    /\ commands' = commands + 1
    /\ fake => Cardinality(faked) < MaxFakes
    /\ run' = [run EXCEPT ![c] = [op |-> op, version |-> v, fake |-> fake, at |-> 1]]
    /\ cut' = IF \E d \in Command : run[d].op \notin {"idle", op} /\ run[d].version = v
              THEN cut \cup {v} ELSE cut
    /\ UNCHANGED <<files, recorded, applied, faked, late>>

NextVersion == {v \in files : v > Latest(recorded)}

Up(c, fake) ==
    /\ NextVersion # {}
    /\ Read(c, "up", Min(NextVersion), fake)

Down(c, fake) ==
    /\ Latest(recorded) \in files
    /\ Read(c, "down", Latest(recorded), fake)

(* Statement at of the migration; a statement that was run already, or     *)
(* whose counterpart was not, fails and ends the command.                  *)
Statement(c) ==
    LET r == run[c] IN
    /\ r.op # "idle" /\ ~r.fake /\ r.at <= Statements
    /\ IF applied[r.version] = (IF r.op = "up" THEN r.at - 1 ELSE Statements - r.at + 1)
       THEN /\ applied' = [applied EXCEPT ![r.version] = IF r.op = "up" THEN @ + 1 ELSE @ - 1]
            /\ run' = [run EXCEPT ![c].at = @ + 1]
            /\ UNCHANGED cut
       ELSE /\ run' = [run EXCEPT ![c] = Idle]
            /\ cut' = IF r.at > 1 THEN cut \cup {r.version} ELSE cut
            /\ UNCHANGED applied
    /\ UNCHANGED <<files, recorded, commands, faked, late>>

Ran(c) == run[c].op # "idle" /\ (run[c].fake \/ run[c].at > Statements)

(* Mutant: the version is recorded before the statements are run. *)
RecordEarly(c) ==
    /\ run[c].op = "up" /\ run[c].version \notin recorded
    /\ recorded' = recorded \cup {run[c].version}
    /\ run' = [run EXCEPT ![c] = IF run[c].at > Statements \/ run[c].fake THEN Idle ELSE @]
    /\ UNCHANGED <<files, applied, commands, faked, cut, late>>

(* setLatestMigrationVersion: the version is the primary key.              *)
Record(c) ==
    /\ Ran(c) /\ run[c].op = "up"
    /\ recorded' = recorded \cup {run[c].version}
    /\ faked' = IF run[c].fake THEN faked \cup {run[c].version} ELSE faked
    /\ run' = [run EXCEPT ![c] = Idle]
    /\ UNCHANGED <<files, applied, commands, cut, late>>

(* removeMigrationVersion *)
RemoveVersion(c) ==
    /\ Ran(c) /\ run[c].op = "down"
    /\ recorded' = recorded \ {run[c].version}
    /\ faked' = IF run[c].fake THEN faked \cup {run[c].version} ELSE faked
    /\ run' = [run EXCEPT ![c] = Idle]
    /\ late' = IF Higher(run[c].version) # {} \/ run[c].version < Latest(recorded) THEN late \cup {run[c].version} ELSE late
    /\ UNCHANGED <<files, applied, commands, cut>>

(* The process of a command ends between two statements.                   *)
Crash(c) ==
    /\ run[c].op # "idle" /\ ~run[c].fake /\ run[c].at > 1
    /\ run' = [run EXCEPT ![c] = Idle]
    /\ cut' = cut \cup {run[c].version}
    /\ UNCHANGED <<files, recorded, applied, commands, faked, late>>

Init ==
    /\ files = {} /\ recorded = {}
    /\ applied = [v \in Version |-> 0]
    /\ run = [c \in Command |-> Idle]
    /\ commands = 0 /\ faked = {} /\ cut = {} /\ late = {}

Next ==
    \/ \E v \in Version : Create(v)
    \/ \E c \in Command : \/ \E fake \in BOOLEAN : Up(c, fake) \/ Down(c, fake)
                          \/ Statement(c) \/ Record(c) \/ RemoveVersion(c) \/ Crash(c)

Spec == Init /\ [][Next]_vars

-----------------------------------------------------------------------------
UnderWay(v) == \E c \in Command : run[c].op # "idle" /\ run[c].version = v

(***************************************************************************)
(* What is recorded was run in whole and what is not was not run at all,   *)
(* except for versions a command is at, that were faked, or for which a    *)
(* command was cut short or met one in the other direction: then every     *)
(* later command fails at its first statement. Of the files below the      *)
(* latest version only those that came late, or were reverted while a      *)
(* later one was under way, are not recorded.                              *)
(***************************************************************************)
BooksMatch ==
    /\ \A v \in Version \ (faked \cup cut) :
         ~UnderWay(v) => applied[v] = IF v \in recorded THEN Statements ELSE 0
    /\ \A v \in files \ recorded : v < Latest(recorded) => v \in late
=============================================================================
