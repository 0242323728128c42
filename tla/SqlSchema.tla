----------------------------- MODULE SqlSchema ------------------------------
(***************************************************************************)
(* Migrating a database to what the entities say: createTables() makes the *)
(* model of the tables, a schema parser reads the tables there are, the    *)
(* comparators of sql/src/schema/table.ts compute the difference, and the  *)
(* platform turns it into statements that migrate() or a migration runs    *)
(* one after another. One table with data, three dialects.                 *)
(*                                                                         *)
(* A column is its name, whether it is NOT NULL, its default and whether   *)
(* it is the auto incremented primary key. Its type is left out: the       *)
(* comparator does not look at it. Names of indices and foreign keys that  *)
(* the platform makes are the table, the kind and the columns.             *)
(***************************************************************************)
EXTENDS Naturals, Sequences, SequencesExt, FiniteSets

CONSTANTS
    Dialect,        \* of "sqlite", "mysql", "postgres"
    OldColumns,     \* the columns the old table is made of
    NewColumns,     \* and the new one
    OldExtra,       \* what else the old table has: "none", "index", "unique", "cascade" or "restrict"
    NewExtra        \* and the new one

VARIABLES
    dialect,
    from, to,       \* the old and the new model of the table
    db,             \* the database: a set of tables with their data
    todo,           \* statements to run
    error           \* "no", or what is wrong with the statement that failed

vars == <<dialect, from, to, db, todo, error>>

-----------------------------------------------------------------------------
(***************************************************************************)
(* The model of a table: createTables(). A foreign key brings an index of  *)
(* its own, unless its column is the primary key.                          *)
(***************************************************************************)
AutoName(table, kind, columns) == <<table, kind, columns>>

CreateTable(name, columns, extra) ==
    LET first == columns[1].name
        fk(action) == {[name |-> AutoName(name, "fk", first), column |-> first, onDelete |-> action]}
        ofKey == IF columns[1].key THEN {}
                 ELSE {[name |-> AutoName(name, "fk", first), column |-> first, unique |-> FALSE]}
    IN  [name |-> name, columns |-> columns,
         indices |-> CASE extra = "index" -> {[name |-> <<"i">>, column |-> first, unique |-> FALSE]}
                       [] extra = "unique" -> {[name |-> <<"i">>, column |-> first, unique |-> TRUE]}
                       [] extra \in {"cascade", "restrict"} -> ofKey
                       [] OTHER -> {},
         fks |-> IF extra \in {"cascade", "restrict"} THEN fk(extra) ELSE {}]

ColumnLists(columns) == {<<c>> : c \in columns} \cup {p \in columns \X columns : p[1].name # p[2].name}

HasColumn(table, name) == \E i \in DOMAIN table.columns : table.columns[i].name = name
GetColumn(table, name) == CHOOSE c \in ToSet(table.columns) : c.name = name

-----------------------------------------------------------------------------
(* ColumnComparator, IndexComparator and ForeignKeyComparator.             *)
SameColumn(f, t) == f.notNull = t.notNull /\ f.key = t.key /\ f.default = t.default
SameIndex(f, t) == f.column = t.column /\ f.unique = t.unique
SameFk(f, t) == f.column = t.column /\ f.onDelete = t.onDelete

(***************************************************************************)
(* The search for renamed columns walks the list of added columns while it *)
(* takes entries out of it, so that after a hit the next entry is skipped. *)
(***************************************************************************)
RECURSIVE Renamings(_, _, _, _)
Renamings(added, removed, i, renamed) ==
    IF i > Len(added) THEN [added |-> added, removed |-> removed, renamed |-> renamed]
    ELSE LET hits == {j \in DOMAIN removed : SameColumn(added[i], removed[j])}
             j == CHOOSE j \in hits : \A k \in hits : j <= k
         IN  IF hits = {} THEN Renamings(added, removed, i + 1, renamed)
             ELSE Renamings(RemoveAt(added, i), RemoveAt(removed, j), i + 1,
                            Append(renamed, <<removed[j], added[i]>>))

(* Pairs of the same name that differ, those only in f and those only in t. *)
Changes(f, t, Same(_, _)) ==
    [modified |-> {p \in f \X t : p[1].name = p[2].name /\ ~Same(p[1], p[2])},
     removed |-> {x \in f : \A y \in t : x.name # y.name},
     added |-> {y \in t : \A x \in f : x.name # y.name}]

(***************************************************************************)
(* TableComparator.computeDiff. comparePrimaryKeys looks for the primary   *)
(* keys of the old table twice, so that it sees only a key whose column is *)
(* gone.                                                                   *)
(***************************************************************************)
TableDiff(f, t) ==
    LET isNew(c) == ~HasColumn(f, c.name)
        isGone(c) == ~HasColumn(t, c.name)
        r == Renamings(SelectSeq(t.columns, isNew), SelectSeq(f.columns, isGone), 1, <<>>)
        isModified(c) == HasColumn(t, c.name) /\ ~SameColumn(c, GetColumn(t, c.name))
    IN  [added |-> r.added, removed |-> r.removed, renamed |-> r.renamed,
         modified |-> SelectSeq(f.columns, isModified),
         pk |-> \E c \in ToSet(f.columns) : c.key /\ isGone(c),
         indices |-> Changes(f.indices, t.indices, SameIndex),
         fks |-> Changes(f.fks, t.fks, SameFk)]

None(changes) == changes.modified = {} /\ changes.removed = {} /\ changes.added = {}

IsEmptyDiff(d) ==
    /\ d.added = <<>> /\ d.removed = <<>> /\ d.renamed = <<>> /\ d.modified = <<>>
    /\ None(d.indices) /\ None(d.fks)

-----------------------------------------------------------------------------
(***************************************************************************)
(* The schema parsers. SQLite and MySQL tell a default as text, which is   *)
(* never the value of the model; the one of PostgreSQL does not see the    *)
(* primary key; SQLite keeps no names of foreign keys.                     *)
(***************************************************************************)
Parsed(table) ==
    [name |-> table.name,
     columns |-> [i \in DOMAIN table.columns |->
                    [table.columns[i] EXCEPT !.default = IF @ = "value" /\ dialect # "postgres" THEN "text" ELSE @]],
     indices |-> {x \in table.indices : ~(dialect = "sqlite" /\ GetColumn(table, x.column).key)},
     fks |-> IF dialect # "sqlite" THEN table.fks
             ELSE {[x EXCEPT !.name = AutoName(table.name, "fk", x.column)] : x \in table.fks}]

-----------------------------------------------------------------------------
Statement(op, table, what) == [op |-> op, table |-> table, what |-> what]

EachOf(S, op, table) == LET s == SetToSeq(S) IN [i \in DOMAIN s |-> Statement(op, table, s[i])]

(* DefaultPlatform.getModifyTableDDL: all changes of the table are put     *)
(* into one ALTER TABLE.                                                   *)
AlterLines(d) ==
      (IF d.pk THEN <<[change |-> "dropPk"]>> ELSE <<>>)
   \o [i \in DOMAIN d.renamed |-> [change |-> "rename", old |-> d.renamed[i][1].name, new |-> d.renamed[i][2].name]]
   \o [i \in DOMAIN d.modified |-> [change |-> "modify", column |-> GetColumn(to, d.modified[i].name)]]
   \o [i \in DOMAIN d.added |-> [change |-> "add", column |-> d.added[i]]]
   \o [i \in DOMAIN d.removed |-> [change |-> "remove", name |-> d.removed[i].name]]
   \o (IF d.pk THEN <<[change |-> "addPk"]>> ELSE <<>>)

ModifyTable(d) ==
    LET first(S) == {p[1] : p \in S}
        second(S) == {p[2] : p \in S}
    IN  EachOf(d.fks.removed \cup first(d.fks.modified), "dropFk", to.name)
     \o EachOf(d.indices.removed \cup first(d.indices.modified), "dropIndex", to.name)
     \o (IF AlterLines(d) = <<>> THEN <<>> ELSE <<Statement("alter", to.name, AlterLines(d))>>)
     \o EachOf(second(d.indices.modified) \cup d.indices.added, "addIndex", to.name)
     \o EachOf(second(d.fks.modified) \cup d.fks.added, "addFk", to.name)

(***************************************************************************)
(* SQLite changes a table by a new one into which the rows are copied,     *)
(* unless columns are only added that ALTER TABLE can add.                 *)
(***************************************************************************)
NeedsNewTable(d) ==
    \/ ~None(d.fks) \/ ~None(d.indices)
    \/ d.modified # <<>> \/ d.renamed # <<>> \/ d.removed # <<>>
    \/ \E c \in ToSet(d.added) :
         \/ c.key
         \/ [name |-> <<"i">>, column |-> c.name, unique |-> TRUE] \in to.indices
         \/ c.notNull /\ c.default = "none"

(* Mutant: renamed columns are not copied. *)
SelectMapSameNames(d) ==
    {<<c.name, c.name>> : c \in {c \in ToSet(to.columns) : HasColumn(Parsed(from), c.name)}}

(* The columns that are copied, as pairs of the old and the new name.      *)
SelectMap(d) ==
    LET taken == {p[1].name : p \in ToSet(d.renamed)}
    IN  {<<p[1].name, p[2].name>> : p \in ToSet(d.renamed)}
        \cup {<<c.name, c.name>> : c \in {c \in ToSet(to.columns) : HasColumn(Parsed(from), c.name) /\ c.name \notin taken}}

MigrationTable(d) ==
    << Statement("create", "temp", to), Statement("copy", "temp", SelectMap(d)),
       Statement("drop", from.name, <<>>), Statement("renameTable", "temp", to.name) >>
    \o EachOf(to.indices, "addIndex", to.name)

(***************************************************************************)
(* getModifyDatabaseDDL with one table in the database and one in the      *)
(* model: the same one, or another that may be the old one renamed.        *)
(***************************************************************************)
Ddl ==
    LET old == Parsed(from)
        d == TableDiff(old, to)
    IN  IF from.name = to.name
        THEN IF IsEmptyDiff(d) THEN <<>>
             ELSE IF dialect = "sqlite" /\ NeedsNewTable(d) THEN MigrationTable(d)
             ELSE ModifyTable(d)
        ELSE IF IsEmptyDiff(TableDiff(to, old)) THEN <<Statement("renameTable", from.name, to.name)>>
        ELSE <<Statement("drop", from.name, <<>>), Statement("create", to.name, to)>>
             \o EachOf(to.indices, "addIndex", to.name)
             \o (IF dialect = "postgres" THEN EachOf(to.fks, "addFk", to.name) ELSE <<>>)

-----------------------------------------------------------------------------
(***************************************************************************)
(* The database. Of every column a table knows whose data it holds.        *)
(***************************************************************************)
Table(name) == CHOOSE t \in db : t.name = name
NewData(names) == [n \in names |-> "fresh"]
Names(columns) == {c.name : c \in ToSet(columns)}

(* What a database says of a statement: "no" for no error.                 *)
Complaint(s) ==
    CASE s.op = "alter" /\ Len(s.what) > 1 -> "merged"  \* the name of the table is there once for each change
      [] s.op = "alter" /\ s.what[1].change = "modify" /\ dialect = "postgres" -> "dialect"
      [] s.op = "alter" /\ s.what[1].change = "add" /\ s.what[1].column.key /\ dialect = "mysql" -> "dialect"
      [] s.op = "alter" /\ s.what[1].change = "add" /\ dialect = "postgres"
            /\ s.what[1].column.notNull /\ s.what[1].column.default = "none" /\ ~s.what[1].column.key -> "data"
      [] s.op = "dropIndex" /\ dialect # "sqlite" -> "dialect"
      [] s.op = "copy" /\ \E c \in ToSet(to.columns) :
            /\ c.notNull /\ c.default = "none" /\ ~c.key
            /\ \A p \in s.what : p[2] # c.name -> "data"
      [] OTHER -> "no"

Without(f, n) == [x \in DOMAIN f \ {n} |-> f[x]]

Altered(t, line) ==
    CASE line.change = "rename" ->
            [t EXCEPT !.columns = [i \in DOMAIN @ |-> IF @[i].name = line.old THEN [@[i] EXCEPT !.name = line.new] ELSE @[i]],
                      !.indices = {IF x.column = line.old THEN [x EXCEPT !.column = line.new] ELSE x : x \in @},
                      !.fks = {IF x.column = line.old THEN [x EXCEPT !.column = line.new] ELSE x : x \in @},
                      !.data = [n \in (DOMAIN @ \ {line.old}) \cup {line.new} |-> IF n = line.new THEN @[line.old] ELSE @[n]]]
      [] line.change = "modify" ->
            [t EXCEPT !.columns = [i \in DOMAIN @ |-> IF @[i].name = line.column.name THEN line.column ELSE @[i]]]
      [] line.change = "add" ->
            [t EXCEPT !.columns = Append(@, line.column),
                      !.data = [n \in DOMAIN @ \cup {line.column.name} |-> IF n \in DOMAIN @ THEN @[n] ELSE "fresh"]]
      [] line.change = "remove" ->
            [t EXCEPT !.columns = SelectSeq(@, LAMBDA c : c.name # line.name),
                      !.indices = {x \in @ : x.column # line.name}, !.fks = {x \in @ : x.column # line.name},
                      !.data = Without(@, line.name)]

Created(name, model) ==
    [name |-> name, columns |-> model.columns, indices |-> {}, data |-> NewData(Names(model.columns)),
     fks |-> IF dialect = "postgres" THEN {} ELSE model.fks]

Change(name, t) == (db \ {Table(name)}) \cup {t}

Executed(s) ==
    CASE s.op = "create" -> db \cup {Created(s.table, s.what)}
      [] s.op = "drop" -> {t \in db : t.name # s.table}
      [] s.op = "renameTable" -> Change(s.table, [Table(s.table) EXCEPT !.name = s.what])
      [] s.op = "copy" -> Change(s.table, [Table(s.table) EXCEPT !.data =
                              [n \in DOMAIN @ |-> IF \E p \in s.what : p[2] = n
                                                  THEN Table(from.name).data[(CHOOSE p \in s.what : p[2] = n)[1]]
                                                  ELSE @[n]]])
      [] s.op = "alter" -> Change(s.table, Altered(Table(s.table), s.what[1]))
      [] s.op = "dropIndex" -> Change(s.table, [Table(s.table) EXCEPT !.indices = @ \ {s.what}])
      [] s.op = "addIndex" -> Change(s.table, [Table(s.table) EXCEPT !.indices = @ \cup {s.what}])
      [] s.op = "dropFk" -> Change(s.table, [Table(s.table) EXCEPT !.fks = {x \in @ : x.name # s.what.name}])
      [] s.op = "addFk" -> Change(s.table, [Table(s.table) EXCEPT !.fks = @ \cup {s.what}])

-----------------------------------------------------------------------------
Init ==
    /\ dialect \in Dialect
    /\ \E name \in {"t", "old"}, columns \in ColumnLists(OldColumns), extra \in OldExtra :
         from = CreateTable(name, columns, extra)
    /\ \E columns \in ColumnLists(NewColumns), extra \in NewExtra : to = CreateTable("t", columns, extra)
    /\ db = {[name |-> from.name, columns |-> from.columns, indices |-> from.indices, fks |-> from.fks,
              data |-> [n \in Names(from.columns) |-> n]]}
    /\ todo = Ddl
    /\ error = "no"

(* The loop of migrate(): an error ends it, and what was done stays done.  *)
Run ==
    /\ todo # <<>> /\ error = "no"
    /\ error' = Complaint(Head(todo))
    /\ db' = IF Complaint(Head(todo)) = "no" THEN Executed(Head(todo)) ELSE db
    /\ todo' = Tail(todo)
    /\ UNCHANGED <<dialect, from, to>>

Next == Run

Spec == Init /\ [][Next]_vars

-----------------------------------------------------------------------------
Migrated == todo = <<>> /\ error = "no"

HasDefault == \E c \in ToSet(to.columns) : c.default # "none"

(***************************************************************************)
(* A migration whose statements all ran leaves the table of the model: the *)
(* comparator finds no difference any more; every column that was there    *)
(* and is in the model by the same name holds the data it held, and every  *)
(* column taken for a renamed one the data of the old one. The             *)
(* exceptions are the parsers': defaults that SQLite and MySQL tell as     *)
(* text, and an index on the primary key, which the one of SQLite hides.   *)
(***************************************************************************)
MigratedIsTheModel ==
    Migrated =>
        /\ {t.name : t \in db} = {to.name}
        /\ \/ HasDefault /\ dialect # "postgres"
           \/ dialect = "sqlite" /\ \E x \in to.indices : GetColumn(to, x.column).key
           \/ IsEmptyDiff(TableDiff(Parsed(Table(to.name)), to))
        /\ from.name = to.name =>
             /\ \A n \in Names(from.columns) \cap Names(to.columns) : Table(to.name).data[n] = n
             /\ \A p \in ToSet(TableDiff(Parsed(from), to).renamed) :
                  Table(to.name).data[p[2].name] = p[1].name

=============================================================================
