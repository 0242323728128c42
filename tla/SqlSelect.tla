----------------------------- MODULE SqlSelect ------------------------------
(***************************************************************************)
(* How a query with joins becomes objects: the joins of the SELECT, the    *)
(* rows the database answers with in an order of its own, convertRows()    *)
(* that folds them into nested records (sql/src/sql-builder.ts), and the   *)
(* Formatter that makes instances of the records (orm/src/formatter.ts).   *)
(*                                                                         *)
(* A query of the root class populates two joins. The first goes to class  *)
(* A, the second to class B, either from the root or from A (nested); each *)
(* is an array (a back reference) or a single reference. The root has a    *)
(* second reference to A that is not joined.                               *)
(***************************************************************************)
EXTENDS Naturals, Sequences, SequencesExt, FiniteSets

CONSTANTS
    Root, A, B,     \* the primary keys in the three tables, positive numbers
    MaxRows         \* bound on the rows of one result

VARIABLES
    query,          \* the shape of the query
    rel1, rel2,     \* what the tables say: pairs of keys of the two joins
    other,          \* the foreign key of the reference that is not joined, 0 for none
    todo,           \* rows the database has yet to send
    sent,           \* rows it sent, in their order
    stack,          \* itemsStack of convertRows: an index of items for root, A and B, or 0
    items,          \* the records made so far
    result,         \* the records of roots, as indices of items
    found,          \* what find() answers with
    failed          \* convertRows threw

vars == <<query, rel1, rel2, other, todo, sent, stack, items, result, found, failed>>

Query == [array1 : BOOLEAN, array2 : BOOLEAN, nested : BOOLEAN, inner : BOOLEAN]

Partners(rel, k) == {p[2] : p \in {p \in rel : p[1] = k}}

(* A left join keeps a row without a partner, an inner join does not.      *)
OrNull(S, inner) == IF S = {} /\ ~inner THEN {0} ELSE S

(* The rows of the SELECT with its joins.                                  *)
Rows(q, r1, r2) ==
    UNION { UNION { { <<r, a, b>> : b \in OrNull(IF q.nested THEN Partners(r2, a) ELSE Partners(r2, r), FALSE) }
                    : a \in OrNull(Partners(r1, r), q.inner) } : r \in Root }

Functional(rel) == \A p, q \in rel : p[1] = q[1] => p = q

Record(class, pk) == [class |-> class, pk |-> pk, join1 |-> <<>>, join2 |-> <<>>]

-----------------------------------------------------------------------------
(***************************************************************************)
(* One iteration of the loop of convertRows. The record of a join is       *)
(* remembered on the stack while its primary key stays the same; what is   *)
(* put into the parent is the record of this row all the same.             *)
(***************************************************************************)
Same(its, st, level, pk) == st[level] # 0 /\ its[st[level]].pk = pk

FoldRoot(acc, pk) ==
    IF Same(acc.items, acc.stack, 1, pk) THEN acc
    ELSE LET id == Len(acc.items) + 1
         IN  [acc EXCEPT !.items = Append(@, Record("root", pk)), !.stack[1] = id,
                         !.result = IF acc.stack[1] # 0 THEN Append(@, acc.stack[1]) ELSE @]

(* Mutant: on top of the stack is always the last record. *)
FoldJoinLast(acc, level, parent, class, pk, isArray) ==
    IF pk = 0 THEN acc
    ELSE LET id == Len(acc.items) + 1
             into == acc.stack[parent]
             put(s) == IF isArray THEN Append(s, id) ELSE <<id>>
             its == Append(acc.items, Record(class, pk))
         IN  [acc EXCEPT !.stack[level] = id,
                         !.items = IF level = 2 THEN [its EXCEPT ![into].join1 = put(@)]
                                                ELSE [its EXCEPT ![into].join2 = put(@)]]

FoldJoin(acc, level, parent, class, pk, isArray) ==
    IF pk = 0 THEN acc
    ELSE LET id == Len(acc.items) + 1
             into == acc.stack[parent]
             put(s) == IF isArray THEN Append(s, id) ELSE <<id>>
             its == Append(acc.items, Record(class, pk))
         IN  [acc EXCEPT !.stack[level] = IF Same(acc.items, acc.stack, level, pk) THEN @ ELSE id,
                         !.items = IF level = 2 THEN [its EXCEPT ![into].join1 = put(@)]
                                                ELSE [its EXCEPT ![into].join2 = put(@)]]

FirstJoin(row) ==
    FoldJoin(FoldRoot([items |-> items, stack |-> stack, result |-> result], row[1]),
             2, 1, "A", row[2], query.array1)

(* forJoinIndex of the second join is the number of joins before it less   *)
(* one: the join before it is its parent, be it nested or not.             *)
ConvertRow(row) == FoldJoin(FirstJoin(row), 3, 2, "B", row[3], query.array2)

(* No record of the first join is there to put this one into.              *)
NoParent(row) == row[3] # 0 /\ FirstJoin(row).stack[2] = 0

-----------------------------------------------------------------------------
(***************************************************************************)
(* The Formatter without an identity map. Instances and the proxies of     *)
(* references are kept in one pool per class, and what is in the pool is   *)
(* taken as it is: hydrateModel, assignJoins, createObject, getReference.  *)
(* An instance enters the pool after its joins were hydrated. What a       *)
(* record holds under the name of a join that its class has not is ignored.*)
(***************************************************************************)
Instance(class, pk, proxy) == [class |-> class, pk |-> pk, proxy |-> proxy, join1 |-> <<>>, join2 |-> <<>>]

Pooled(f, class, pk) == {i \in f.pool : f.made[i].class = class /\ f.made[i].pk = pk}

RECURSIVE HydrateModel(_, _)
HydrateModel(f, id) ==
    LET record == items[id]
        hit == Pooled(f, record.class, record.pk)
        Each(acc, child) ==
            LET r == HydrateModel(acc.f, child) IN [f |-> r.f, ids |-> Append(acc.ids, r.id)]
        one == FoldLeft(Each, [f |-> f, ids |-> <<>>], record.join1)
        two == FoldLeft(Each, [f |-> one.f, ids |-> <<>>],
                        IF query.nested \/ record.class = "root" THEN record.join2 ELSE <<>>)
        pointed == IF record.class = "root" THEN other[record.pk] ELSE 0
        proxied == IF pointed # 0 /\ Pooled(two.f, "A", pointed) = {}
                   THEN [made |-> Append(two.f.made, Instance("A", pointed, TRUE)),
                         pool |-> two.f.pool \cup {Len(two.f.made) + 1}]
                   ELSE two.f
        new == Len(proxied.made) + 1
    IN  IF hit # {} THEN [f |-> f, id |-> CHOOSE i \in hit : TRUE]
        ELSE [f |-> [made |-> Append(proxied.made,
                                     [Instance(record.class, record.pk, FALSE)
                                        EXCEPT !.join1 = one.ids, !.join2 = two.ids]),
                     pool |-> proxied.pool \cup {new}],
              id |-> new]

(* find(): the records that convertRows answers with, hydrated one by one. *)
Hydrated(records) ==
    LET Each(acc, id) == LET r == HydrateModel(acc.f, id) IN [f |-> r.f, ids |-> Append(acc.ids, r.id)]
        all == FoldLeft(Each, [f |-> [made |-> <<>>, pool |-> {}], ids |-> <<>>], records)
    IN  [made |-> all.f.made, roots |-> all.ids]

-----------------------------------------------------------------------------
Init ==
    /\ query \in Query
    /\ rel1 \in SUBSET (Root \X A) /\ (query.array1 \/ Functional(rel1))
    /\ rel2 \in SUBSET ((IF query.nested THEN A ELSE Root) \X B) /\ (query.array2 \/ Functional(rel2))
    /\ other \in [Root -> A \cup {0}]
    /\ todo = Rows(query, rel1, rel2) /\ Cardinality(todo) \in 1..MaxRows
    /\ sent = <<>> /\ stack = <<0, 0, 0>> /\ items = <<>> /\ result = <<>>
    /\ found = [made |-> <<>>, roots |-> <<>>] /\ failed = FALSE

(* The database sends a row, whichever it likes. *)
Row(row) ==
    /\ ~failed /\ ~NoParent(row)
    /\ todo' = todo \ {row}
    /\ sent' = Append(sent, row)
    /\ LET acc == ConvertRow(row)
       IN  items' = acc.items /\ stack' = acc.stack /\ result' = acc.result
    /\ UNCHANGED <<query, rel1, rel2, other, found, failed>>

(* ... one that convertRows fails at, and find() with it. *)
RowThrows(row) ==
    /\ ~failed /\ NoParent(row)
    /\ failed' = TRUE
    /\ UNCHANGED <<query, rel1, rel2, other, todo, sent, stack, items, result, found>>

Find ==
    /\ todo = {} /\ found.roots = <<>>
    /\ result' = Append(result, stack[1])
    /\ found' = Hydrated(Append(result, stack[1]))
    /\ UNCHANGED <<query, rel1, rel2, other, todo, sent, stack, items, failed>>

Next == (\E row \in todo : Row(row) \/ RowThrows(row)) \/ Find

Spec == Init /\ [][Next]_vars

-----------------------------------------------------------------------------
Done == found.roots # <<>>

KeysOf(ids) == [i \in DOMAIN ids |-> found.made[ids[i]].pk]

(* Rows with the same keys in the given columns come one after another. *)
Together(columns) ==
    \A i, j, k \in DOMAIN sent :
        i < j /\ j < k /\ (\A c \in columns : sent[i][c] = sent[k][c]) =>
            \A c \in columns : sent[j][c] = sent[i][c]

(***************************************************************************)
(* When the rows of a root come together, and among them the rows of a     *)
(* joined item that others are joined to, find() answers with each root    *)
(* once, and each holds the items of the first join that the tables say    *)
(* belong to it and no others; if its rows are not multiplied by the       *)
(* second join, each item once. The same holds for the items of a nested   *)
(* second join. One exception is the code's: when several items are joined *)
(* to a single reference, the next row replaces the record that has the    *)
(* first of them by an empty one (sql-builder.ts:230). Nothing is said of  *)
(* the items of a second join from the root: the code takes the first join *)
(* for its parent (sql-builder.ts:163), in whose records they are lost.    *)
(***************************************************************************)
JoinsAreExact ==
    Done /\ Together({1}) /\ (query.nested => Together({1, 2})) =>
        LET roots == KeysOf(found.roots)
            of(i, join) == found.made[i][join]
        IN  /\ IsInjective(roots)
            /\ ToSet(roots) = {r \in Root : ~query.inner \/ Partners(rel1, r) # {}}
            /\ \A i \in ToSet(found.roots) :
                 /\ ToSet(KeysOf(of(i, "join1"))) = Partners(rel1, found.made[i].pk)
                 /\ Functional(rel2) => IsInjective(KeysOf(of(i, "join1")))
            /\ query.nested /\ (query.array1 \/ Functional(rel2)) => \A i \in DOMAIN found.made :
                 found.made[i].class = "A" /\ ~found.made[i].proxy =>
                     ToSet(KeysOf(of(i, "join2"))) = Partners(rel2, found.made[i].pk)
=============================================================================
