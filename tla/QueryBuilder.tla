---------------------------- MODULE QueryBuilder ----------------------------
(***************************************************************************)
(* The query builder of @deepkit/orm (orm/src/query.ts): BaseQuery, Query, *)
(* JoinDatabaseQuery and DatabaseQueryModel. A query is an object; every   *)
(* call of the builder answers with a clone, so that a query may be kept   *)
(* and refined several times. What the objects share nevertheless is kept  *)
(* as in the program: the parameters of a query are one object together    *)
(* with the ones of its joins, the list of lifts is one object for all     *)
(* clones, and a join refers to its parent.                                *)
(*                                                                         *)
(* A model is the set of its options that are not at their default.        *)
(* "filter" is any condition the user gives, "discriminant" the one that   *)
(* single table inheritance adds, "copied" stands for having, select,      *)
(* groupBy, aggregate, skip, limit, itemsPerPage and sort.                 *)
(***************************************************************************)
EXTENDS Naturals, Sequences, SequencesExt, FiniteSets

CONSTANTS
    UserOption,     \* the options the user sets, of the ones below
    Lift,           \* the query classes a query is lifted to
    MaxQueries,     \* bound on the number of query objects
    MaxHeld         \* bound on the number of queries the user keeps

VARIABLES
    heap,           \* .q: the query objects, .p: the objects with parameters, .l: the lists of lifts
    held,           \* the queries the user keeps
    ran             \* what the resolver got of the last call

vars == <<heap, held, ran>>

(* What listens to the events of a query when it runs. *)
Listener == {"none", "pass", "replace"}

Option == {"filter", "copied", "noIdentityMap", "noChangeDetection", "returning"}

QueryAssumption == UserOption \subseteq Option

(* What clone() of the model carries over. *)
Copied == {"filter", "discriminant", "copied", "noIdentityMap"}

(* The entity is a subclass in a single table; it refers by "a" to a class *)
(* that refers by "b" to a third.                                          *)
Field(depth) == IF depth = 0 THEN "a" ELSE "b"
MaxDepth == 2

NewQuery(parent, depth, params, lifts, options) ==
    [parent |-> parent, depth |-> depth, options |-> options, params |-> params, lifts |-> lifts,
     joins |-> <<>>]

(***************************************************************************)
(* clone() of a query: a new object with a copy of the options, a copy of  *)
(* the parameters and clones of the joins, to which the new object with    *)
(* parameters is given only after they were cloned.                        *)
(***************************************************************************)
RECURSIVE Clone(_, _, _)
Clone(h, id, parent) ==
    LET old == h.q[id]
        new == Len(h.q) + 1
        params == Len(h.p) + 1
        bare == [h EXCEPT !.q = Append(@, [old EXCEPT !.parent = parent, !.joins = <<>>, !.params = params,
                                                      !.options = @ \cap Copied]),
                          !.p = Append(@, h.p[old.params])]
        CloneJoin(acc, join) ==
            LET r == Clone(acc.h, join.query, new)
            IN  [h |-> [r.h EXCEPT !.q[r.id].params = params],
                 joins |-> Append(acc.joins, [join EXCEPT !.query = r.id])]
        all == FoldLeft(CloneJoin, [h |-> bare, joins |-> <<>>], old.joins)
    IN  [h |-> [all.h EXCEPT !.q[new].joins = all.joins], id |-> new]

(* Mutant: the joins of the clone keep the query objects of the original. *)
ClonedShallow(id) ==
    LET c == Clone(heap, id, heap.q[id].parent)
    IN  [c EXCEPT !.h.q[c.id].joins = heap.q[id].joins, !.h.q[c.id].params = heap.q[id].params]

(* The clone a plain builder call starts with. *)
Cloned(id) == Clone(heap, id, heap.q[id].parent)

(* What a query says, with its joins. *)
RECURSIVE Says(_, _)
Says(h, id) ==
    LET q == h.q[id]
    IN  [options |-> q.options, params |-> h.p[q.params],
         joins |-> [i \in DOMAIN q.joins |->
                        [field |-> q.joins[i].field, query |-> Says(h, q.joins[i].query)]]]

Keeps(id) == id \in held /\ Cardinality(held) < MaxHeld

CanCall(id) == Keeps(id) /\ Len(heap.q) < MaxQueries

(* The query of the given number in the new heap is what the user gets. *)
Answer(h, id) ==
    /\ heap' = h
    /\ held' = held \cup {id}
    /\ ran' = [op |-> "none"]

(***************************************************************************)
(* filter, addFilter, sort, limit, page, disableIdentityMap,               *)
(* disableChangeDetection, returning and the others that set one option.   *)
(***************************************************************************)
SetOption(id, o) ==
    /\ CanCall(id)
    /\ LET c == Cloned(id)
       IN  Answer([c.h EXCEPT !.q[c.id].options = @ \cup {o}], c.id)

(* parameter(name): written into the object the clone shares with its      *)
(* joins.                                                                  *)
Parameter(id, name) ==
    /\ CanCall(id)
    /\ LET c == Cloned(id)
       IN  Answer([c.h EXCEPT !.p[c.h.q[c.id].params] = @ \cup {name}], c.id)

(* parameters(object): replaces the object of the clone, not of its joins. *)
Parameters(id, names) ==
    /\ CanCall(id)
    /\ LET c == Cloned(id)
       IN  Answer([c.h EXCEPT !.p = Append(@, names), !.q[c.id].params = Len(c.h.p) + 1], c.id)

HasJoin(id) == heap.q[id].joins # <<>>

(* A clone with a join more; the join shares the parameters of the clone.  *)
Joined(id) ==
    LET c == Cloned(id)
        depth == heap.q[id].depth
        new == Len(c.h.q) + 1
    IN  [h |-> [c.h EXCEPT
                  !.q = Append([@ EXCEPT ![c.id].joins =
                                    Append(@, [field |-> Field(depth), query |-> new])],
                               NewQuery(c.id, depth + 1, c.h.q[c.id].params, 0, {}))],
         id |-> c.id, join |-> new]

CanJoin(id) == CanCall(id) /\ heap.q[id].depth < MaxDepth /\ ~HasJoin(id)

(* join, joinWith, innerJoin, innerJoinWith; the type of the join and      *)
(* whether it populates are left out.                                      *)
Join(id) ==
    /\ CanJoin(id)
    /\ LET c == Joined(id) IN Answer(c.h, c.id)

(* useJoin and its kin answer with the query of the join instead. *)
UseJoin(id) ==
    /\ CanJoin(id)
    /\ LET c == Joined(id) IN Answer(c.h, c.join)

(* getJoin(field): the query of the join itself, no clone. *)
GetJoin(id) ==
    /\ Keeps(id)
    /\ HasJoin(id)
    /\ Answer(heap, heap.q[id].joins[1].query)

(* end() gives the join of the parent the model of this query and answers  *)
(* with the parent.                                                        *)
End(id) ==
    /\ Keeps(id)
    /\ heap.q[id].parent # 0
    /\ LET parent == heap.q[id].parent
           target == heap.q[parent].joins[1].query
           from == heap.q[id]
       IN  Answer([heap EXCEPT !.q[target] =
                      [@ EXCEPT !.options = from.options, !.params = from.params, !.joins = from.joins]], parent)

(* lift(type): a query of a new class with the methods of both. The list   *)
(* of lifts is the one of the base query.                                  *)
LiftTo(id, type) ==
    /\ CanCall(id)
    /\ heap.q[id].lifts # 0
    /\ LET c == Clone(heap, id, 0)
       IN  Answer([c.h EXCEPT !.l[heap.q[id].lifts] = @ \cup {type}], c.id)

(* Query.from(query): a query of another class with a clone of the model.  *)
From(id) ==
    /\ CanCall(id)
    /\ heap.q[id].lifts # 0
    /\ LET c == Clone(heap, id, 0)
       IN  Answer([c.h EXCEPT !.l = Append(@, {}), !.q[c.id].lifts = Len(heap.l) + 1], c.id)

(***************************************************************************)
(* The calls that run a query. A listener may leave the query in the event *)
(* as it is or put a clone with one more filter in its place. A query of a *)
(* subclass gets the condition on the discriminant when it is resolved, by *)
(* another clone.                                                          *)
(***************************************************************************)
\* One run after each call is enough: a run changes no query but for what is pushed.
Root(id) == heap.q[id].lifts # 0 /\ ran.op = "none"

(* limit(1) *)
Limited(h, id) ==
    LET c == Clone(h, id, 0) IN [c EXCEPT !.h.q[c.id].options = @ \cup {"copied"}]

Replaced(h, id, l) ==
    IF l # "replace" THEN [h |-> h, id |-> id]
    ELSE LET c == Clone(h, id, 0) IN [c EXCEPT !.h.q[c.id].options = @ \cup {"filter"}]

(* Mutant: the discriminant only when the user filters, too. *)
OnQueryResolveFiltered(h, id) ==
    IF "filter" \notin h.q[id].options THEN [h |-> h, id |-> id]
    ELSE LET c == Clone(h, id, 0) IN [c EXCEPT !.h.q[c.id].options = @ \cup {"discriminant"}]

OnQueryResolve(h, id) ==
    LET c == Clone(h, id, 0) IN [c EXCEPT !.h.q[c.id].options = @ \cup {"discriminant"}]

Started(id, one) == IF one THEN Limited(heap, id) ELSE [h |-> heap, id |-> id]

(* The resolver is given query r; the clones on the way are garbage, what  *)
(* was pushed into a query that is kept stays.                             *)
Ran(op, id, l, r, pushed) ==
    /\ ran' = [op |-> op, listener |-> l, options |-> r.h.q[r.id].options]
    /\ heap' = [heap EXCEPT !.q = [i \in DOMAIN @ |-> IF i = pushed
                                                      THEN [@[i] EXCEPT !.options = @ \cup {"returning"}] ELSE @[i]]]
    /\ UNCHANGED held

(* find, count; findOne with limit(1) *)
Find(id, one, l) ==
    /\ Root(id)
    /\ LET s == Started(id, one)
           e == Replaced(s.h, s.id, l)
       IN  Ran("find", id, l, OnQueryResolve(e.h, e.id), 0)

(* deleteMany, deleteOne *)
Delete(id, one, l) ==
    /\ Root(id)
    /\ LET s == Started(id, one)
           e == Replaced(s.h, s.id, l)
       IN  Ran("delete", id, l, OnQueryResolve(e.h, e.id), 0)

(* patchMany, patchOne. With listeners the fields they want returned are   *)
(* pushed into the query of the event, which is the query of the user when *)
(* nobody replaced it; the query with the discriminant goes to the         *)
(* resolver only when there are no listeners.                              *)
Patch(id, one, l) ==
    /\ Root(id)
    /\ LET s == Started(id, one)
           e == Replaced(s.h, s.id, l)
       IN  IF l = "none"
           THEN Ran("patch", id, l, OnQueryResolve(s.h, s.id), 0)
           ELSE Ran("patch", id, l, [h |-> [e.h EXCEPT !.q[e.id].options = @ \cup {"returning"}], id |-> e.id], e.id)

Init ==
    /\ heap = [q |-> <<NewQuery(0, 0, 1, 1, {})>>, p |-> <<{}>>, l |-> <<{}>>]
    /\ held = {1}
    /\ ran = [op |-> "none"]

Next ==
    \E id \in held :
        \/ \E o \in UserOption : SetOption(id, o)
        \/ Parameter(id, "p")
        \/ Parameters(id, {"q"})
        \/ Join(id) \/ UseJoin(id)
        \/ GetJoin(id)
        \/ End(id)
        \/ \E type \in Lift : LiftTo(id, type)
        \/ From(id)
        \/ \E one \in BOOLEAN, l \in Listener : Find(id, one, l) \/ Delete(id, one, l) \/ Patch(id, one, l)

Spec == Init /\ [][Next]_vars

-----------------------------------------------------------------------------
TypeOK ==
    /\ \A id \in held : id \in DOMAIN heap.q
    /\ \A id \in DOMAIN heap.q :
        /\ heap.q[id].options \subseteq Option \cup {"discriminant"}
        /\ heap.q[id].params \in DOMAIN heap.p
        /\ heap.q[id].parent \in 0..Len(heap.q)
    /\ ran.op \in {"none", "find", "delete", "patch"}

(***************************************************************************)
(* A query that is kept says after any call what it said before: clone()   *)
(* copies deeply enough. The exceptions are the code's: end() writes into  *)
(* the parent (query.ts:795), and the fields the listeners of a patch want *)
(* back are pushed into the user's query (query.ts:706).                   *)
(***************************************************************************)
RECURSIVE Above(_, _)
Above(h, id) == IF id = 0 THEN {} ELSE {id} \cup Above(h, h.q[id].parent)

EndedInto(id) ==
    \E j \in held :
        /\ heap.q[j].parent # 0
        /\ LET target == heap.q[heap.q[j].parent].joins[1].query
           IN  /\ id \in Above(heap, target)
               /\ heap'.q[target].options = heap.q[j].options
               /\ heap'.q[target].joins = heap.q[j].joins

PushedInto(id) ==
    /\ ran'.op = "patch" /\ ran'.listener # "none"
    /\ heap'.q[id].options = heap.q[id].options \cup {"returning"}

QueriesAreImmutable ==
    [][\A id \in held :
         \/ Says(heap', id) = Says(heap, id)
         \/ EndedInto(id)
         \/ PushedInto(id)]_vars

(***************************************************************************)
(* A query of a class that shares its table with others runs with the      *)
(* condition on the discriminant. The exception is the code's: a patch     *)
(* that somebody listens to (query.ts:710-711) reaches the rows of the     *)
(* other classes, too.                                                     *)
(***************************************************************************)
StaysInClass ==
    ran.op # "none" =>
        \/ "discriminant" \in ran.options
        \/ ran.op = "patch" /\ ran.listener # "none"
=============================================================================
