------------------------------ MODULE GroupSort ------------------------------
(***************************************************************************)
(* The sort that puts the items of a commit in groups of one type, behind  *)
(* what they depend on (topsort/src/group-array-sort.ts, base.ts). Items   *)
(* are added in order; a sort may fail, and be asked for again.            *)
(***************************************************************************)
EXTENDS Naturals, Integers, Sequences, SequencesExt, FiniteSets

CONSTANTS
    Type,           \* of the items 1, 2, ..., in the order they are added
    Dependencies,   \* sets of items an item may depend on
    Mode            \* how it is sorted: [extra |-> sameTypeExtraGrouping, circular, missing |-> what is an error]

Item == DOMAIN Type

VARIABLES
    elements,       \* the items that were added: [dependencies, visited, level], and through which item they were reached
    sorted, groups, \* the result: items, and groups as [type, level, position, length]
    mode, outcome

vars == <<elements, sorted, groups, mode, outcome>>

-----------------------------------------------------------------------------
(* getFirstGroup(): the last group of the type, not below the level.       *)
GroupsOf(acc, type, minLevel) == {g \in DOMAIN acc.groups : acc.groups[g].type = type /\ g - 1 >= minLevel}
FirstGroup(acc, type, minLevel) == CHOOSE g \in GroupsOf(acc, type, minLevel) : \A h \in GroupsOf(acc, type, minLevel) : h <= g

(* Groups behind it are left where they were. *)
AddToGroupOnly(acc, item, g) ==
    LET group == acc.groups[g]
    IN  [acc EXCEPT !.sorted = InsertAt(@, group.position + group.length + 1, item),
                    !.groups[g].length = @ + 1, !.elements[item].level = group.level]

AddToGroup(acc, item, g) ==
    LET group == acc.groups[g]
    IN  [acc EXCEPT !.sorted = InsertAt(@, group.position + group.length + 1, item),
                    !.groups = [h \in DOMAIN @ |-> IF h = g THEN [@[h] EXCEPT !.length = @ + 1]
                                                   ELSE IF @[h].position > group.position THEN [@[h] EXCEPT !.position = @ + 1] ELSE @[h]],
                    !.elements[item].level = group.level]
AddGroup(acc, item) ==
    [acc EXCEPT !.sorted = Append(@, item), !.elements[item].level = Len(acc.groups),
                !.groups = Append(@, [type |-> Type[item], level |-> Len(acc.groups), position |-> Len(acc.sorted), length |-> 1])]

InjectElement(acc, item, minLevel) ==
    IF GroupsOf(acc, Type[item], minLevel) # {} THEN AddToGroup(acc, item, FirstGroup(acc, Type[item], minLevel)) ELSE AddGroup(acc, item)

(* throwCircularExceptionIfNeeded() *)
IsCircular(acc, item) == mode.circular /\ item \in acc.parents

(* One set of parents for all that is visited from an item of the list.    *)
RECURSIVE Visit(_, _)
Dependency(acc, to) ==
    IF acc.error # "none" THEN acc
    ELSE IF to \notin DOMAIN acc.elements THEN [acc EXCEPT !.error = IF mode.missing THEN "missing" ELSE "none"]
    ELSE LET reached == IF acc.elements[to].visited THEN acc ELSE [acc EXCEPT !.elements[to].through = acc.item]
             visited == Visit(reached, to)
             least == IF visited.returned > acc.min THEN visited.returned ELSE acc.min
         IN  [visited EXCEPT !.min = IF mode.extra /\ Type[to] = Type[acc.item] THEN Len(visited.groups) ELSE least, !.item = acc.item]

Visit(acc, item) ==
    LET element == acc.elements[item]
        below == [acc EXCEPT !.elements[item].visited = TRUE, !.item = item, !.min = -1,
                             !.parents = IF element.dependencies = {} THEN @ ELSE @ \union {item}]
        done == FoldLeft(Dependency, below, SetToSortSeq(element.dependencies, <))
        put == InjectElement(done, item, done.min)
    IN  IF IsCircular(acc, item) THEN [acc EXCEPT !.error = "circular"]
        ELSE IF element.visited THEN [acc EXCEPT !.returned = element.level]
        ELSE IF done.error # "none" THEN done
        ELSE [put EXCEPT !.returned = IF done.min = -1 THEN put.elements[item].level ELSE done.min]

FromTop(acc, item) == IF acc.error # "none" THEN acc ELSE Visit([acc EXCEPT !.parents = {}], item)

Begin(old) == [elements |-> old, sorted |-> <<>>, groups |-> <<>>, parents |-> {}, item |-> 0, min |-> -1, returned |-> -1, error |-> "none"]

-----------------------------------------------------------------------------
Init ==
    /\ \E n \in Item : \E of \in [1 .. n -> Dependencies] :
        /\ \A i \in 1 .. n : i \notin of[i]
        /\ elements = [i \in 1 .. n |-> [dependencies |-> of[i], visited |-> FALSE, level |-> -1, through |-> 0]]
    /\ sorted = <<>> /\ groups = <<>>
    /\ mode \in Mode
    /\ outcome = "new"

(* add(): an item that an earlier sort has missed.                         *)
Add ==
    /\ outcome = "missing" /\ DOMAIN elements # Item
    /\ elements' = Append(elements, [dependencies |-> {}, visited |-> FALSE, level |-> -1, through |-> 0])
    /\ outcome' = "again"
    /\ UNCHANGED <<sorted, groups, mode>>

(* doSort(): items that were visited stay so if nothing had been sorted.   *)
Sort ==
    LET reset == [i \in DOMAIN elements |-> [elements[i] EXCEPT !.visited = @ /\ sorted = <<>>, !.through = 0]]
        done == FoldLeft(FromTop, Begin(reset), [i \in DOMAIN elements |-> i])
    IN  /\ outcome \in {"new", "again"}
        /\ elements' = done.elements /\ sorted' = done.sorted /\ groups' = done.groups
        /\ outcome' = IF done.error # "none" THEN done.error ELSE IF outcome = "again" /\ sorted = <<>> THEN "sorted in part" ELSE "sorted"
        /\ UNCHANGED mode

Next == Add \/ Sort

Spec == Init /\ [][Next]_vars

-----------------------------------------------------------------------------
DependsOn(i) == elements[i].dependencies \intersect DOMAIN elements
RECURSIVE Below(_, _)
Below(i, seen) == LET next == DependsOn(i) \ seen IN next \union UNION {Below(k, seen \union next) : k \in next}
Circle == \E i \in DOMAIN elements : i \in Below(i, {})
Place(i) == SelectInSeq(sorted, LAMBDA k : k = i)
Members(g) == {sorted[k] : k \in g.position + 1 .. g.position + g.length}

(* The items are the result, each once, in groups of their types.          *)
GroupsAreWhole ==
    outcome = "sorted" =>
        /\ Len(sorted) = Cardinality(DOMAIN elements) /\ ToSet(sorted) = DOMAIN elements
        /\ \A g \in DOMAIN groups : \A i \in Members(groups[g]) : Type[i] = groups[g].type
        /\ UNION {Members(groups[g]) : g \in DOMAIN groups} = DOMAIN elements
        /\ \A g, h \in DOMAIN groups : g # h => Members(groups[g]) \intersect Members(groups[h]) = {}

(* An item comes behind what it depends on; except for one that was        *)
(* reached through it and has dependencies: visit() tells the level of     *)
(* those, and an earlier group of the same type may take the item.         *)
OrderIsKept ==
    outcome = "sorted" /\ ~Circle => \A i \in DOMAIN elements : \A k \in DependsOn(i) :
        DependsOn(k) = {} \/ elements[k].through # i => Place(k) < Place(i)

(* A circle is reported, and what is not shared is no circle.              *)
Shared == \E i, k, l \in DOMAIN elements : i # k /\ l \in DependsOn(i) \intersect DependsOn(k)
CirclesAreFound ==
    /\ outcome = "sorted" /\ mode.circular => ~Circle
    /\ outcome = "circular" => Circle \/ Shared

(***************************************************************************)
(* What is sorted is whole, in order as far as levels are known, and free  *)
(* of circles; a failed sort does not spoil the next one, unless it failed *)
(* before anything was sorted.                                             *)
(***************************************************************************)
GroupsAreSorted == GroupsAreWhole /\ OrderIsKept /\ CirclesAreFound
==============================================================================
