----------------------------- MODULE AppModules -----------------------------
(***************************************************************************)
(* The modules of an application and their configuration (app/src/         *)
(* module.ts), and how an application loads it from its environment        *)
(* (app/src/application.ts). configure(), setup() and forRoot() return a   *)
(* clone; an option that a module has no value for is looked up in its     *)
(* parent, and parents are set by whoever was made last.                   *)
(*                                                                         *)
(* Each module has one option. Its path is the name of the module, a value *)
(* is a number, 0 the default, and Bad one that the validation refuses.    *)
(***************************************************************************)
EXTENDS Naturals, Sequences, SequencesExt, FiniteSets

CONSTANTS
    Name,           \* of the modules, the root's first: each imports the next one
    Value, Bad,     \* values an option is given
    MaxClones,      \* bound on the calls of configure(), setup() and forRoot()
    MaxLoads        \* bound on the environments that are loaded

AppAssumption == Bad \in Value /\ 0 \notin Value /\ Name # <<>>

VARIABLES
    heap,           \* the modules, those that were cloned for one included
    handles,        \* those the author got: [module, tree, taken]
    used,           \* the handle the application runs, 0 if there is none
    container,      \* its ServiceContainer: "new" or "processed"
    failed,         \* has it failed to start before
    wanted,         \* what environments said, per name
    loads, clones

vars == <<heap, handles, used, container, failed, wanted, loads, clones>>

Unset == 99
Names == ToSet(Name)
NoValues == [n \in Names |-> Unset]

Object(name, imports, parent, root, values, setups) ==
    [name |-> name, imports |-> imports, parent |-> parent, root |-> root, values |-> values, setups |-> setups,
     loaded |-> FALSE, config |-> Unset, seen |-> Unset]

(***************************************************************************)
(* new AppModule(): its imports get it as parent, whosever they were.      *)
(***************************************************************************)
SetParent(h, imports, parent) == [m \in DOMAIN h |-> IF m \in ToSet(imports) THEN [h[m] EXCEPT !.parent = parent] ELSE h[m]]
(* A clone that does not tell its imports about their new parent. *)
NewModuleAlone(h, object) == Append(h, object)
NewModule(h, object) == Append(SetParent(h, object.imports, Len(h) + 1), object)

RECURSIVE Clone(_, _)
Clone(h, m) ==
    LET old == h[m]
        new == Len(h) + 1
        made == NewModule(h, Object(old.name, old.imports, old.parent, old.root, old.values, old.setups))
        step(acc, i) == LET cloned == Clone(acc.h, i)
                        IN  [h |-> cloned.h, imports |-> Append(acc.imports, cloned.module)]
        done == FoldLeft(step, [h |-> made, imports |-> <<>>], old.imports)
    IN  [module |-> new, h |-> [done.h EXCEPT ![new].imports = done.imports]]

-----------------------------------------------------------------------------
(***************************************************************************)
(* hasConfigOption(), getConfigOption() and getConfig(). A module counts   *)
(* as loaded before its values are validated.                              *)
(***************************************************************************)
RECURSIVE GetConfigOption(_, _, _)
GetConfigOption(h, m, path) ==
    IF m = 0 THEN Unset
    ELSE IF h[m].values[path] # Unset THEN h[m].values[path]
    ELSE GetConfigOption(h, h[m].parent, path)

Loaded(h, m) ==
    LET option == GetConfigOption(h, m, h[m].name)
    IN  IF option = Bad THEN Unset ELSE IF option = Unset THEN 0 ELSE option

GetConfig(acc, m) ==
    IF acc.h[m].loaded THEN acc
    ELSE [h |-> [acc.h EXCEPT ![m].loaded = TRUE, ![m].config = Loaded(acc.h, m)],
          ok |-> GetConfigOption(acc.h, m, acc.h[m].name) # Bad]

SetConfig(acc, m, value) ==
    LET got == GetConfig(acc, m)
    IN  IF got.ok THEN [got EXCEPT !.h[m].config = value] ELSE got

(* ServiceContainer.setupHook(): the setups of a module see its config. *)
RECURSIVE SetupHook(_, _)
SetupHook(acc, m) ==
    LET got == GetConfig(acc, m)
        seen == IF got.h[m].setups THEN [got EXCEPT !.h[m].seen = got.h[m].config] ELSE got
    IN  IF ~acc.ok \/ ~got.ok THEN [got EXCEPT !.ok = FALSE]
        ELSE FoldLeft(SetupHook, seen, got.h[m].imports)

Process(acc) == IF container = "processed" THEN acc ELSE SetupHook(acc, handles[used].module)

(* The module of a name among those that were registered. *)
RECURSIVE GetModule(_, _, _)
GetModule(h, m, name) == IF h[m].name = name THEN m ELSE IF h[m].imports = <<>> THEN 0 ELSE GetModule(h, Last(h[m].imports), name)
-----------------------------------------------------------------------------
(* The author has made each module, the inner ones first. *)
RECURSIVE Base(_)
Base(k) ==
    IF k > Len(Name) THEN <<>>
    ELSE LET h == Base(k + 1)
         IN  NewModule(h, Object(Name[k], IF h = <<>> THEN <<>> ELSE <<Len(h)>>, 0, FALSE, NoValues, FALSE))

(* What a module was made to be: the values of it and of what it imports.  *)
BaseTree(k) == [i \in 1 .. Len(Name) - k + 1 |-> NoValues]
Handle(module, tree) == [module |-> module, tree |-> tree, taken |-> FALSE]

Init ==
    /\ heap = Base(1)
    /\ handles = [i \in DOMAIN Name |-> Handle(i, BaseTree(Len(Name) - i + 1))]
    /\ used = 0 /\ container = "new" /\ failed = FALSE
    /\ wanted = NoValues
    /\ loads = 0 /\ clones = 0

(* The modules of a handle, from the outer to the inner one. *)
RECURSIVE Chain(_)
Chain(m) == <<m>> \o IF heap[m].imports = <<>> THEN <<>> ELSE Chain(Last(heap[m].imports))
Inner(m) == ToSet(Tail(Chain(m)))

(* Who has one of these modules as an import. *)
Taken(modules) == [k \in DOMAIN handles |-> [handles[k] EXCEPT !.taken = @ \/ Inner(handles[k].module) \cap modules # {}]]

CloneOf(k) == Clone(heap, handles[k].module)
Fresh(k) == CloneOf(k).h[CloneOf(k).module]

Derive(k, tree, object) ==
    /\ clones < MaxClones /\ used = 0
    /\ heap' = [CloneOf(k).h EXCEPT ![CloneOf(k).module] = object]
    /\ handles' = Append(Taken(Inner(handles[k].module)), Handle(CloneOf(k).module, tree))
    /\ clones' = clones + 1
    /\ UNCHANGED <<used, container, failed, wanted, loads>>

(* configure(): values for the own option and for those of imports. *)
Configure(k, values) ==
    LET m == handles[k].module
        known == {heap[m].name} \union {heap[i].name : i \in ToSet(heap[m].imports)}
        overlay(old) == [n \in Names |-> IF n \in known /\ values[n] # Unset THEN values[n] ELSE old[n]]
    IN  Derive(k, [handles[k].tree EXCEPT ![1] = overlay(@)], [Fresh(k) EXCEPT !.values = overlay(@)])

Setup(k) == Derive(k, handles[k].tree, [Fresh(k) EXCEPT !.setups = TRUE])
ForRoot(k) == ~heap[handles[k].module].root /\ Derive(k, handles[k].tree, [Fresh(k) EXCEPT !.root = TRUE])

(* A new root module imports one of the modules. *)
Import(k) ==
    /\ clones < MaxClones /\ used = 0
    /\ Len(handles[k].tree) = Len(Name) - 1
    /\ heap' = NewModule(heap, Object(Name[1], <<handles[k].module>>, 0, FALSE, NoValues, FALSE))
    /\ handles' = Append(Taken({handles[k].module}), [Handle(Len(heap) + 1, <<NoValues>> \o handles[k].tree) EXCEPT !.taken = handles[k].taken])
    /\ clones' = clones + 1
    /\ UNCHANGED <<used, container, failed, wanted, loads>>

-----------------------------------------------------------------------------
(* The application runs one of the roots. *)
Use(k) ==
    /\ used = 0 /\ Len(handles[k].tree) = Len(Name)
    /\ used' = k
    /\ UNCHANGED <<heap, handles, container, failed, wanted, loads, clones>>

Outcome(acc, processes) ==
    /\ heap' = acc.h
    /\ container' = IF acc.ok /\ processes THEN "processed" ELSE container
    /\ failed' = (failed \/ ~acc.ok)

Execute ==
    /\ used # 0 /\ container # "processed"
    /\ Outcome(Process([h |-> heap, ok |-> TRUE]), TRUE)
    /\ UNCHANGED <<handles, used, wanted, loads, clones>>

(* loadConfigFromEnvVariables() sets the options of the root before it     *)
(* asks for the modules, configure() after it.                             *)
LoadConfig(name, value, throughConfigure) ==
    LET early == name = Name[1] /\ ~throughConfigure
        before == IF early THEN [h |-> heap, ok |-> TRUE] ELSE Process([h |-> heap, ok |-> TRUE])
        acc == IF before.ok THEN SetConfig(before, GetModule(before.h, handles[used].module, name), value) ELSE before
    IN  /\ used # 0 /\ loads < MaxLoads
        /\ Outcome(acc, ~early)
        /\ wanted' = IF acc.ok THEN [wanted EXCEPT ![name] = value] ELSE wanted
        /\ loads' = loads + 1
        /\ UNCHANGED <<handles, used, clones>>

Next ==
    \/ \E k \in DOMAIN handles, values \in [Names -> Value \union {Unset}] : Configure(k, values)
    \/ \E k \in DOMAIN handles : Setup(k) \/ ForRoot(k) \/ Import(k) \/ Use(k)
    \/ Execute
    \/ \E name \in Names, value \in Value \ {Bad}, throughConfigure \in BOOLEAN : LoadConfig(name, value, throughConfigure)

Spec == Init /\ [][Next]_vars

-----------------------------------------------------------------------------
Whole(k) == Len(handles[k].tree) = Len(Name)

(* The value an option has by what was configured: the own one first. *)
RECURSIVE Intended(_, _, _)
Intended(tree, level, path) ==
    IF level = 0 THEN Unset ELSE IF tree[level][path] # Unset THEN tree[level][path] ELSE Intended(tree, level - 1, path)

(***************************************************************************)
(* A root has the configuration it was made with, whatever was made of it  *)
(* or of other modules later; unless it, or what it imports, was cloned or *)
(* imported again, which gives its imports another parent (module.ts:148). *)
(***************************************************************************)
ConfigIsOwn ==
    used = 0 => \A k \in DOMAIN handles : Whole(k) /\ ~handles[k].taken =>
        \A i \in DOMAIN Name :
            GetConfigOption(heap, Chain(handles[k].module)[i], Name[i]) = Intended(handles[k].tree, i, Name[i])

(***************************************************************************)
(* An application that starts has, for each option, what its environment   *)
(* said last, or else what was configured, or else the default; unless it  *)
(* failed to start before, or its modules were taken.                       *)
(***************************************************************************)
Started == container = "processed" /\ ~failed /\ ~handles[used].taken
Ended(i) == LET own == Intended(handles[used].tree, i, Name[i])
            IN  IF wanted[Name[i]] # Unset THEN wanted[Name[i]] ELSE IF own = Unset THEN 0 ELSE own
ConfigIsWanted ==
    Started => \A i \in DOMAIN Name : heap[Chain(handles[used].module)[i]].config = Ended(i)
(* Setups were called with it, as far as it was not overwritten later. *)
SetupsSee == Started => \A i \in DOMAIN Name : LET o == heap[Chain(handles[used].module)[i]] IN o.setups /\ wanted[Name[i]] = Unset => o.seen = o.config

(***************************************************************************)
(* Configurations are those of the modules as they were made, and reach    *)
(* setups and the running application.                                     *)
(***************************************************************************)
ConfigurationIsTrue == ConfigIsOwn /\ ConfigIsWanted /\ SetupsSee
=============================================================================
