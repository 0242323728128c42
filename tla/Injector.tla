------------------------------ MODULE Injector ------------------------------
(***************************************************************************)
(* Dependency injection: the modules of an application become contexts of  *)
(* providers (app/src/service-container.ts), an InjectorContext makes an   *)
(* injector of each context for each scope, and the retriever that is      *)
(* generated for an injector creates the instances, asked for them by one  *)
(* get() after the other (injector/src/injector.ts).                       *)
(*                                                                         *)
(* A scope is the module scope, 0, or a request, a child scope "http" of   *)
(* it. A retriever is generated once for a context and the name of a       *)
(* scope; the injectors of later requests are forks that share it, its     *)
(* flags of creations under way included.                                  *)
(***************************************************************************)
EXTENDS Naturals, Sequences, SequencesExt, FiniteSets

CONSTANTS
    Apps,           \* the applications: sequences of modules, the first one is the root
    MaxRequests,    \* bound on the child scopes
    MaxThrows       \* bound on the constructors that throw

VARIABLES
    app,            \* the application
    contexts,       \* the contexts of its modules
    extra,          \* per request: has it an additional injector, with the token "request"
    store,          \* what the injectors keep, see Empty
    answer,         \* of the last get(): who asked, and what came
    gets, throws    \* how often get() was called, and a constructor threw

vars == <<app, contexts, extra, store, answer, gets, throws>>

Tokens(a) == {p.token : p \in UNION {ToSet(a.modules[m].providers) : m \in DOMAIN a.modules}} \union {"request"}

-----------------------------------------------------------------------------
(***************************************************************************)
(* processModule(). A context has a parent and providers; a module that is     *)
(* forRoot works on context 1, its own one stays empty. Exported modules   *)
(* (`modules') are processed as if the parent had imported them; exported  *)
(* tokens move to the providers of the parent, behind those it has.        *)
(***************************************************************************)
Export(mod, context, parent, cs) ==
    LET target == IF mod.root THEN 1 ELSE parent
        of(t) == CHOOSE p \in ToSet(mod.providers) : p.token = t
        exported == [i \in DOMAIN mod.exports |-> of(mod.exports[i])]
        own == SelectSeq(mod.providers, LAMBDA p : p \notin ToSet(exported))
        added == IF target = 0 THEN cs ELSE [cs EXCEPT ![target].providers = @ \o exported]
    IN  [added EXCEPT ![context].providers = @ \o own]

GetNewContext(m, parent, cs) == Append(cs, [module |-> m, parent |-> parent, providers |-> <<>>])

RECURSIVE ProcessModule(_, _, _, _)
ProcessModule(a, m, parent, cs) ==
    LET mod == a[m]
        new == GetNewContext(m, parent, cs)
        context == IF mod.root THEN 1 ELSE Len(new)
        imports == SelectSeq(mod.imports, LAMBDA i : i \notin ToSet(mod.modules))
        reexported == FoldLeft(LAMBDA acc, e : ProcessModule(a, e, parent, acc), new, mod.modules)
        imported == FoldLeft(LAMBDA acc, i : ProcessModule(a, i, context, acc), reexported, imports)
    IN  Export(mod, context, parent, imported)

-----------------------------------------------------------------------------
(***************************************************************************)
(* Injectors are <<request, context>>. getProviders() picks what belongs   *)
(* to a scope; of several providers of one token the last one counts.      *)
(***************************************************************************)
ScopeName(s) == IF s = 0 THEN "module" ELSE "http"

GetProviders(i) == SelectSeq(contexts[i[2]].providers, LAMBDA p : p.scope = ScopeName(i[1]))
ProvidersOf(i, token) == SelectSeq(GetProviders(i), LAMBDA p : p.token = token)

(* The value of the token "request"; instances have smaller numbers.       *)
RequestValue(s) == 100 + s

NoInjector == <<0, 0>>
Additional(s) == <<s, 0>>

(* getInjector(): the parents, in the order in which they are asked. *)
Parents(i) ==
    <<IF i[1] = 0 THEN NoInjector ELSE <<0, i[2]>> >>
    \o (IF i[1] # 0 /\ extra[i[1]] THEN <<Additional(i[1])>> ELSE <<>>)
    \o (IF contexts[i[2]].parent # 0 THEN << <<i[1], contexts[i[2]].parent>> >> ELSE <<>>)

(***************************************************************************)
(* What is kept: the instances made, those resolved by an injector, the    *)
(* flags `creating' of the retrievers, the CircularDetector, the number of *)
(* parents the retrievers were generated for; and while a get() runs, its  *)
(* value (0: undefined) and error. An instance knows its provider, its     *)
(* injector and its arguments, and whether its configured setup was done.  *)
(***************************************************************************)
Key(i, token) == <<i[1], i[2], token>>
Empty == [made |-> <<>>, resolved |-> {}, creating |-> {}, detector |-> <<>>, arity |-> {}, throwing |-> "", value |-> 0, error |-> ""]

Instance(st, i, token) ==
    LET found == {r \in st.resolved : r[1] = Key(i, token)} IN IF found = {} THEN 0 ELSE (CHOOSE r \in found : TRUE)[2]

Flag(i, token) == <<ScopeName(i[1]), i[2], token>>
Reset(st, error) == [st EXCEPT !.creating = {}, !.error = error, !.value = 0]
ThrowCircularDependency(st) == [Reset(st, "circular") EXCEPT !.detector = <<>>]

(* The first injector of a context and scope fixes how many parents the    *)
(* retriever of all later ones looks at.                                   *)
RECURSIVE GetInjector(_, _)
GetInjector(st, i) ==
    IF i[2] = 0 THEN st
    ELSE LET opened == FoldLeft(LAMBDA acc, p : GetInjector(acc, p), st, Parents(i))
             key == <<ScopeName(i[1]), i[2]>>
         IN  IF \E r \in opened.arity : r[1] = key THEN opened
             ELSE [opened EXCEPT !.arity = @ \union {<<key, Len(Parents(i))>>}]

Arity(st, i) ==
    IF GetProviders(i) = <<>> THEN Len(Parents(i))
    ELSE (CHOOSE r \in st.arity : r[1] = <<ScopeName(i[1]), i[2]>>)[2]

(* The instance is kept, and no longer being created. *)
KeepAt(keeper, st, i, p, args) ==
    [st EXCEPT !.made = Append(@, [token |-> p.token, injector |-> i, transient |-> p.transient, args |-> args,
                                   configured |-> p.forward = ""]),
               !.resolved = IF p.transient THEN @ ELSE @ \union {<<Key(keeper, p.token), Len(st.made) + 1>>},
               !.creating = @ \ {Flag(i, p.token)}, !.value = Len(st.made) + 1]

(* A plausible slip: the injector that was asked keeps it. *)
KeepInFront(st, i, p, args, front) == KeepAt(front, st, i, p, args)
Keep(st, i, p, args, front) == KeepAt(i, st, i, p, args)

-----------------------------------------------------------------------------
(***************************************************************************)
(* The generated retriever: the own provider, then the parents. Arguments  *)
(* are asked of the injector get() was called on, not of the own one. So   *)
(* is what a configured setup call needs, when the instance is kept.       *)
(***************************************************************************)
RECURSIVE Retrieve(_, _, _, _), FromParents(_, _, _, _, _), Create(_, _, _, _), Arguments(_, _, _, _, _)
Retrieve(st, i, token, front) ==
    IF i = NoInjector THEN [st EXCEPT !.value = 0]
    ELSE IF i[2] = 0 THEN [st EXCEPT !.value = IF token = "request" THEN RequestValue(i[1]) ELSE 0]
    ELSE LET own == ProvidersOf(i, token)
             p == own[Len(own)]
         IN  IF own = <<>> THEN FromParents(st, i, token, front, 1)
             ELSE IF ~p.transient /\ Instance(st, i, token) # 0 THEN [st EXCEPT !.value = Instance(st, i, token)]
             ELSE Create(st, i, p, front)

FromParents(st, i, token, front, n) ==
    IF n > Arity(st, i) THEN [st EXCEPT !.value = 0]
    ELSE IF n > Len(Parents(i)) THEN [st EXCEPT !.error = "type"]
    ELSE LET found == Retrieve(st, Parents(i)[n], token, front)
         IN  IF found.error # "" \/ found.value # 0 THEN found ELSE FromParents(found, i, token, front, n + 1)

Arguments(st, deps, n, front, args) ==
    IF n > Len(deps) THEN [st |-> st, args |-> args]
    ELSE LET found == Retrieve(st, front, deps[n].token, front)
             unmet == found.error = "" /\ found.value = 0 /\ ~deps[n].optional
             result == IF unmet THEN Reset(found, "unmet") ELSE found
         IN  IF result.error # "" THEN [st |-> result, args |-> args]
             ELSE Arguments(result, deps, n + 1, front, Append(args, found.value))

Create(st, i, p, front) ==
    LET pushed == [st EXCEPT !.detector = Append(@, p.token)]
        got == Arguments([pushed EXCEPT !.creating = @ \union {Flag(i, p.token)}], p.deps, 1, front, <<>>)
        kept == Keep(got.st, i, p, got.args, front)
        setup == Retrieve(kept, front, p.forward, front)
    IN  IF Flag(i, p.token) \in st.creating THEN ThrowCircularDependency(pushed)
        ELSE IF got.st.error # "" THEN got.st
        ELSE IF p.token = st.throwing THEN [got.st EXCEPT !.error = "threw"]
        ELSE IF p.forward = "" THEN [kept EXCEPT !.detector = Front(@)]
        ELSE IF setup.error # "" THEN setup
        ELSE IF setup.value = 0 THEN Reset(setup, "notfound")
        ELSE [setup EXCEPT !.detector = Front(@), !.value = kept.value, !.made[kept.value].configured = TRUE]

(* Injector.get(). *)
Get(st, i, token, throwing) ==
    LET got == Retrieve([GetInjector(st, i) EXCEPT !.error = "", !.throwing = throwing], i, token, i)
    IN  IF got.error = "" /\ got.value = 0 THEN Reset(got, "notfound") ELSE got

-----------------------------------------------------------------------------
Init ==
    /\ app \in Apps
    /\ contexts = ProcessModule(app.modules, 1, 0, <<>>)
    /\ extra = <<>>
    /\ store = Empty
    /\ answer = [from |-> NoInjector, token |-> "", value |-> 0, error |-> ""]
    /\ gets = 0 /\ throws = 0

CreateChildScope(additional) ==
    /\ Len(extra) < MaxRequests
    /\ extra' = Append(extra, additional)
    /\ UNCHANGED <<app, contexts, store, answer, gets, throws>>

Ask(i, token, throwing) ==
    /\ gets < app.gets
    /\ throwing # "" => throws < MaxThrows
    /\ LET got == Get(store, i, token, throwing)
       IN  /\ store' = [got EXCEPT !.value = 0, !.error = "", !.throwing = ""]
           /\ answer' = [from |-> i, token |-> token, value |-> got.value, error |-> got.error]
           /\ throws' = throws + IF got.error = "threw" THEN 1 ELSE 0
    /\ gets' = gets + 1
    /\ UNCHANGED <<app, contexts, extra>>

Next ==
    \/ \E additional \in app.additional : CreateChildScope(additional)
    \/ \E s \in 0 .. Len(extra), c \in DOMAIN contexts, token \in Tokens(app), throwing \in {"", app.fragile} :
         Ask(<<s, c>>, token, throwing)

Spec == Init /\ [][Next]_vars

-----------------------------------------------------------------------------
(***************************************************************************)
(* The modules as they are written: where a provider ends up, and what a   *)
(* module can see.                                                         *)
(***************************************************************************)
Importer(m) == CHOOSE k \in DOMAIN app.modules : m \in ToSet(app.modules[k].imports) \union ToSet(app.modules[k].modules)
Home(m) == IF app.modules[m].root THEN 1 ELSE m
RECURSIVE Outer(_)
Outer(m) == IF m = 1 THEN 0
            ELSE IF m \in ToSet(app.modules[Importer(m)].modules) THEN Outer(Importer(m))
            ELSE Home(Importer(m))
Place(m, p) == IF p.token \notin ToSet(app.modules[m].exports) THEN Home(m)
               ELSE IF app.modules[m].root THEN 1 ELSE Outer(m)
RECURSIVE Nearest(_, _)
Nearest(m, token) ==
    IF m = 0 THEN {}
    ELSE LET here == {<<k, p>> \in UNION {{<<k, p>> : p \in ToSet(app.modules[k].providers)} : k \in DOMAIN app.modules} :
                        p.scope = "module" /\ p.token = token /\ Place(k, p) = m}
             own == {x \in here : x[1] = m}
         IN  IF own # {} THEN own ELSE IF here # {} THEN here ELSE Nearest(Outer(m), token)

ContextOf(m) == CHOOSE c \in DOMAIN contexts : contexts[c].module = m

(***************************************************************************)
(* Each module finds the provider that its own declarations, those of the  *)
(* modules it imports, and of the modules that import it promise: the      *)
(* nearest one, and there the module's own before one that was exported to *)
(* it. Nothing that was not exported is visible outside of its module.     *)
(***************************************************************************)
RECURSIVE Found(_, _)
Found(c, token) ==
    IF c = 0 THEN {}
    ELSE LET own == ProvidersOf(<<0, c>>, token) IN IF own # <<>> THEN {own[Len(own)]} ELSE Found(contexts[c].parent, token)

ScopesOfModules ==
    gets = 0 => \A m \in DOMAIN app.modules, token \in Tokens(app) :
        LET promised == {x[2] : x \in Nearest(Home(m), token)}
            found == Found(ContextOf(Home(m)), token)
        IN  found \subseteq promised /\ (found = {} <=> promised = {})

(***************************************************************************)
(* A provider that is not transient is created once by an injector.        *)
(***************************************************************************)
CreatedOnce ==
    \A j, k \in DOMAIN store.made :
        LET a == store.made[j] b == store.made[k]
        IN  a.injector = b.injector /\ a.token = b.token /\ ~a.transient => j = k

(* Instances and values that an instance was made of. *)
RECURSIVE Parts(_, _)
Parts(made, v) == {v} \union IF v \in DOMAIN made THEN UNION {Parts(made, a) : a \in ToSet(made[v].args)} ELSE {}
RequestOf(v) == IF v \in DOMAIN store.made THEN store.made[v].injector[1] ELSE IF v = 0 THEN 0 ELSE v - 100

(* A provider of the module scope depends on what a request provides: made *)
(* for a request, it keeps what it got from it (injector.ts:311).          *)
AllProviders == UNION {ToSet(app.modules[m].providers) : m \in DOMAIN app.modules}
Captive ==
    \E p \in AllProviders : p.scope = "module" /\ \E t \in {p.deps[d].token : d \in DOMAIN p.deps} \union {p.forward} :
        t = "request" \/ \E q \in AllProviders : q.scope = "http" /\ q.token = t

(***************************************************************************)
(* What a request gets belongs to the request or to the application, all   *)
(* of its parts included; unless a provider captures what is of a request. *)
(***************************************************************************)
RequestsAreApart ==
    ~Captive => \A v \in Parts(store.made, answer.value) : RequestOf(v) \in {0, answer.from[1]}

(***************************************************************************)
(* "Circular dependency" is said only of providers that depend on each     *)
(* other; unless a constructor threw before, whose flag nobody resets.     *)
(***************************************************************************)
Needs == {<<p.token, t>> : p \in AllProviders, t \in Tokens(app)} \cap
         UNION {{<<p.token, p.deps[d].token>> : d \in DOMAIN p.deps} \union {<<p.token, p.forward>>} : p \in AllProviders}
Circular == \E a, b \in Tokens(app) : <<a, b>> \in Needs /\ (a = b \/ <<b, a>> \in Needs)
CircularIsTrue == answer.error = "circular" => Circular \/ throws > 0

(* Requests with and without an additional injector share retrievers that  *)
(* were generated for the number of parents of the first one.              *)
Mixed == Cardinality(app.additional) > 1
ParentsAreThere == answer.error = "type" => Mixed

(***************************************************************************)
(* An error does not stay: asked once more, and once again, a container    *)
(* that failed before answers with the error of one that is new, or with   *)
(* an instance where that does. It has an instance instead of an error     *)
(* only if parts of that were there before, made for a module that sees    *)
(* more; or, and that is the code's, if they were kept before their setup  *)
(* calls ran (injector.ts:449): when one of these fails, the instance is   *)
(* answered from then on, and built into others, without its setup.        *)
(***************************************************************************)
HalfConfigured(st) == \E v \in Parts(st.made, st.value) \cap DOMAIN st.made : ~st.made[v].configured
Recovers ==
    ~Captive /\ ~Mixed => \A s \in 0 .. Len(extra), c \in DOMAIN contexts, token \in Tokens(app) :
        LET i == <<s, c>>
            again == Get(Get(store, i, token, ""), i, token, "")
            new == Get([Empty EXCEPT !.arity = store.arity], i, token, "")
        IN  \/ again.error = new.error
            \/ again.error = "" /\ (HalfConfigured(again) \/ Parts(again.made, again.value) \cap DOMAIN store.made # {})

(* Without an error nothing is left of a creation. *)
LeavesNothing == answer.error = "" /\ throws = 0 => store.creating = {}

(***************************************************************************)
(* Modules see what was promised to them; instances are made once and stay *)
(* with their request; errors are true and leave nothing behind.           *)
(***************************************************************************)
InjectionSafety ==
    ScopesOfModules /\ CreatedOnce /\ RequestsAreApart /\ CircularIsTrue /\ ParentsAreThere /\ LeavesNothing /\ Recovers
=============================================================================
