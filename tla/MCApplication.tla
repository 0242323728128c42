---------------------------- MODULE MCApplication ---------------------------
(***************************************************************************)
(* An application process: the lock of the process and the locks of the    *)
(* broker that stand on it, the configuration of its modules and the       *)
(* instances of its services. Three requests compete for one id and a      *)
(* fourth uses another; a request of each of two connections, which may    *)
(* die, compete through the broker.                                        *)
(***************************************************************************)
EXTENDS ProcessLocker

CONSTANTS i1, i2, l1, l2, l3, l4, c1, c2, NoConn

VARIABLES
  part,  \* the component that runs
  brokerEntry, brokerQueue, brokerHolding, brokerTtl, brokerTtlTimer,
  brokerWaitTimer, brokerCaller, open, locks, settled, closing,
  toUnlock, client, toServer, toClient,
  app, contexts, extra, store, answer, gets, throws,
  heap, handles, used, container, failed, wanted, loads, clones

Provided(token, scope, transient, deps) == [token |-> token, scope |-> scope, transient |-> transient, deps |-> deps, forward |-> ""]
Single(token, scope, deps) == Provided(token, scope, FALSE, deps)
Needed(token) == [token |-> token, optional |-> FALSE]
Optional(token) == [token |-> token, optional |-> TRUE]
ModuleOf(imports, modules, exports, root, providers) ==
    [imports |-> imports, modules |-> modules, exports |-> exports, root |-> root, providers |-> providers]
App(modules, additional, n) == [modules |-> modules, additional |-> additional, fragile |-> "dep", gets |-> n]

(* All ways to export and to import: a module below the root imports or exports another one. *)
Structures ==
    { App(<<ModuleOf(<<2>>, <<>>, <<>>, FALSE, IF r THEN <<Single("dep", "module", <<>>)>> ELSE <<>>),
            ModuleOf(<<3>>, e, x, root2, <<Single("service", "module", <<>>), Provided("dep", "module", TRUE, <<>>)>>),
            ModuleOf(<<>>, <<>>, y, root3, <<Single("dep", "module", <<Needed("service")>>)>>)>>, {FALSE}, 0)
      : r, root2, root3 \in BOOLEAN, e \in {<<>>, <<3>>}, x \in {<<>>, <<"service">>, <<"dep">>}, y \in {<<>>, <<"dep">>} }

(* A service of a module and the provider of the root that it needs. *)
Pair(dep, service, exports, additional) ==
    App(<<ModuleOf(<<2>>, <<>>, <<>>, FALSE, <<dep>>), ModuleOf(<<>>, <<>>, exports, FALSE, <<service>>)>>, additional, 2)
ServiceIn(scope) == Single("service", scope, <<Needed("dep")>>)
Pairs ==
    { Pair(Single("dep", s, d), ServiceIn(v), <<>>, {TRUE}) :
        s, v \in {"module", "http"}, d \in {<<>>, <<Needed("service")>>, <<Optional("request")>>, <<Needed("request")>>} }
    \union { Pair(Single("dep", s, d), [ServiceIn("module") EXCEPT !.forward = "dep"], <<>>, {TRUE}) :
        s \in {"module", "http"}, d \in {<<>>, <<Needed("service")>>} }
    \union { Pair(Single("dep", "module", d), [Single("service", "module", <<>>) EXCEPT !.forward = f], <<>>, {TRUE}) :
        d \in {<<>>, <<Needed("service")>>, <<Needed("absent")>>}, f \in {"dep", "absent"} }
    \union { Pair(Single("dep", "http", d), ServiceIn("http"), x, BOOLEAN) : d \in {<<>>, <<Needed("request")>>}, x \in {<<>>, <<"service">>} }
    \union { Pair(Provided("dep", s, TRUE, <<>>), ServiceIn("module"), <<>>, {TRUE}) : s \in {"module", "http"} }

MCLock == {l1, l2, l3, l4}
MCIdOf == [l \in MCLock |-> IF l = l4 THEN i2 ELSE i1]

Broker == INSTANCE BrokerLocks WITH entry <- brokerEntry, queue <-
  brokerQueue, holding <- brokerHolding, ttl <- brokerTtl, ttlTimer <-
  brokerTtlTimer, waitTimer <- brokerWaitTimer, caller <- brokerCaller, Id
  <- {i1}, Lock <- {l1, l2}, IdOf <- [l \in {l1, l2} |-> i1], Conn <- {c1,
  c2}, ConnOf <- [l \in {l1, l2} |-> IF l = l2 THEN c2 ELSE c1], TtlChoice
  <- BOOLEAN, TimeoutChoice <- {FALSE}

Inject == INSTANCE Injector WITH Apps <- Structures \union Pairs,
  MaxRequests <- 2, MaxThrows <- 1

Modules == INSTANCE AppModules WITH Name <- <<"app", "child", "inner">>,
  Value <- {1, 2}, Bad <- 2, MaxClones <- 2, MaxLoads <- 1

processVars == <<entry, queue, holding, ttl, ttlTimer, waitTimer, caller>>
brokerVars == <<brokerEntry, brokerQueue, brokerHolding, brokerTtl,
  brokerTtlTimer, brokerWaitTimer, brokerCaller, open, locks, settled,
  closing, toUnlock, client, toServer, toClient>>
injectorVars == <<app, contexts, extra, store, answer, gets, throws>>
modulesVars == <<heap, handles, used, container, failed, wanted, loads,
  clones>>

ASSUME Modules!AppAssumption

runVars == <<part, processVars, brokerVars, injectorVars, modulesVars>>

(* All components are at their beginning; one of them, chosen here, goes on. *)
RunInit ==
  /\ part \in {"process", "broker", "injector", "modules"}
  /\ Init
  /\ Broker!BrokerInit
  /\ IF part = "injector" THEN Inject!Init ELSE app = 0 /\ contexts = 0 /\ extra = 0 /\ store = 0 /\ answer = 0 /\ gets = 0 /\ throws = 0
  /\ IF part = "modules" THEN Modules!Init ELSE heap = 0 /\ handles = 0 /\ used = 0 /\ container = 0 /\ failed = 0 /\ wanted = 0 /\ loads = 0 /\ clones = 0

ProcessNext == part = "process" /\ Next /\ UNCHANGED <<part, brokerVars,
  injectorVars, modulesVars>>
BrokerNext == part = "broker" /\ Broker!BrokerNext /\ UNCHANGED <<part,
  processVars, injectorVars, modulesVars>>
InjectNext == part = "injector" /\ Inject!Next /\ UNCHANGED <<part,
  processVars, brokerVars, modulesVars>>
ModulesNext == part = "modules" /\ Modules!Next /\ UNCHANGED <<part,
  processVars, brokerVars, injectorVars>>

RunNext == ProcessNext \/ BrokerNext \/ InjectNext \/ ModulesNext

(* The fairness of the components. *)
RunFairness ==
  /\ Fairness
  /\ WF_brokerVars(part = "broker" /\ Broker!CloseReturns)
  /\ \A l \in {l1, l2} : WF_brokerVars(part = "broker" /\ Broker!Register(l))
  /\ \A l \in {l1, l2} : WF_brokerVars(part = "broker" /\ Broker!CloseUnlocks(l))
  /\ \A l \in {l1, l2} : SF_brokerVars(part = "broker" /\ Broker!TtlTimer(l))
  /\ \A l \in {l1, l2} : SF_brokerVars(part = "broker" /\ (\E hasTtl \in BOOLEAN : Broker!HandleLock(l, hasTtl, FALSE) \/ Broker!HandleTryLock(l, hasTtl)))
  /\ \A l \in {l1, l2} : WF_brokerVars(part = "broker" /\ Broker!ClientReceives(l))

RunSpec == RunInit /\ [][RunNext]_runVars /\ RunFairness
-----------------------------------------------------------------------------
(* Requests for locks are answered. *)
AskedIsAnswered == Broker!AskedIsAnswered
(* Instances are made once, stay with their request, and errors are true. *)
InjectionSafety == part = "injector" => Inject!InjectionSafety
(* Configurations are those of the modules. *)
ConfigurationIsTrue == part = "modules" => Modules!ConfigurationIsTrue
=============================================================================
