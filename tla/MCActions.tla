------------------------------ MODULE MCActions -----------------------------
(***************************************************************************)
(* What clients ask of a server: results and streams of two clients, peers *)
(* that call each other, and HTTP requests.                                *)
(***************************************************************************)
EXTENDS RpcPeers

CONSTANTS k1, k2, cold, shared, n1, Nothing

VARIABLES
  part,  \* the component that runs
  server, streamsToServer, types, streamsCurrent, done,
  streamsListeners, subject, active, known, clientOf, sourceOf, call,
  stream, first, value, ended, subscribers, nextId, values, losses,
  misread, mixed, carried, early,
  routes, fn, urlFn, match, httpListeners, req

Fixed(text) == [param |-> "", text |-> text, groups |-> 0]
Param(name, groups) == [param |-> name, text |-> "", groups |-> groups]
Arg(name, by) == [name |-> name, by |-> by]
RouteOf(method, path, args) == [method |-> method, path |-> path, args |-> args]
Routes ==
    <<RouteOf("GET", <<Fixed("user"), Param("id", 0)>>, <<Arg("id", "path")>>), RouteOf("GET", <<Fixed("user"), Fixed("me")>>, <<>>),
      RouteOf("POST", <<Fixed("user"), Param("id", 0)>>, <<Arg("data", "body"), Arg("id", "path"), Arg("errors", "bodyValidation")>>),
      RouteOf("GET", <<Param("a", 1), Param("b", 0), Fixed("x")>>, <<Arg("a", "resolver"), Arg("b", "path")>>), RouteOf("GET", <<Fixed("late")>>, <<>>)>>
Url(method, path) == [method |-> method, path |-> path]
Urls == {Url("GET", <<"user", "1">>), Url("GET", <<"user", "me">>), Url("POST", <<"user", "2">>), Url("GET", <<"1", "2", "x">>), Url("GET", <<"late">>)}
Alone == Url("", <<>>)

(* One request and a listener anywhere, or two requests. *)
Scenarios ==
    { [url |-> <<u, Alone>>, listeners |-> <<[place |-> p, order |-> o, by |-> "application"]>>] :
        u \in Urls \union {Url("GET", <<"user", "bad">>)}, o \in {0, 200},
        p \in {"request", "route", "auth", "resolveParameters", "accessDenied", "controller", "controllerError", "parametersFailed", "routeNotFound", "response"} }
    \union { [url |-> <<u, v>>, listeners |-> <<>>] : u \in Urls, v \in {Url("GET", <<"user", "3">>), Url("GET", <<"none">>)} }

Streams == INSTANCE RpcStreams WITH toServer <- streamsToServer, current <-
  streamsCurrent, listeners <- streamsListeners, Client <- {k1, k2}, Call <-
  {1, 2}, Source <- {cold, shared}, Type <- {"number", "string"}, Kind <- [s
  \in {cold, shared} |-> IF s = cold THEN "observable" ELSE "behavior"],
  Declared <- "number", Subscription <- {0}, Value <- {[n |-> 1, type |->
  "string"]}, MaxLosses <- 1

Web == INSTANCE Http WITH listeners <- httpListeners, Request <- {1, 2},
  Scenario <- Scenarios, Route <- Routes, Act <- {"stop", "deny", "send",
  "skip", "end", "throw"}, MaxActs <- 1, Result <- <<{"empty", "text",
  "redirect", "broken", "brokenStatus", "own", "denied", "error"},
  {"text"}>>

streamsVars == <<server, streamsToServer, types, streamsCurrent, done,
  streamsListeners, subject, active, known, clientOf, sourceOf, call,
  stream, first, value, ended, subscribers, nextId, values, losses, misread,
  mixed, carried, early>>
peersVars == <<current, connections, open, toServer, toClient, exchange,
  myPeerId, handlers, registered, asked, calls, registrations, contested>>
httpVars == <<routes, fn, urlFn, match, httpListeners, req>>

ASSUME Streams!StreamsAssumption

runVars == <<part, streamsVars, peersVars, httpVars>>

(* All components are at their beginning; one of them, chosen here, goes on. *)
RunInit ==
  /\ part \in {"streams", "peers", "http"}
  /\ Streams!Init
  /\ Init
  /\ IF part = "http" THEN Web!Init ELSE routes = 0 /\ fn = 0 /\ urlFn = 0 /\ match = 0 /\ httpListeners = 0 /\ req = 0

StreamsNext == part = "streams" /\ Streams!Next /\ UNCHANGED <<part,
  peersVars, httpVars>>
PeersNext == part = "peers" /\ Next /\ UNCHANGED <<part, streamsVars,
  httpVars>>
WebNext == part = "http" /\ Web!Next /\ UNCHANGED <<part, streamsVars,
  peersVars>>

RunNext == StreamsNext \/ PeersNext \/ WebNext

(* The fairness of the components. *)
RunFairness ==
  /\ \A k \in {k1, k2} : WF_streamsVars(part = "streams" /\ Streams!Handles(k))
  /\ \A k \in {k1, k2} : WF_streamsVars(part = "streams" /\ Streams!Reads(k))
  /\ \A c \in Connection : WF_peersVars(part = "peers" /\ KernelReceives(c))
  /\ \A k \in {k1, k2} : WF_peersVars(part = "peers" /\ ClientReceives(k))
  /\ \A k \in {k1, k2} : WF_peersVars(part = "peers" /\ Continue(k))
  /\ WF_peersVars(part = "peers" /\ (\E h \in handlers, allowed \in BOOLEAN : SecurityAnswers(h, allowed)))

RunSpec == RunInit /\ [][RunNext]_runVars /\ RunFairness
-----------------------------------------------------------------------------
(* Types, subscriptions and subjects are the same at both ends. *)
StreamsAgree == Streams!StreamsAgree
(* A completed subject completes at its callers. *)
StreamsEnd == Streams!StreamsEnd
(* Requests are answered, authorized and get their parameters. *)
RequestsAreServed == part = "http" => Web!RequestsAreServed
(* Requests get the parameters of their own paths, even those that overlap. *)
ParametersAreOwn == part = "http" => Web!ParametersAreOwn
=============================================================================
