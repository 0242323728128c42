-------------------------------- MODULE Http --------------------------------
(***************************************************************************)
(* HTTP requests (http/src/http.ts, kernel.ts, router.ts) in the workflow  *)
(* (workflow/src/workflow.ts) that their listeners (event/src/event.ts)    *)
(* drive. A workflow awaits every listener of a place, so requests meet    *)
(* between any two listeners; they share the compiled router with its      *)
(* variable _match.                                                        *)
(*                                                                         *)
(* Paths are sequences of segments and values are names: "bad" is one the  *)
(* validation refuses. What a listener of the application does is chosen   *)
(* when it is called. Uploaded files, headers and the serialization of     *)
(* results are left out.                                                   *)
(***************************************************************************)
EXTENDS Naturals, Sequences, SequencesExt, FiniteSets

CONSTANTS
    Request,            \* requests
    Scenario,           \* what they ask for, and the listeners of the application
    Route,              \* the routes, in the order they are added: [method, path, args]
    Act, MaxActs,       \* what these listeners do, and how often for one request
    Result              \* what the controller of a request returns or throws

VARIABLES
    routes, fn, urlFn,  \* number of routes added, and of those each function was compiled with
    match,              \* _match of each compiled router, by its number of routes
    listeners,          \* those of the application when the workflow was compiled
    req                 \* the requests

vars == <<routes, fn, urlFn, match, listeners, req>>

None == [to |-> "", data |-> ""]

-----------------------------------------------------------------------------
(* The places of httpWorkflow and what follows them. *)
Transition ==
    [start |-> {"request"}, request |-> {"route"}, route |-> {"auth", "routeNotFound"},
     auth |-> {"resolveParameters", "accessDenied"}, resolveParameters |-> {"controller", "parametersFailed"},
     accessDenied |-> {"response"}, controller |-> {"accessDenied", "controllerError", "response"},
     controllerError |-> {"response"}, parametersFailed |-> {"response"}, routeNotFound |-> {"response"}, response |-> {}]

(* HttpListener; the lower the order, the sooner. *)
Default == <<[place |-> "request", order |-> 100, by |-> "onRequest"], [place |-> "route", order |-> 100, by |-> "onRoute"],
    [place |-> "route", order |-> 1000, by |-> "onRouteForward"], [place |-> "routeNotFound", order |-> 100, by |-> "routeNotFound"],
    [place |-> "auth", order |-> 100, by |-> "onAuth"], [place |-> "resolveParameters", order |-> 100, by |-> "onResolveParameters"],
    [place |-> "accessDenied", order |-> 100, by |-> "onAccessDenied"], [place |-> "controller", order |-> 100, by |-> "onController"],
    [place |-> "parametersFailed", order |-> 100, by |-> "onParametersFailed"],
    [place |-> "controllerError", order |-> 100, by |-> "onControllerError"], [place |-> "response", order |-> 100, by |-> "onResponse"]>>

(* buildApplier(): the listeners of a place as they are called. *)
Listeners(place) ==
    SortSeq(SelectSeq(Default \o listeners, LAMBDA l : l.place = place), LAMBDA a, b : a.order < b.order)

-----------------------------------------------------------------------------
IsParam(segment) == segment.param # ""
Params(route) == SelectSeq(route.path, IsParam)
NoMatch == [hit |-> FALSE, groups |-> <<>>]

(* Regular expression of a path; the one of a parameter may have groups.   *)
Regex(route, path) ==
    IF Len(path) = Len(route.path) /\ \A i \in DOMAIN path : IsParam(route.path[i]) \/ route.path[i].text = path[i]
    THEN [hit |-> TRUE, groups |-> FlattenSeq([i \in DOMAIN path |->
             IF IsParam(route.path[i]) THEN <<path[i]>> \o [g \in 1 .. route.path[i].groups |-> "inner"] ELSE <<>>])]
    ELSE NoMatch

(* getRouteCode(): without parameters the path is compared as it is written. *)
Literal(route, path) ==
    /\ Len(path) = Len(route.path)
    /\ \A i \in DOMAIN path : ~IsParam(route.path[i]) /\ route.path[i].text = path[i]

(* Paths that do not begin like it are not tried: _match stays.            *)
Prefix(route) == IF Params(route) = <<>> THEN 0 ELSE SelectInSeq(route.path, IsParam) - 1
StartsWith(route, path) == Len(path) >= Prefix(route) /\ \A i \in 1 .. Prefix(route) : route.path[i].text = path[i]

Try(acc, k) ==
    LET found == Regex(Route[k], acc.url.path)
    IN  IF acc.route # 0 \/ Route[k].method # acc.url.method \/ (Route[k].args # <<>> /\ ~StartsWith(Route[k], acc.url.path)) THEN acc
        ELSE IF Route[k].args = <<>> THEN [acc EXCEPT !.route = IF Literal(Route[k], acc.url.path) THEN k ELSE 0]
        ELSE [acc EXCEPT !.match = found, !.route = IF found.hit THEN k ELSE 0]

ResolveRequest(url) == FoldLeft(Try, [url |-> url, route |-> 0, match |-> match[routes]], [k \in 1 .. routes |-> k])

(* parseRoutePathToRegex(): arguments are counted, groups are not. *)
Position(route, name) == SelectInSeq(Params(route), LAMBDA p : p.param = name)
Own(q) == match[q.fn]
Group(q, name) ==
    LET at == Position(Route[q.route], name)
    IN  IF at \in DOMAIN Own(q).groups THEN Own(q).groups[at] ELSE "bad"
OfPath(route, arg) == Position(route, arg.name) # 0

-----------------------------------------------------------------------------
Start(url) ==
    [url |-> url, phase |-> "new", place |-> "start", to |-> "request", data |-> "", pc |-> 1, stopped |-> FALSE, next |-> None,
     route |-> 0, fn |-> 0, arg |-> 0, params |-> <<>>, sent |-> FALSE, ended |-> FALSE, status |-> 0, log |-> <<>>, overtaken |-> FALSE]

Logged(q, entry) == [q EXCEPT !.log = Append(@, entry)]
Scheduled(q, to, data) == [q EXCEPT !.next = [to |-> to, data |-> data]]
Send(q, result) == Scheduled(q, "response", result)
End(q, status) == [q EXCEPT !.sent = TRUE, !.ended = TRUE, !.status = IF q.sent THEN @ ELSE status]

(* HttpKernel.handleRequest(): what was thrown. *)
Failed(q) == [IF q.sent THEN q ELSE End(q, 500) EXCEPT !.phase = "done"]

(* The workflow applies the next state of an event, if there is one. *)
Apply(q) ==
    IF q.to \notin Transition[q.place] THEN Failed(q)
    ELSE Logged([q EXCEPT !.pc = 1, !.stopped = FALSE, !.next = None, !.phase = "running"], q.to)

Left(q) ==
    IF q.next = None THEN [q EXCEPT !.place = q.to, !.phase = "done"]
    ELSE Apply([q EXCEPT !.place = q.to, !.to = q.next.to, !.data = q.next.data])

(* The listener has returned: the next one, unless the event was stopped. *)
Returned(q) ==
    IF q.stopped \/ q.pc = Len(Listeners(q.to)) THEN Left(q) ELSE [q EXCEPT !.pc = @ + 1, !.phase = "running"]

HasNext(q) == q.next # None

-----------------------------------------------------------------------------
(* onResolveParameters: the values of the path, up to the next resolver.   *)
Args(q) == Route[q.route].args
Resolvers(q) == {i \in DOMAIN Args(q) : Args(q)[i].by = "resolver"}
Needs(q, from, to) == \E i \in from .. to : OfPath(Route[q.route], Args(q)[i])
Filled(q, from, to) ==
    [i \in DOMAIN Args(q) |-> IF i \in from .. to /\ OfPath(Route[q.route], Args(q)[i]) THEN Group(q, Args(q)[i].name) ELSE q.params[i]]
Until(q, i) == LET later == {k \in Resolvers(q) : k >= i} IN IF later = {} THEN Len(Args(q)) ELSE CHOOSE k \in later : \A l \in later : k <= l

(* A method that takes a BodyValidation is called with an invalid body.    *)
Handles(q) == \E i \in DOMAIN Args(q) : Args(q)[i].by = "bodyValidation"
Resolved(q) ==
    IF \E i \in DOMAIN q.params : q.params[i] = "bad" /\ (Args(q)[i].by = "path" \/ (Args(q)[i].by = "body" /\ ~Handles(q)))
    THEN Scheduled(q, "parametersFailed", "validation") ELSE Scheduled(q, "controller", "")

(* Goes on with argument i: match may be null or that of another request.  *)
Continue(q, i) ==
    LET k == Until(q, i)
        now == [q EXCEPT !.params = Filled(q, i, k)]
    IN  IF Needs(q, i, k) /\ ~Own(q).hit THEN Returned(Scheduled(q, "parametersFailed", "error"))
        ELSE IF k \in Resolvers(q) THEN [now EXCEPT !.phase = "resolving", !.arg = k]
        ELSE Returned(Resolved(now))

ResolveParameters(q) ==
    LET blank == [q EXCEPT !.params = [i \in DOMAIN Args(q) |-> "undefined"]]
    IN  IF Args(q) = <<>> THEN Returned(Scheduled(blank, "controller", ""))
        ELSE IF Resolvers(q) # {} /\ Params(Route[q.route]) # <<>> /\ ~Own(q).hit THEN Returned(Scheduled(q, "parametersFailed", "error"))
        ELSE IF \E i \in DOMAIN Args(q) : Args(q)[i].by = "body" THEN [blank EXCEPT !.phase = "parsing"]
        ELSE Continue(blank, 1)

(* onResponse: nothing is sent behind what was sent.                       *)
Respond(q) ==
    IF q.data = "own" THEN Returned(q)
    ELSE IF q.data = "empty" THEN Returned(End(q, 200))
    ELSE IF q.sent \/ q.data = "broken" \/ (q.data = "redirect" /\ urlFn < routes /\ urlFn # 0) THEN Failed(q)
    ELSE IF q.data = "brokenStatus" THEN Failed([q EXCEPT !.sent = TRUE, !.status = 200])
    ELSE Returned(End(q, CASE q.data = "not found" -> 404 [] q.data = "access denied" -> 403
                           [] q.data \in {"internal error", "validation"} -> 500 [] q.data = "redirect" -> 302 [] OTHER -> 200))

(* The listeners that only schedule what comes next. Only some keep what   *)
(* another listener has scheduled.                                         *)
(* The next state is not asked for. *)
UnlessNextAnyway(q, done) == IF q.sent THEN q ELSE done
UnlessSent(q, done) == IF q.sent THEN q ELSE done
UnlessNext(q, done) == IF q.sent \/ HasNext(q) THEN q ELSE done
OnRequest(q) == UnlessNext(q, Scheduled(q, "route", ""))
OnRouteForward(q) == UnlessNext(q, IF q.route = 0 THEN Scheduled(q, "routeNotFound", "") ELSE q)
RouteNotFound(q) == UnlessNext(q, Send(q, "not found"))
OnAuth(q) == UnlessNext(q, Scheduled(q, "resolveParameters", ""))
OnAccessDenied(q) == UnlessNext(q, Send(q, "access denied"))
OnParametersFailed(q) == UnlessSent(q, Send(q, IF q.data = "validation" THEN "validation" ELSE "internal error"))
OnControllerError(q) == UnlessSent(q, Send(q, "internal error"))

Forwards(q, by) ==
    CASE by = "onRequest" -> OnRequest(q) [] by = "onRouteForward" -> OnRouteForward(q) [] by = "routeNotFound" -> RouteNotFound(q)
      [] by = "onAuth" -> OnAuth(q) [] by = "onAccessDenied" -> OnAccessDenied(q)
      [] by = "onParametersFailed" -> OnParametersFailed(q) [] by = "onControllerError" -> OnControllerError(q)

-----------------------------------------------------------------------------
Init ==
    /\ routes = Len(Route) - 1 /\ fn = 0 /\ urlFn = 0
    /\ match = [n \in DOMAIN Route |-> NoMatch]
    /\ \E s \in Scenario : listeners = s.listeners /\ req = [r \in Request |-> Start(s.url[r])]

AddRoute ==
    /\ routes < Len(Route)
    /\ routes' = routes + 1 /\ fn' = 0
    /\ UNCHANGED <<urlFn, match, listeners, req>>

HandleRequest(r) ==
    /\ req[r].phase = "new" /\ req[r].url.method # ""
    /\ req' = [req EXCEPT ![r] = Apply(@)]
    /\ UNCHANGED <<routes, fn, urlFn, match, listeners>>

Step(r, by) ==
    /\ req[r].phase = "running"
    /\ Listeners(req[r].to)[req[r].pc].by = by

(* A listener of the application; callbacks are awaited like the others.   *)
Does(q, act) ==
    CASE act = "nothing" -> Returned(q)
      [] act = "stop" -> Returned([q EXCEPT !.stopped = TRUE])
      [] act = "deny" -> Returned(Scheduled(q, "accessDenied", ""))
      [] act = "send" -> Returned(Send(q, "text"))
      [] act = "skip" -> Returned(Scheduled(q, "controller", ""))
      [] act = "end" -> Returned(End(q, 200))
      [] act = "throw" -> Failed(q)

Listen(r, act) ==
    LET q == req[r]
    IN  /\ Step(r, "application")
        /\ act # "nothing" => Cardinality({i \in DOMAIN q.log : q.log[i] \in Act}) < MaxActs
        /\ act = "deny" => q.to \in {"auth", "resolveParameters", "controller", "controllerError", "parametersFailed"}
        /\ act \in {"send", "skip"} => q.to # "response"
        /\ req' = [req EXCEPT ![r] = Does(IF act = "nothing" THEN q ELSE Logged(q, act), act)]
        /\ UNCHANGED <<routes, fn, urlFn, match, listeners>>

Forward(r, by) ==
    /\ Step(r, by)
    /\ req' = [req EXCEPT ![r] = Returned(Forwards(@, by))]
    /\ UNCHANGED <<routes, fn, urlFn, match, listeners>>

(* Requests that were routed and have not read their parameters yet.       *)
Routed(s) == req[s].route # 0 /\ req[s].phase # "done" /\ req[s].to \in {"route", "auth", "resolveParameters"}

OnRoute(r) ==
    LET q == req[r]
        found == ResolveRequest(q.url)
        routed == [q EXCEPT !.route = found.route, !.fn = routes]
    IN  /\ Step(r, "onRoute")
        /\ IF q.sent \/ HasNext(q) THEN req' = [req EXCEPT ![r] = Returned(q)] /\ UNCHANGED <<fn, match>>
           ELSE /\ fn' = routes
                /\ match' = [match EXCEPT ![routes] = found.match]
                /\ req' = [s \in Request |-> IF s = r THEN Returned(IF found.route = 0 THEN q ELSE Scheduled(routed, "auth", ""))
                                             ELSE IF Routed(s) /\ req[s].fn = routes /\ match' # match THEN [req[s] EXCEPT !.overtaken = TRUE] ELSE req[s]]
        /\ UNCHANGED <<routes, urlFn, listeners>>

OnResolveParameters(r) ==
    LET q == req[r]
    IN  /\ Step(r, "onResolveParameters")
        /\ req' = [req EXCEPT ![r] = IF q.ended \/ HasNext(q) THEN Returned(q) ELSE ResolveParameters(q)]
        /\ UNCHANGED <<routes, fn, urlFn, match, listeners>>

(* parseBody() has read the body, or it fails.                             *)
BodyParsed(r, value) ==
    LET q == req[r]
        parsed == [q EXCEPT !.params = [i \in DOMAIN Args(q) |-> IF Args(q)[i].by = "body" THEN value ELSE @[i]]]
    IN  /\ q.phase = "parsing"
        /\ req' = [req EXCEPT ![r] = IF value = "error" THEN Returned(Scheduled(q, "parametersFailed", "error")) ELSE Continue(parsed, 1)]
        /\ UNCHANGED <<routes, fn, urlFn, match, listeners>>

(* The resolver of a parameter is done, or it throws.                      *)
ParameterResolved(r, ok) ==
    LET q == req[r]
        set == [q EXCEPT !.params[q.arg] = IF OfPath(Route[q.route], Args(q)[q.arg]) THEN @ ELSE "resolved"]
    IN  /\ q.phase = "resolving"
        /\ req' = [req EXCEPT ![r] = IF ~ok THEN Returned(Scheduled(q, "parametersFailed", "error"))
                                     ELSE IF q.arg = Len(Args(q)) THEN Returned(Resolved(set)) ELSE Continue(set, q.arg + 1)]
        /\ UNCHANGED <<routes, fn, urlFn, match, listeners>>

OnController(r) ==
    LET q == req[r]
    IN  /\ Step(r, "onController")
        /\ req' = [req EXCEPT ![r] = IF q.sent \/ HasNext(q) THEN Returned(q) ELSE Logged([q EXCEPT !.phase = "controlling"], "call")]
        /\ UNCHANGED <<routes, fn, urlFn, match, listeners>>

Controlled(r, result) ==
    LET q == req[r]
    IN  /\ q.phase = "controlling"
        /\ req' = [req EXCEPT ![r] = Returned(Logged(CASE result = "denied" -> Scheduled(q, "accessDenied", "")
                                                       [] result = "error" -> Scheduled(q, "controllerError", "error")
                                                       [] OTHER -> Send(q, result), result))]
        /\ UNCHANGED <<routes, fn, urlFn, match, listeners>>

(* onResponse; the URLs are compiled with the first one that is asked for. *)
OnResponse(r) ==
    /\ Step(r, "onResponse")
    /\ urlFn' = IF req[r].data = "redirect" /\ ~req[r].sent /\ urlFn = 0 THEN routes ELSE urlFn
    /\ req' = [req EXCEPT ![r] = Respond(@)]
    /\ UNCHANGED <<routes, fn, match, listeners>>

Next ==
    \/ AddRoute
    \/ \E r \in Request :
        \/ HandleRequest(r) \/ OnRoute(r) \/ OnResolveParameters(r) \/ OnController(r) \/ OnResponse(r)
        \/ \E by \in {"onRequest", "onRouteForward", "routeNotFound", "onAuth", "onAccessDenied", "onParametersFailed", "onControllerError"} : Forward(r, by)
        \/ \E act \in Act \union {"nothing"} : Listen(r, act)
        \/ \E value \in {"fields", "bad", "error"} : BodyParsed(r, value)
        \/ \E ok \in BOOLEAN : ParameterResolved(r, ok)
        \/ \E result \in Result[r] : Controlled(r, result)

Spec == Init /\ [][Next]_vars

-----------------------------------------------------------------------------
Has(q, entry) == Contains(q.log, entry)
Before(q, entry, later) == SelectInSeq(q.log, LAMBDA e : e = entry) < SelectInSeq(q.log, LAMBDA e : e = later)

(***************************************************************************)
(* A request that is through is answered, unless a listener stopped it or  *)
(* its controller took the response or one that fails behind its head.     *)
(***************************************************************************)
AreAnswered ==
    \A r \in Request : LET q == req[r] IN
        q.phase = "done" /\ ~q.ended => Has(q, "stop") \/ Has(q, "own") \/ Has(q, "brokenStatus")

(***************************************************************************)
(* A controller is called behind the authorization and with parameters,    *)
(* and never for a listener that denied access.                            *)
(***************************************************************************)
AreAuthorized ==
    \A r \in Request : LET q == req[r] IN
        Has(q, "call") => /\ Has(q, "auth") /\ Has(q, "resolveParameters") /\ Before(q, "resolveParameters", "call")
                          /\ Has(q, "deny") /\ ~Has(q, "skip") /\ ~Has(q, "send") => Before(q, "call", "deny")

(* What the path of a request says of an argument. *)
Said(url, route, name) == url.path[SelectInSeq(route.path, LAMBDA s : s.param = name)]
Grouped(route, name) == \E i \in 1 .. Position(route, name) - 1 : Params(route)[i].groups > 0
HaveOwn(r) ==
    LET q == req[r]
    IN  q.phase = "controlling" /\ ~Has(q, "skip") => \A i \in DOMAIN Args(q) : OfPath(Route[q.route], Args(q)[i]) /\ ~Grouped(Route[q.route], Args(q)[i].name) =>
            q.params[i] = Said(q.url, Route[q.route], Args(q)[i].name)

(* The parameters of a controller are those of its path: no other request  *)
(* came between its routing and its reading of them.                       *)
ParametersAreOwn == \A r \in Request : HaveOwn(r)
OwnUnlessOvertaken == \A r \in Request : ~req[r].overtaken => HaveOwn(r)

(***************************************************************************)
(* Without acts of listeners the status says what became of the request.   *)
(***************************************************************************)
Takes(route, url) ==
    /\ route.method = url.method /\ Len(route.path) = Len(url.path)
    /\ \A i \in DOMAIN url.path : (IsParam(route.path[i]) /\ route.args # <<>>) \/ route.path[i].text = url.path[i]
Expected(q) ==
    IF q.route = 0 THEN {404}
    ELSE IF ~Has(q, "call") THEN {500}
    ELSE IF Has(q, "denied") THEN {403}
    ELSE IF Has(q, "error") \/ Has(q, "broken") THEN {500}
    ELSE IF Has(q, "redirect") THEN {302, 500} ELSE {200}
StatusIsTrue ==
    \A r \in Request : LET q == req[r] IN
        q.phase = "done" /\ q.ended /\ (\A act \in Act : ~Has(q, act)) =>
            /\ q.status \in Expected(q)
            /\ q.route # 0 => Takes(Route[q.route], q.url) /\ \A k \in 1 .. q.route - 1 : ~Takes(Route[k], q.url)
            /\ q.route = 0 => \A k \in 1 .. Len(Route) - 1 : ~Takes(Route[k], q.url)

(***************************************************************************)
(* Requests are answered truthfully, by controllers that may be called,    *)
(* with the parameters of their own path.                                  *)
(***************************************************************************)
RequestsAreServed == AreAnswered /\ AreAuthorized /\ OwnUnlessOvertaken /\ StatusIsTrue
=============================================================================
