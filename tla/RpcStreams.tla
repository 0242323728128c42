----------------------------- MODULE RpcStreams -----------------------------
(***************************************************************************)
(* Calls of one action and the streams they return: RpcActionClient        *)
(* (rpc/src/client/action.ts) and RpcServerAction (rpc/src/server/         *)
(* action.ts), with the two ordered directions of a connection between     *)
(* them.                                                                   *)
(*                                                                         *)
(* An action returns a value, an observable (started again for every       *)
(* subscription), a subject or a BehaviorSubject; the same subject may be  *)
(* returned to several calls and clients. Every value travels under a      *)
(* schema that both ends keep per action: the server for the lifetime of a *)
(* connection, the client for that of the controller.                      *)
(***************************************************************************)
EXTENDS Naturals, Sequences, SequencesExt, FiniteSets

CONSTANTS
  Client, Call, Source, Type,
  Nobody, Nothing, \* not a client, not a source
  Kind,        \* Kind[s]: observable, subject or behavior
  Declared,    \* type of the result annotated at the action
  Subscription,\* bound: ids of subscriptions per observable
  Value,       \* bound: the values emitted, by number
  MaxLosses    \* bound: how often a client reconnects

StreamsAssumption ==
  /\ Call \subseteq Nat /\ Kind \in [Source -> {"observable", "subject", "behavior"}]
  /\ Declared \in Type /\ Value \subseteq [n : Nat, type : Type]

VARIABLES
  server,      \* server[k]: the types of the action at the connection of k, and its messages to k
  toServer,    \* toServer[k]: messages from k
  types,       \* types[k]: the type of the result known to the client
  current,     \* current[s]: the last value of a subject
  done,        \* done[s]: the subject has completed
  listeners,   \* listeners[s]: calls whose replies are subscribed to the subject, in order
  subject,     \* calls with an entry in observableSubjects
  active,      \* active[c]: subscriptions[id] of the observable of c that are subscribed
  known,       \* known[c]: ids with an entry in subscriptions
  clientOf,    \* clientOf[c]: who made the call
  sourceOf,    \* sourceOf[c]: what the action returned to it
  call,        \* call[c]: idle, answered, or lost with its connection
  stream,      \* stream[c]: none, or the kind of object the caller has
  first,       \* first[c]: firstObservableNext
  value,       \* value[c]: what the stream of the caller emitted last
  ended,       \* calls whose subject is over at the caller: completed, or ended by it
  subscribers, \* subscribers[c]: ids
  nextId,      \* nextId[c]: subscriberId
  values, losses,
  misread,     \* observed: a value was parsed under another type than it was written under
  mixed,       \* observed: a value was written under another type than the last announced one
  carried,     \* observed: a client reconnected with a type the new connection does not know of
  early        \* observed: calls whose subject had completed before it was returned

serverVars == <<server, current, done, listeners, subject, active, known>>
calls == <<clientOf, sourceOf, call>>
clientVars == <<types, stream, first, value, ended, subscribers, nextId>>
observed == <<misread, mixed, carried, early>>
vars == <<serverVars, clientVars, toServer, calls, values, losses, observed>>

NoValue == [n |-> 0, type |-> Declared]
Fresh == [property |-> Declared, result |-> Declared, next |-> Declared, out |-> <<>>]

Init ==
  /\ server = [k \in Client |-> Fresh] /\ toServer = [k \in Client |-> <<>>]
  /\ types = [k \in Client |-> Declared]
  /\ current = [s \in Source |-> NoValue] /\ done = [s \in Source |-> FALSE]
  /\ listeners = [s \in Source |-> <<>>] /\ subject = {}
  /\ active = [c \in Call |-> {}] /\ known = [c \in Call |-> {}]
  /\ clientOf = [c \in Call |-> Nobody] /\ sourceOf = [c \in Call |-> Nothing]
  /\ call = [c \in Call |-> "idle"] /\ stream = [c \in Call |-> "none"]
  /\ first = [c \in Call |-> NoValue] /\ value = [c \in Call |-> NoValue]
  /\ ended = {} /\ subscribers = [c \in Call |-> {}] /\ nextId = [c \in Call |-> 0]
  /\ values = 0 /\ losses = 0
  /\ misread = FALSE /\ mixed = FALSE /\ carried = FALSE /\ early = {}
------------------------------------------------------------------------------
(* Mutant: the new type is not announced. *)
EmittedQuietly(at, c, id, v) ==
  LET next == [type |-> "next", call |-> c, id |-> id, value |-> v, as |-> v.type]
  IN [at EXCEPT !.property = v.type, !.next = v.type, !.out = Append(@, next)]

(* The callback of both kinds of subscription: a value of another type is  *)
(* announced before it is written (createNewPropertySchemaIfNecessary).    *)
(* Only the schema of emitted values follows, not that of plain results.   *)
Emitted(at, c, id, v) ==
  LET new == v.type # at.property
      schema == IF new THEN v.type ELSE at.next
      type == [type |-> "returnType", call |-> c, is |-> v.type]
      next == [type |-> "next", call |-> c, id |-> id, value |-> v, as |-> schema]
  IN [at EXCEPT !.property = v.type, !.next = schema,
                !.out = @ \o IF new THEN <<type, next>> ELSE <<next>>]

Reply(srv, k, message) == [srv EXCEPT ![k].out = Append(@, message)]

(* The subscriptions of a subject, in the order they were made. *)
EmitTo(srv, s, v) ==
  FoldLeft(LAMBDA at, c : [at EXCEPT ![clientOf[c]] = Emitted(@, c, c, v)], srv, listeners[s])

(* Mutant: only the first of them is told. *)
CompleteToFirst(srv, s, silent) ==
  IF done[s] \/ listeners[s] = <<>> \/ Head(listeners[s]) \in silent THEN srv
  ELSE LET c == Head(listeners[s]) IN Reply(srv, clientOf[c], [type |-> "complete", call |-> c, id |-> c])

(* The complete callbacks: silent towards a client that ended it itself. *)
CompleteTo(srv, s, silent) ==
  FoldLeft(LAMBDA at, c : IF c \in silent THEN at ELSE Reply(at, clientOf[c], [type |-> "complete", call |-> c, id |-> c]),
           srv, IF done[s] THEN <<>> ELSE listeners[s])

Complete(s, silent) ==
  /\ server' = CompleteTo(server, s, silent)
  /\ done' = [done EXCEPT ![s] = TRUE]
  /\ listeners' = [listeners EXCEPT ![s] = <<>>]

Arrived(k) == toServer[k] # <<>>
Taken(k) == toServer' = [toServer EXCEPT ![k] = Tail(@)]
Send(c, message) == toServer' = [toServer EXCEPT ![clientOf[c]] = Append(@, message)]
------------------------------------------------------------------------------
(* A call is made and answered in one step: on its way to the server, and  *)
(* while its action runs, nothing else depends on it. Ids ascend.          *)
Answer(c, k) ==
  /\ call[c] = "idle" /\ \A d \in Call : d < c => call[d] # "idle"
  /\ call' = [call EXCEPT ![c] = "answered"]
  /\ clientOf' = [clientOf EXCEPT ![c] = k]

(* handleAction(): the action has returned a value, the schema of results  *)
(* follows a new type.                                                     *)
ReturnValue(c, k, v) ==
  /\ Answer(c, k) /\ v.n = values + 1
  /\ values' = v.n
  /\ LET at == server[k]
         new == v.type # at.property
         schema == IF new THEN v.type ELSE at.result
     IN server' = [server EXCEPT ![k] =
                     [at EXCEPT !.property = v.type, !.result = schema,
                                !.out = Append(@, [type |-> "simple", call |-> c, value |-> v,
                                                   as |-> schema, announced |-> new])]]
  /\ UNCHANGED <<current, done, listeners, subject, active, known, clientVars, sourceOf, toServer,
                 losses, observed>>

(* ... an observable; the values of a subject are subscribed first, so     *)
(* that of a BehaviorSubject comes before the message with its kind, and   *)
(* an end that has already come is sent before it too.                     *)
ReturnStream(c, k, s) ==
  LET kind == [type |-> "observable", call |-> c, kind |-> Kind[s]]
      before == IF done[s] THEN Reply(server, k, [type |-> "complete", call |-> c, id |-> c])
                ELSE IF Kind[s] = "behavior"
                THEN [server EXCEPT ![k] = Emitted(@, c, c, current[s])]
                ELSE server
  IN /\ Answer(c, k)
     /\ server' = Reply(before, k, kind)
     /\ sourceOf' = [sourceOf EXCEPT ![c] = s]
     /\ early' = IF done[s] THEN early \cup {c} ELSE early
     /\ IF Kind[s] = "observable" THEN UNCHANGED <<subject, listeners>>
        ELSE /\ subject' = subject \cup {c}
             /\ listeners' = [listeners EXCEPT ![s] = IF done[s] THEN @ ELSE Append(@, c)]
     /\ UNCHANGED <<current, done, active, known, clientVars, toServer, values, losses, misread, mixed,
                    carried>>

(* The application emits on a subject, or completes it. *)
Emit(s, v) ==
  /\ Kind[s] \in {"subject", "behavior"} /\ ~ done[s] /\ v.n = values + 1
  /\ values' = v.n
  /\ server' = EmitTo(server, s, v)
  /\ current' = [current EXCEPT ![s] = v]
  /\ UNCHANGED <<done, listeners, subject, active, known, clientVars, toServer, calls, losses, observed>>

Finish(s) ==
  /\ Kind[s] \in {"subject", "behavior"} /\ ~ done[s]
  /\ Complete(s, {})
  /\ UNCHANGED <<current, subject, active, known, clientVars, toServer, calls, values, losses, observed>>

(* A subscription of an observable emits, or completes; its entry stays. *)
EmitOwn(c, id, v) ==
  /\ id \in active[c] /\ v.n = values + 1
  /\ values' = v.n
  /\ server' = [server EXCEPT ![clientOf[c]] = Emitted(@, c, id, v)]
  /\ UNCHANGED <<current, done, listeners, subject, active, known, clientVars, toServer, calls, losses, observed>>

FinishOwn(c, id) ==
  /\ id \in active[c]
  /\ active' = [active EXCEPT ![c] = @ \ {id}]
  /\ server' = Reply(server, clientOf[c], [type |-> "complete", call |-> c, id |-> id])
  /\ UNCHANGED <<current, done, listeners, subject, known, clientVars, toServer, calls, values, losses, observed>>

(* handle(): ActionObservableSubscribe *)
HandleSubscribe(k) ==
  /\ Arrived(k)
  /\ LET m == Head(toServer[k]) IN
     /\ m.type = "subscribe" /\ m.id \notin known[m.call]
     /\ known' = [known EXCEPT ![m.call] = @ \cup {m.id}]
     /\ active' = [active EXCEPT ![m.call] = @ \cup {m.id}]
  /\ Taken(k)
  /\ UNCHANGED <<server, current, done, listeners, subject, clientVars, calls, values, losses, observed>>

(* ActionObservableUnsubscribe *)
HandleUnsubscribe(k) ==
  /\ Arrived(k)
  /\ LET m == Head(toServer[k]) IN
     /\ m.type = "unsubscribe" /\ m.id \in known[m.call]
     /\ known' = [known EXCEPT ![m.call] = @ \ {m.id}]
     /\ active' = [active EXCEPT ![m.call] = @ \ {m.id}]
  /\ Taken(k)
  /\ UNCHANGED <<server, current, done, listeners, subject, clientVars, calls, values, losses, observed>>

(* ActionObservableSubjectUnsubscribe completes the subject of the         *)
(* application, for all who use it.                                        *)
HandleEnd(k) ==
  /\ Arrived(k)
  /\ LET m == Head(toServer[k]) IN
     /\ m.type = "end" /\ m.call \in subject
     /\ Complete(sourceOf[m.call], {m.call})
     /\ subject' = subject \ {m.call}
  /\ Taken(k)
  /\ UNCHANGED <<current, active, known, clientVars, calls, values, losses, observed>>
------------------------------------------------------------------------------
Incoming(k) == Head(server[k].out)
Received(k) == server' = [server EXCEPT ![k].out = Tail(@)]
Is(k, type) == server[k].out # <<>> /\ Incoming(k).type = type

(* A value is parsed under the type the client knows. *)
Parsed(k, m) ==
  /\ misread' = (misread \/ types[k] # m.as)
  /\ mixed' = (mixed \/ m.as # m.value.type)
  /\ UNCHANGED <<carried, early>>

(* onReply: ResponseActionReturnType, setReturnType() *)
OnReturnType(k) ==
  /\ Is(k, "returnType")
  /\ types' = [types EXCEPT ![k] = Incoming(k).is]
  /\ Received(k)
  /\ UNCHANGED <<current, done, listeners, subject, active, known, stream, first, value, ended, subscribers, nextId,
                 toServer, calls, values, losses, observed>>

(* ResponseActionResult or ResponseActionSimple *)
OnSimple(k) ==
  /\ Is(k, "simple")
  /\ LET m == Incoming(k) IN
     /\ types' = IF m.announced THEN [types EXCEPT ![k] = m.as] ELSE types
     /\ misread' = (misread \/ types'[k] # m.as)
     /\ mixed' = (mixed \/ m.as # m.value.type)
  /\ Received(k)
  /\ UNCHANGED <<current, done, listeners, subject, active, known, stream, first, value, ended, subscribers, nextId,
                 toServer, calls, values, losses, carried, early>>

(* ResponseActionObservableNext: to the subscriber, to the subject, or     *)
(* kept until the kind is known.                                           *)
OnNext(k) ==
  /\ Is(k, "next")
  /\ LET m == Incoming(k) c == m.call IN
     /\ Parsed(k, m)
     /\ CASE stream[c] = "observable" -> UNCHANGED <<value, first>>
          [] stream[c] = "none" -> first' = [first EXCEPT ![c] = m.value] /\ UNCHANGED value
          [] OTHER -> value' = [value EXCEPT ![c] = IF c \in ended THEN @ ELSE m.value] /\ UNCHANGED first
  /\ Received(k)
  /\ UNCHANGED <<current, done, listeners, subject, active, known, types, stream, ended, subscribers, nextId,
                 toServer, calls, values, losses>>

(* ResponseActionObservable *)
OnObservable(k) ==
  /\ Is(k, "observable")
  /\ LET m == Incoming(k) IN
     /\ stream' = [stream EXCEPT ![m.call] = m.kind]
     /\ value' = [value EXCEPT ![m.call] = IF m.kind = "behavior" THEN first[m.call] ELSE @]
  /\ Received(k)
  /\ UNCHANGED <<current, done, listeners, subject, active, known, types, first, ended, subscribers, nextId,
                 toServer, calls, values, losses, observed>>

(* ResponseActionObservableComplete: a subscriber that completes is torn   *)
(* down, which unsubscribes at the server too.                             *)
OnComplete(k) ==
  /\ Is(k, "complete")
  /\ LET m == Incoming(k) c == m.call IN
     CASE stream[c] = "observable" /\ m.id \in subscribers[c] ->
            /\ subscribers' = [subscribers EXCEPT ![c] = @ \ {m.id}]
            /\ Send(c, [type |-> "unsubscribe", call |-> c, id |-> m.id])
            /\ UNCHANGED ended
       [] stream[c] \in {"subject", "behavior"} ->
            ended' = ended \cup {c} /\ UNCHANGED <<subscribers, toServer>>
       [] OTHER -> UNCHANGED <<subscribers, toServer, ended>>
  /\ Received(k)
  /\ UNCHANGED <<current, done, listeners, subject, active, known, types, stream, first, value, nextId,
                 calls, values, losses, observed>>

(* The caller subscribes the observable, unsubscribes, or ends a subject. *)
Subscribe(c) ==
  /\ stream[c] = "observable" /\ nextId[c] \in Subscription /\ call[c] = "answered"
  /\ nextId' = [nextId EXCEPT ![c] = @ + 1]
  /\ subscribers' = [subscribers EXCEPT ![c] = @ \cup {nextId[c]}]
  /\ Send(c, [type |-> "subscribe", call |-> c, id |-> nextId[c]])
  /\ UNCHANGED <<serverVars, types, stream, first, value, ended, calls, values, losses, observed>>

Unsubscribe(c, id) ==
  /\ id \in subscribers[c] /\ call[c] = "answered"
  /\ subscribers' = [subscribers EXCEPT ![c] = @ \ {id}]
  /\ Send(c, [type |-> "unsubscribe", call |-> c, id |-> id])
  /\ UNCHANGED <<serverVars, types, stream, first, value, ended, nextId, calls, values, losses, observed>>

End(c) ==
  /\ stream[c] \in {"subject", "behavior"} /\ call[c] = "answered" /\ c \notin ended
  /\ ended' = ended \cup {c}
  /\ Send(c, [type |-> "end", call |-> c])
  /\ UNCHANGED <<serverVars, types, stream, first, value, subscribers, nextId, calls, values, losses, observed>>
------------------------------------------------------------------------------
Mine(k) == {c \in Call : clientOf[c] = k}

(* The connection is lost: onClose() unsubscribes observables and          *)
(* completes the subjects it was given, also those others use. The server  *)
(* forgets the types with the connection, the client does not.             *)
Reconnect(k) ==
  LET given == {sourceOf[c] : c \in subject \cap Mine(k)}
      told == FoldSet(LAMBDA s, srv : CompleteTo(srv, s, {}), server, given)
  IN /\ losses < MaxLosses
     /\ losses' = losses + 1
     /\ server' = [told EXCEPT ![k] = Fresh]
     /\ toServer' = [toServer EXCEPT ![k] = <<>>]
     /\ done' = [s \in Source |-> done[s] \/ s \in given]
     /\ listeners' = [s \in Source |-> IF s \in given THEN <<>> ELSE listeners[s]]
     /\ subject' = subject \ Mine(k)
     /\ active' = [c \in Call |-> IF c \in Mine(k) THEN {} ELSE active[c]]
     /\ known' = [c \in Call |-> IF c \in Mine(k) THEN {} ELSE known[c]]
     /\ call' = [c \in Call |-> IF c \in Mine(k) /\ call[c] # "idle" THEN "lost" ELSE call[c]]
     /\ carried' = (carried \/ types[k] # Declared)
     /\ UNCHANGED <<current, clientVars, clientOf, sourceOf, values, misread, mixed, early>>

Next ==
  \/ \E c \in Call, k \in Client :
       \/ \E s \in Source : ReturnStream(c, k, s)
       \/ \E v \in Value : ReturnValue(c, k, v)
  \/ \E c \in Call : Subscribe(c) \/ End(c)
  \/ \E s \in Source : Finish(s) \/ \E v \in Value : Emit(s, v)
  \/ \E c \in Call, id \in Subscription :
       FinishOwn(c, id) \/ Unsubscribe(c, id) \/ \E v \in Value : EmitOwn(c, id, v)
  \/ \E k \in Client :
       \/ HandleSubscribe(k) \/ HandleUnsubscribe(k) \/ HandleEnd(k)
       \/ OnReturnType(k) \/ OnSimple(k) \/ OnNext(k) \/ OnObservable(k) \/ OnComplete(k)
       \/ Reconnect(k)

(* A connection that stands delivers in both directions. *)
Handles(k) == HandleSubscribe(k) \/ HandleUnsubscribe(k) \/ HandleEnd(k)
Reads(k) == OnReturnType(k) \/ OnSimple(k) \/ OnNext(k) \/ OnObservable(k) \/ OnComplete(k)
Fairness == \A k \in Client : WF_vars(Handles(k)) /\ WF_vars(Reads(k))

Spec == Init /\ [][Next]_vars /\ Fairness
------------------------------------------------------------------------------
(* Both ends agree on the type of every value: the client parses what it   *)
(* was written under, though any stream of the action may change the type  *)
(* at any time. Except that a client keeps a type over a reconnect which   *)
(* the new connection never announced (action.ts:62, server/action.ts:53), *)
(* and that a plain result after a stream of the same action, or the other *)
(* way round, is written under the type before (server/action.ts:360, 455).*)
TypesAgree == misread => carried \/ mixed

(* When nothing is on its way, the subscriptions of an observable that     *)
(* still run at the server are those the caller still has: none emits for  *)
(* nobody, none waits for a source that was stopped.                       *)
Quiet(k) == server[k].out = <<>> /\ toServer[k] = <<>>
SubscriptionsAgree ==
  \A c \in Call : call[c] = "answered" /\ Quiet(clientOf[c]) =>
    active[c] = subscribers[c] /\ known[c] = subscribers[c]

(* When nothing is on its way, a BehaviorSubject has the same value at     *)
(* both ends as long as neither has ended it.                              *)
BehaviorIsCurrent ==
  \A c \in Call : stream[c] = "behavior" /\ call[c] = "answered" /\ Quiet(clientOf[c]) /\ ~ done[sourceOf[c]]
                  /\ c \notin ended => value[c] = current[sourceOf[c]]

(* A subject that completes at the server completes at every caller that   *)
(* has it, whoever completed it; except one that had completed before the  *)
(* action returned it: that message comes before the caller has a stream   *)
(* and is dropped (action.ts:171, server/action.ts:422).                   *)
StreamsEnd ==
  \A c \in Call :
    (call[c] = "answered" /\ c \in subject /\ done[sourceOf[c]])
      ~> (c \in ended \/ call[c] = "lost" \/ c \in early)

(* All that holds at any moment: types, subscriptions and the values of    *)
(* subjects are the same at both ends.                                     *)
StreamsAgree ==
  /\ TypesAgree
  /\ SubscriptionsAgree
  /\ BehaviorIsCurrent
=============================================================================
