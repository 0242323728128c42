------------------------- MODULE BrokerEntityFields -------------------------
(***************************************************************************)
(* The entity fields of the broker: which fields of an entity somebody     *)
(* subscribes to. Every client counts its own publications of a field and  *)
(* tells the server of the first and the last one only                     *)
(* (broker/src/client.ts, publishEntityFields); the server counts clients, *)
(* tells all other connections of a change, waits for all their acks and   *)
(* answers with the fields it has by then (broker/src/kernel.ts).          *)
(*                                                                         *)
(* One entity, since entities share nothing. A member of Publication is    *)
(* one call of publishEntityFields and the subscription it returns.        *)
(* Messages of one connection keep their order. A reply resolves a         *)
(* promise, and its continuation runs after the rest of the same chunk of  *)
(* bytes: the messages the client receives before it are those of that     *)
(* chunk.                                                                  *)
(***************************************************************************)
EXTENDS Naturals, Sequences, FiniteSets

CONSTANTS BrokerClient,
          MayDie,       \* clients that may die
          Reader,       \* clients that call getEntityFields
          Field,
          Publication,
          PublisherOf,  \* PublisherOf[p]: the client that calls publishEntityFields
          FieldsOf,     \* FieldsOf[p]: the fields it publishes
          NoPublication \* marks the answer to AllEntityFields

EntityFieldsAssumption ==
  /\ IsFiniteSet(BrokerClient) /\ IsFiniteSet(Publication)
  /\ MayDie \subseteq BrokerClient /\ Reader \subseteq BrokerClient
  /\ PublisherOf \in [Publication -> BrokerClient]
  /\ FieldsOf \in [Publication -> SUBSET Field]
  /\ NoPublication \notin Publication

VARIABLES
  counts,      \* entityFields of the server: 0 stands for no entry
  named,       \* the entity has an entry in entityFields
  connected,   \* the server's connections
  waits,       \* waits[p]: connections whose ack the handler of p awaits
  handling,    \* publications whose handler has broadcast and not replied
  living,      \* clients that have not died
  store,       \* store[c]: publishedEntityFields of the client, 0 as above
  known,       \* known[c]: knownEntityFields of the client
  loaded,      \* loaded[c]: how far getEntityFields() got
  progress,    \* progress[p]: where publication p is
  asked,       \* asked[p]: the fields of p's request under way
  resolved,    \* resolved[c]: answers whose continuation has not yet run
  requests,    \* requests[c]: what is on its way from c to the server
  answers,     \* answers[c]: what is on its way to c
  overtaken    \* observed: clients whose last message was a broadcast
               \* received before the continuation of an older answer

fieldServerVars == <<counts, named, connected, waits, handling>>
fieldClientVars == <<living, store, known, loaded, progress, asked, resolved, overtaken>>
fieldVars == <<fieldServerVars, fieldClientVars, requests, answers>>

FieldRequest == [type : {"Publish", "Unsubscribe"}, of : Publication, fields : SUBSET Field]
Ack == [type : {"Ack"}, of : Publication]
All == [type : {"All"}]
FieldAnswer == [type : {"Broadcast", "Reply"}, of : Publication, fields : SUBSET Field, named : BOOLEAN]
AllAnswer == [type : {"Reply"}, of : {NoPublication}, fields : SUBSET Field, named : BOOLEAN]

FieldsInit ==
  /\ counts = [f \in Field |-> 0]
  /\ named = FALSE
  /\ connected = {}
  /\ waits = [p \in Publication |-> {}]
  /\ handling = {}
  /\ living = BrokerClient
  /\ store = [c \in BrokerClient |-> [f \in Field |-> 0]]
  /\ known = [c \in BrokerClient |-> {}]
  /\ loaded = [c \in BrokerClient |-> "no"]
  /\ progress = [p \in Publication |-> "new"]
  /\ asked = [p \in Publication |-> {}]
  /\ resolved = [c \in BrokerClient |-> <<>>]
  /\ requests = [c \in BrokerClient |-> <<>>]
  /\ answers = [c \in BrokerClient |-> <<>>]
  /\ overtaken = {}

EntityFields == {f \in Field : counts[f] > 0}
-----------------------------------------------------------------------------
(* The client: its calls. *)
Connect(c) ==
  /\ c \in living \ connected
  /\ connected' = connected \cup {c}
  /\ UNCHANGED <<counts, named, waits, handling, fieldClientVars, requests, answers>>

SendsRequest(c, message) ==
  /\ c \in living \cap connected
  /\ requests' = [requests EXCEPT ![c] = Append(@, message)]

(* The fields this client has not published before. *)
NewFields(c, fields) == {f \in fields : store[c][f] = 0}

PublishEntityFields(p) ==
  LET c == PublisherOf[p]
      new == NewFields(c, FieldsOf[p])
  IN
  /\ progress[p] = "new" /\ c \in living
  /\ store' = [store EXCEPT ![c] = [f \in Field |-> IF f \in FieldsOf[p] THEN @[f] + 1 ELSE @[f]]]
  /\ IF new = {}
     THEN /\ progress' = [progress EXCEPT ![p] = "active"]
          /\ UNCHANGED <<asked, requests>>
     ELSE /\ SendsRequest(c, [type |-> "Publish", of |-> p, fields |-> new])
          /\ progress' = [progress EXCEPT ![p] = "publishing"]
          /\ asked' = [asked EXCEPT ![p] = new]
  /\ UNCHANGED <<fieldServerVars, living, known, loaded, resolved, overtaken, answers>>

UnsubscribeEntityFields(p) ==
  LET c == PublisherOf[p]
      last == {f \in FieldsOf[p] : store[c][f] = 1}
  IN
  /\ progress[p] = "active" /\ c \in living
  /\ store' = [store EXCEPT ![c] = [f \in Field |-> IF f \in FieldsOf[p] THEN @[f] - 1 ELSE @[f]]]
  /\ IF last = {}
     THEN /\ progress' = [progress EXCEPT ![p] = "done"]
          /\ UNCHANGED <<asked, requests>>
     ELSE /\ SendsRequest(c, [type |-> "Unsubscribe", of |-> p, fields |-> last])
          /\ progress' = [progress EXCEPT ![p] = "leaving"]
          /\ asked' = [asked EXCEPT ![p] = last]
  /\ UNCHANGED <<fieldServerVars, living, known, loaded, resolved, overtaken, answers>>

(* The first getEntityFields(); later ones only wait for it. *)
GetEntityFields(c) ==
  /\ c \in Reader /\ loaded[c] = "no"
  /\ SendsRequest(c, [type |-> "All"])
  /\ loaded' = [loaded EXCEPT ![c] = "loading"]
  /\ UNCHANGED <<fieldServerVars, living, store, known, progress, asked, resolved, overtaken, answers>>
-----------------------------------------------------------------------------
(* The client: what it receives. *)
(* Mutant: broadcasts are taken, not acknowledged. *)
OnBroadcastSilently(c) ==
  /\ answers[c] # <<>> /\ Head(answers[c]).type = "Broadcast"
  /\ known' = [known EXCEPT ![c] = Head(answers[c]).fields]
  /\ overtaken' = IF resolved[c] = <<>> THEN overtaken \ {c} ELSE overtaken \cup {c}
  /\ answers' = [answers EXCEPT ![c] = Tail(@)]
  /\ UNCHANGED <<fieldServerVars, living, store, loaded, progress, asked, resolved, requests>>

OnBroadcast(c) ==
  /\ answers[c] # <<>> /\ Head(answers[c]).type = "Broadcast"
  /\ known' = [known EXCEPT ![c] = Head(answers[c]).fields]
  /\ overtaken' = IF resolved[c] = <<>> THEN overtaken \ {c} ELSE overtaken \cup {c}
  /\ answers' = [answers EXCEPT ![c] = Tail(@)]
  /\ requests' = [requests EXCEPT ![c] = Append(@, [type |-> "Ack", of |-> Head(answers[c]).of])]
  /\ UNCHANGED <<fieldServerVars, living, store, loaded, progress, asked, resolved>>

OnReply(c) ==
  /\ answers[c] # <<>> /\ Head(answers[c]).type = "Reply"
  /\ resolved' = [resolved EXCEPT ![c] = Append(@, Head(answers[c]))]
  /\ overtaken' = overtaken \ {c}
  /\ answers' = [answers EXCEPT ![c] = Tail(@)]
  /\ UNCHANGED <<fieldServerVars, living, store, known, loaded, progress, asked, requests>>

(* The code after the await of an answer. *)
Settle(c, p) ==
  IF p = NoPublication
  THEN /\ loaded' = [loaded EXCEPT ![c] = "yes"]
       /\ UNCHANGED <<progress, asked>>
  ELSE /\ progress' = [progress EXCEPT ![p] = IF @ = "publishing" THEN "active" ELSE "done"]
       /\ asked' = [asked EXCEPT ![p] = {}]
       /\ UNCHANGED loaded

Continue(c) ==
  /\ resolved[c] # <<>>
  /\ LET answer == Head(resolved[c])
     IN /\ known' = IF answer.named THEN [known EXCEPT ![c] = answer.fields] ELSE known
        /\ Settle(c, answer.of)
  /\ resolved' = [resolved EXCEPT ![c] = Tail(@)]
  /\ UNCHANGED <<fieldServerVars, living, store, overtaken, requests, answers>>

(* All the client had is gone; what it sent last may still arrive. *)
ClientDies(c) ==
  /\ c \in living \cap MayDie
  /\ living' = living \ {c}
  /\ store' = [store EXCEPT ![c] = [f \in Field |-> 0]]
  /\ known' = [known EXCEPT ![c] = {}]
  /\ resolved' = [resolved EXCEPT ![c] = <<>>]
  /\ overtaken' = overtaken \ {c}
  /\ answers' = [answers EXCEPT ![c] = <<>>]
  /\ UNCHANGED <<fieldServerVars, loaded, progress, asked, requests>>
-----------------------------------------------------------------------------
(* The server. *)
Received(c) == requests' = [requests EXCEPT ![c] = Tail(@)]

(* What is written to a client that is gone is lost. *)
SendsAnswers(messages) ==
  answers' = [c \in BrokerClient |-> IF c \in living THEN answers[c] \o messages[c] ELSE answers[c]]

Answered(c, p, fields) ==
  [d \in BrokerClient |->
     IF d = c THEN <<[type |-> "Reply", of |-> p, fields |-> fields, named |-> named']>> ELSE <<>>]

Others(c) == connected \ {c}

(* Mutant: a field somebody publishes already is not counted. *)
CountOnce(fields) == [f \in Field |-> IF f \in fields THEN 1 ELSE counts[f]]

CountUp(fields) == [f \in Field |-> IF f \in fields THEN counts[f] + 1 ELSE counts[f]]

Withdraw(fields) == [f \in Field |-> IF f \in fields /\ counts[f] > 0 THEN counts[f] - 1 ELSE counts[f]]

(* The handlers of PublishEntityFields and UnsubscribeEntityFields up to   *)
(* their await, or up to the reply when no field came or went.             *)
HandleRequest(c) ==
  /\ c \in connected /\ requests[c] # <<>>
  /\ Head(requests[c]).type \in {"Publish", "Unsubscribe"}
  /\ Received(c)
  /\ LET request == Head(requests[c])
         p == request.of
         publishes == request.type = "Publish"
     IN
     /\ counts' = IF publishes THEN CountUp(request.fields) ELSE Withdraw(request.fields)
     /\ named' = (named \/ publishes)
     /\ LET fields == EntityFields'
        IN
        IF fields # EntityFields
        THEN /\ SendsAnswers([d \in BrokerClient |->
                   IF d \in Others(c)
                   THEN <<[type |-> "Broadcast", of |-> p, fields |-> fields, named |-> TRUE]>>
                   ELSE <<>>])
             /\ waits' = [waits EXCEPT ![p] = Others(c)]
             /\ handling' = handling \cup {p}
        ELSE /\ SendsAnswers(Answered(c, p, fields))
             /\ UNCHANGED <<waits, handling>>
  /\ UNCHANGED <<connected, fieldClientVars>>

HandleAll(c) ==
  /\ c \in connected /\ requests[c] # <<>> /\ Head(requests[c]).type = "All"
  /\ Received(c)
  /\ UNCHANGED <<fieldServerVars, fieldClientVars>>
  /\ SendsAnswers(Answered(c, NoPublication, EntityFields))

HandleAck(c) ==
  /\ c \in connected /\ requests[c] # <<>> /\ Head(requests[c]).type = "Ack"
  /\ Received(c)
  /\ waits' = [waits EXCEPT ![Head(requests[c]).of] = @ \ {c}]
  /\ UNCHANGED <<counts, named, connected, handling, fieldClientVars, answers>>

(* The handler after its await: all acks are there. *)
Reply(p) ==
  /\ p \in handling /\ waits[p] = {}
  /\ handling' = handling \ {p}
  /\ UNCHANGED <<counts, named, connected, waits, fieldClientVars, requests>>
  /\ SendsAnswers(Answered(PublisherOf[p], p, EntityFields))

(* The socket of a dead client closes; what it sent before may be lost.    *)
(* close() neither withdraws its fields nor settles acks waited for.       *)
CloseFields(c) ==
  /\ c \in connected \ living
  /\ connected' = connected \ {c}
  /\ requests' = [requests EXCEPT ![c] = <<>>]
  /\ UNCHANGED <<counts, named, waits, handling, fieldClientVars, answers>>
-----------------------------------------------------------------------------
FieldsClientStep(c) == OnBroadcast(c) \/ OnReply(c) \/ Continue(c)
FieldsServerStep(c) == HandleRequest(c) \/ HandleAll(c) \/ HandleAck(c)

FieldsNext ==
  \/ \E c \in BrokerClient :
       \/ Connect(c) \/ GetEntityFields(c) \/ ClientDies(c) \/ CloseFields(c)
       \/ OnBroadcast(c) \/ OnReply(c) \/ Continue(c)
       \/ HandleRequest(c) \/ HandleAll(c) \/ HandleAck(c)
  \/ \E p \in Publication : PublishEntityFields(p) \/ UnsubscribeEntityFields(p) \/ Reply(p)

(* Messages of a connection that stays arrive and are handled, promises    *)
(* continue. Nobody has to call or to die.                                 *)
FieldsFairness ==
  /\ \A c \in BrokerClient : WF_fieldVars(FieldsClientStep(c)) /\ WF_fieldVars(FieldsServerStep(c))
  /\ \A p \in Publication : WF_fieldVars(Reply(p))

FieldsSpec == FieldsInit /\ [][FieldsNext]_fieldVars

FieldsFairSpec == FieldsSpec /\ FieldsFairness
-----------------------------------------------------------------------------
(* Every variable has its type; no count of clients exceeds the clients. *)
FieldsTypeOK ==
  /\ counts \in [Field -> 0 .. Cardinality(BrokerClient)]
  /\ named \in BOOLEAN
  /\ connected \subseteq BrokerClient /\ living \subseteq BrokerClient /\ overtaken \subseteq BrokerClient
  /\ waits \in [Publication -> SUBSET BrokerClient]
  /\ handling \subseteq Publication
  /\ store \in [BrokerClient -> [Field -> 0 .. Cardinality(Publication)]]
  /\ known \in [BrokerClient -> SUBSET Field]
  /\ loaded \in [BrokerClient -> {"no", "loading", "yes"}]
  /\ progress \in [Publication -> {"new", "publishing", "active", "leaving", "done"}]
  /\ asked \in [Publication -> SUBSET Field]
  /\ \A c \in BrokerClient :
       /\ \A i \in DOMAIN requests[c] : requests[c][i] \in FieldRequest \cup Ack \cup All
       /\ \A i \in DOMAIN answers[c] : answers[c][i] \in FieldAnswer \cup AllAnswer
       /\ \A i \in DOMAIN resolved[c] : resolved[c][i] \in FieldAnswer \cup AllAnswer

(* A queue of requests, seen from one field. *)
Names(queue, i, f) == queue[i].type \in {"Publish", "Unsubscribe"} /\ f \in queue[i].fields

Silent(queue, f) == \A i \in DOMAIN queue : ~Names(queue, i, f)

FirstAsks(queue, type, f) ==
  \E i \in DOMAIN queue :
    Names(queue, i, f) /\ queue[i].type = type /\ \A j \in 1 .. i - 1 : ~Names(queue, j, f)

LastAsks(queue, type, f) ==
  \E i \in DOMAIN queue :
    Names(queue, i, f) /\ queue[i].type = type /\ \A j \in i + 1 .. Len(queue) : ~Names(queue, j, f)

Alternating(queue, f) ==
  \A i, j \in DOMAIN queue :
    i < j /\ Names(queue, i, f) /\ Names(queue, j, f) /\ queue[i].type = queue[j].type =>
      \E k \in i + 1 .. j - 1 : Names(queue, k, f)

(* Whether the server should count c for f: by the client's own interest,  *)
(* unless a request has not arrived, the first of which will change it.    *)
IsCounted(c, f) ==
  \/ FirstAsks(requests[c], "Unsubscribe", f)
  \/ Silent(requests[c], f) /\ store[c][f] > 0

(* The two levels of counting agree: the server counts a field once for    *)
(* every client with a publication of it, however publications of one      *)
(* client overlap and whatever is still on its way; dead clients may only  *)
(* add to it (kernel.ts:182-217, client.ts:196-203, 217-229).              *)
CountsAreClients ==
  \A f \in Field :
    /\ counts[f] >= Cardinality({c \in living : IsCounted(c, f)})
    /\ living = BrokerClient => counts[f] = Cardinality({c \in BrokerClient : IsCounted(c, f)})

(* What a client asks about a field goes to and fro, and ends with what it *)
(* wants by now: no field is published twice or withdrawn twice in a row   *)
(* (client.ts:196-203, 217-229).                                           *)
RequestsAlternate ==
  \A c \in BrokerClient, f \in Field :
    /\ Alternating(requests[c], f)
    /\ c \in living =>
         /\ LastAsks(requests[c], "Publish", f) => store[c][f] > 0
         /\ LastAsks(requests[c], "Unsubscribe", f) => store[c][f] = 0

(* A client that has loaded the fields and has no message or answer of its *)
(* own under way to it knows exactly the server's fields, unless a         *)
(* broadcast came in one chunk with an older answer (client.ts:136, 172,   *)
(* 210, 236).                                                              *)
KnownIsCurrent ==
  \A c \in living :
    \/ loaded[c] # "yes" \/ answers[c] # <<>> \/ resolved[c] # <<>> \/ c \in overtaken
    \/ \E p \in handling : PublisherOf[p] = c
    \/ known[c] = EntityFields

(* From its subscription on until it unsubscribes, a client knows of its   *)
(* own fields, whatever others withdraw and however old an answer or a     *)
(* broadcast is, once the request that carries the field was answered.     *)
OwnFieldsAreKnown ==
  \A p \in Publication : \A f \in FieldsOf[p] :
    \/ progress[p] # "active" \/ PublisherOf[p] \notin living
    \/ \E q \in Publication : PublisherOf[q] = PublisherOf[p] /\ f \in asked[q]
    \/ f \in known[PublisherOf[p]]

(* No request waits for ever, however the waits for acks of several        *)
(* clients cross, unless it waits for the ack of a client that died        *)
(* (kernel.ts:49, 58, 70).                                                 *)
RequestsAreAnswered ==
  \A p \in Publication :
    asked[p] # {} ~> asked[p] = {} \/ PublisherOf[p] \notin living \/ waits[p] \ living # {}

(* All that holds at any moment: the counts of the server are those of its *)
(* clients, and a client knows what the server knows, its own fields first.*)
FieldsAgree ==
  /\ FieldsTypeOK
  /\ CountsAreClients
  /\ RequestsAlternate
  /\ KnownIsCurrent
  /\ OwnFieldsAreKnown
=============================================================================
