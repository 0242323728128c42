--------------------------- MODULE BrokerChannels ---------------------------
(***************************************************************************)
(* Publish and subscribe through the broker: BrokerChannel of              *)
(* broker/src/client.ts, which asks the server for its first and its last  *)
(* subscriber only and fans a message out to its callbacks, over the       *)
(* Subscribe, Unsubscribe and Publish handlers and close() of              *)
(* BrokerConnection (broker/src/kernel.ts).                                *)
(*                                                                         *)
(* One channel, since channels share nothing. A member of Subscriber is    *)
(* one call of subscribe(), its callback and the subscription it returns.  *)
(* Callbacks run inside the fan-out loop and may subscribe and unsubscribe *)
(* there, so the loop is split into its turns. A message is its number in  *)
(* the order of the server.                                                *)
(*                                                                         *)
(* The loop runs under RpcBufferReader.feed of the socket client, and what *)
(* a callback throws leaves through it: what feed had in hand behind the   *)
(* message is kept and all of it handled again with the next data, acks    *)
(* included, whose promises are settled (rpc/src/protocol.ts:504-563). Cuts*)
(* inside of a header are left to the module RpcBufferReader.              *)
(***************************************************************************)
EXTENDS Integers, Sequences, FiniteSets, Arrays

CONSTANTS Client,
          Mortal,     \* clients that may die
          Publisher,  \* clients that publish
          Subscriber,
          OwnerOf,    \* OwnerOf[s]: the client that subscribes
          MaxMessages, \* bound on what is published
          MaxThrows   \* bound on the exceptions of a client's callbacks

ChannelAssumption ==
  /\ IsFiniteSet(Subscriber)
  /\ Mortal \subseteq Client /\ Publisher \subseteq Client
  /\ OwnerOf \in [Subscriber -> Client]
  /\ MaxMessages \in Nat /\ MaxThrows \in Nat

VARIABLES
  connections,   \* open connections of the server
  subscriptions, \* BrokerState.subscriptions of the channel
  subscribed,    \* subscribed[c]: entries of the channel in subscribedChannels
  alive,         \* clients that have not died
  listener,      \* listener[c] of the client's BrokerChannel
  callbacks,     \* callbacks[c] of the client's BrokerChannel
  at,            \* at[c]: next turn of the loop in next(), 0 outside of it
  reading,       \* reading[c]: the item of fromBroker[c] in feed, 0 outside of it
  buffered,      \* buffered[c]: items at the front that feed has or kept
  rest,          \* rest[c]: it has a part of the next one too
  handled,       \* handled[c]: items at the front it kept and has handled once
  status,        \* status[s]: where the subscription is
  toBroker, fromBroker,
  published,     \* observed: how many messages the server has published
  thrown,        \* observed: thrown[c]: exceptions that left feed
  delivered,     \* observed: what the callback of s was called with, and how
                 \* many exceptions there had been (the pass)
  since,         \* observed: the messages published before the server began
                 \* to route to s; Unrouted before
  skipped        \* observed: subscribers the loop left out of a message

serverVars == <<connections, subscriptions, subscribed, published>>
channelVars == <<listener, callbacks, status>>
feedVars == <<reading, buffered, rest, handled>>
loopVars == <<at, feedVars, thrown, delivered>>
brokerChannelVars == <<serverVars, alive, channelVars, loopVars, since, skipped, toBroker, fromBroker>>

Unrouted == -1

ChannelInit ==
  /\ connections = Client
  /\ subscriptions = <<>>
  /\ subscribed = [c \in Client |-> 0]
  /\ alive = Client
  /\ listener = [c \in Client |-> 0]
  /\ callbacks = [c \in Client |-> <<>>]
  /\ at = [c \in Client |-> 0]
  /\ reading = [c \in Client |-> 0]
  /\ buffered = [c \in Client |-> 0]
  /\ rest = [c \in Client |-> FALSE]
  /\ handled = [c \in Client |-> 0]
  /\ thrown = [c \in Client |-> 0]
  /\ status = [s \in Subscriber |-> "new"]
  /\ toBroker = [c \in Client |-> <<>>]
  /\ fromBroker = [c \in Client |-> <<>>]
  /\ published = 0
  /\ delivered = [s \in Subscriber |-> <<>>]
  /\ since = [s \in Subscriber |-> Unrouted]
  /\ skipped = {}

Asked(c, type) == \E i \in DOMAIN toBroker[c] : toBroker[c][i].type = type
Routed(c) == /\ \E i \in DOMAIN subscriptions : subscriptions[i] = c
             /\ ~Asked(c, "Subscribe") /\ ~Asked(c, "Unsubscribe")
-----------------------------------------------------------------------------
(* The client. Its user calls it between two data events and in callbacks. *)
MayCall(c) == c \in alive /\ (reading[c] = 0 \/ at[c] > 1)
Asks(c, request) == toBroker' = [toBroker EXCEPT ![c] = Append(@, request)]

(* Mutant: every subscriber asks the server. *)
SubscribeEach(s) ==
  LET c == OwnerOf[s]
  IN
  /\ MayCall(c) /\ status[s] = "new"
  /\ listener' = [listener EXCEPT ![c] = @ + 1]
  /\ callbacks' = [callbacks EXCEPT ![c] = Append(@, s)]
  /\ Asks(c, [type |-> "Subscribe", of |-> s])
  /\ status' = [status EXCEPT ![s] = "subscribing"]
  /\ UNCHANGED <<serverVars, alive, loopVars, since, skipped, fromBroker>>

(* Only the first subscriber asks the server and waits for its ack. *)
Subscribe(s) ==
  LET c == OwnerOf[s]
  IN
  /\ MayCall(c) /\ status[s] = "new"
  /\ listener' = [listener EXCEPT ![c] = @ + 1]
  /\ callbacks' = [callbacks EXCEPT ![c] = Append(@, s)]
  /\ IF listener[c] = 0
     THEN /\ Asks(c, [type |-> "Subscribe", of |-> s])
          /\ status' = [status EXCEPT ![s] = "subscribing"]
          /\ UNCHANGED since
     ELSE /\ status' = [status EXCEPT ![s] = "active"]
          /\ since' = [since EXCEPT ![s] = IF Routed(c) THEN published ELSE @]
          /\ UNCHANGED toBroker
  /\ UNCHANGED <<serverVars, alive, loopVars, skipped, fromBroker>>

(* The handle is there once the promise of subscribe() resolved. Taking a  *)
(* callback out in front of the loop's next turn moves the one of that     *)
(* turn out of the loop's way.                                             *)
Unsubscribe(s) ==
  LET c == OwnerOf[s]
  IN
  /\ MayCall(c) /\ status[s] = "active"
  /\ listener' = [listener EXCEPT ![c] = @ - 1]
  /\ callbacks' = [callbacks EXCEPT ![c] = arrayRemoveItem(@, s)]
  /\ status' = [status EXCEPT ![s] = "done"]
  /\ skipped' = (skipped \ {s}) \cup
       {callbacks[c][i] : i \in {k \in DOMAIN callbacks[c] : k = at[c] /\ IndexOf(callbacks[c], s) < k}}
  /\ since' = [since EXCEPT ![s] = Unrouted]
  /\ IF listener[c] = 1
     THEN Asks(c, [type |-> "Unsubscribe", of |-> s])
     ELSE UNCHANGED toBroker
  /\ UNCHANGED <<serverVars, alive, loopVars, fromBroker>>

OnTheWay(c, type) == Cardinality({i \in DOMAIN toBroker[c] : toBroker[c][i].type = type})

Publish(c) ==
  /\ c \in Publisher /\ MayCall(c)
  /\ published + OnTheWay(c, "Publish") < MaxMessages
  /\ Asks(c, [type |-> "Publish"])
  /\ UNCHANGED <<serverVars, alive, channelVars, loopVars, since, skipped, fromBroker>>

(* A data event, with a part of a message, a whole one or several: feed    *)
(* begins at the front of what it kept and what came.                      *)
OnData(c) ==
  /\ reading[c] = 0
  /\ buffered[c] = 0 \/ thrown[c] <= MaxThrows
  /\ \E n \in buffered[c] .. Len(fromBroker[c]), more \in BOOLEAN :
       /\ n > 0
       /\ n = buffered[c] => more
       /\ more => n < Len(fromBroker[c])
       /\ buffered' = [buffered EXCEPT ![c] = n]
       /\ rest' = [rest EXCEPT ![c] = more]
  /\ reading' = [reading EXCEPT ![c] = 1]
  /\ UNCHANGED <<serverVars, alive, channelVars, at, handled, thrown, delivered, since, skipped, toBroker, fromBroker>>

Consumed(c) ==
  /\ fromBroker' = [fromBroker EXCEPT ![c] = SubSeq(@, buffered[c] + 1, Len(@))]
  /\ reading' = [reading EXCEPT ![c] = 0]
  /\ buffered' = [buffered EXCEPT ![c] = 0]
  /\ rest' = [rest EXCEPT ![c] = FALSE]
  /\ handled' = [handled EXCEPT ![c] = 0]

(* The message is handled: on to the next one in hand. *)
Proceed(c) ==
  /\ at' = [at EXCEPT ![c] = 0]
  /\ IF reading[c] < buffered[c]
     THEN /\ reading' = [reading EXCEPT ![c] = @ + 1]
          /\ handled' = [handled EXCEPT ![c] = IF @ < reading[c] THEN reading[c] ELSE @]
          /\ UNCHANGED <<buffered, rest, fromBroker>>
     ELSE Consumed(c)

(* feed lets go of its buffer in front of a message only if that is all of *)
(* it.                                                                     *)
LetGo(c) == reading[c] = buffered[c] /\ ~rest[c]
Throws(c) ==
  /\ at' = [at EXCEPT ![c] = 0]
  /\ thrown' = [thrown EXCEPT ![c] = @ + 1]
  /\ IF LetGo(c)
     THEN Consumed(c)
     ELSE /\ reading' = [reading EXCEPT ![c] = 0]
          /\ UNCHANGED <<buffered, rest, handled, fromBroker>>

Handles(c, type) == reading[c] > 0 /\ at[c] = 0 /\ fromBroker[c][reading[c]].type = type

OnAck(c) ==
  /\ Handles(c, "Ack") /\ reading[c] > handled[c]
  /\ status' = [status EXCEPT ![fromBroker[c][reading[c]].of] = "active"]
  /\ Proceed(c)
  /\ UNCHANGED <<serverVars, alive, listener, callbacks, thrown, delivered, since, skipped, toBroker>>

(* The ack of publish() or of unsubscribe(). *)
OnDone(c) ==
  /\ Handles(c, "Done") /\ reading[c] > handled[c]
  /\ Proceed(c)
  /\ UNCHANGED <<serverVars, alive, channelVars, thrown, delivered, since, skipped, toBroker>>

(* An ack that comes a second time has no callback any more: an Error.     *)
StaleAck(c) ==
  /\ Handles(c, "Ack") \/ Handles(c, "Done")
  /\ reading[c] <= handled[c]
  /\ Throws(c)
  /\ UNCHANGED <<serverVars, alive, channelVars, delivered, since, skipped, toBroker>>

OnMessage(c) ==
  /\ Handles(c, "Message")
  /\ at' = [at EXCEPT ![c] = 1]
  /\ UNCHANGED <<serverVars, alive, channelVars, feedVars, thrown, delivered, since, skipped, toBroker, fromBroker>>

Calls(c, s) == delivered' = [delivered EXCEPT ![s] =
                  Append(@, [pass |-> thrown[c], v |-> fromBroker[c][reading[c]].v])]

(* Mutant: the loop ends one callback early. *)
NextCallbackButLast(c) ==
  /\ at[c] > 0
  /\ IF at[c] < Len(callbacks[c])
     THEN /\ Calls(c, callbacks[c][at[c]])
          /\ at' = [at EXCEPT ![c] = @ + 1]
          /\ UNCHANGED <<feedVars, fromBroker>>
     ELSE /\ Proceed(c)
          /\ UNCHANGED delivered
  /\ UNCHANGED <<serverVars, alive, channelVars, thrown, since, skipped, toBroker>>

(* One turn of the loop, which reads the array as it is now. *)
NextCallback(c) ==
  /\ at[c] > 0
  /\ IF at[c] <= Len(callbacks[c])
     THEN /\ Calls(c, callbacks[c][at[c]])
          /\ at' = [at EXCEPT ![c] = @ + 1]
          /\ UNCHANGED <<feedVars, fromBroker>>
     ELSE /\ Proceed(c)
          /\ UNCHANGED delivered
  /\ UNCHANGED <<serverVars, alive, channelVars, thrown, since, skipped, toBroker>>

(* The callback of the last turn throws, which ends the loop and feed: for *)
(* those behind it the message is lost unless feed kept it.                *)
CallbackThrows(c) ==
  /\ at[c] > 1 /\ thrown[c] < MaxThrows
  /\ Throws(c)
  /\ skipped' = skipped \cup {callbacks[c][i] : i \in {k \in DOMAIN callbacks[c] : LetGo(c) /\ k >= at[c]}}
  /\ UNCHANGED <<serverVars, alive, channelVars, delivered, since, toBroker>>

Die(c) ==
  /\ c \in alive \cap Mortal
  /\ alive' = alive \ {c}
  /\ at' = [at EXCEPT ![c] = 0]
  /\ reading' = [reading EXCEPT ![c] = 0]
  /\ buffered' = [buffered EXCEPT ![c] = 0]
  /\ rest' = [rest EXCEPT ![c] = FALSE]
  /\ handled' = [handled EXCEPT ![c] = 0]
  /\ listener' = [listener EXCEPT ![c] = 0]
  /\ callbacks' = [callbacks EXCEPT ![c] = <<>>]
  /\ fromBroker' = [fromBroker EXCEPT ![c] = <<>>]
  /\ UNCHANGED <<serverVars, status, thrown, delivered, since, skipped, toBroker>>
-----------------------------------------------------------------------------
(* The server. *)
Next1(c, type) ==
  /\ c \in connections /\ toBroker[c] # <<>> /\ Head(toBroker[c]).type = type
  /\ toBroker' = [toBroker EXCEPT ![c] = Tail(@)]

(* What is written to a client that is gone is lost. *)
Sent(c, answers) == IF c \in alive THEN fromBroker[c] \o answers ELSE fromBroker[c]

HandleSubscribe(c) ==
  /\ Next1(c, "Subscribe")
  /\ subscriptions' = Append(subscriptions, c)
  /\ subscribed' = [subscribed EXCEPT ![c] = @ + 1]
  /\ fromBroker' = [fromBroker EXCEPT ![c] = Sent(c, <<[type |-> "Ack", of |-> Head(toBroker[c]).of]>>)]
  /\ since' = [s \in Subscriber |-> IF \E i \in DOMAIN callbacks[c] : callbacks[c][i] = s THEN published ELSE since[s]]
  /\ UNCHANGED <<connections, published, alive, channelVars, loopVars, skipped>>

HandleUnsubscribe(c) ==
  /\ Next1(c, "Unsubscribe")
  /\ subscriptions' = arrayRemoveItem(subscriptions, c)
  /\ subscribed' = [subscribed EXCEPT ![c] = IF @ > 0 THEN @ - 1 ELSE 0]
  /\ fromBroker' = [fromBroker EXCEPT ![c] = Sent(c, <<[type |-> "Done"]>>)]
  /\ UNCHANGED <<connections, published, alive, channelVars, loopVars, since, skipped>>

(* How often the server has client c in its list of the channel. *)
Routes(c) == Cardinality({i \in DOMAIN subscriptions : subscriptions[i] = c})

(* The publisher gets its ack behind the message. *)
HandlePublish(c) ==
  /\ Next1(c, "Publish")
  /\ published' = published + 1
  /\ fromBroker' = [d \in Client |->
       Sent(d, [i \in 1 .. Routes(d) |-> [type |-> "Message", v |-> published']]
                 \o (IF d = c THEN <<[type |-> "Done"]>> ELSE <<>>))]
  /\ UNCHANGED <<connections, subscriptions, subscribed, alive, channelVars, loopVars, since, skipped>>

(* close(): what the dead client sent last may be lost. *)
CloseChannels(c) ==
  /\ c \in connections \ alive
  /\ connections' = connections \ {c}
  /\ subscriptions' = IF subscribed[c] > 0 THEN arrayRemoveItem(subscriptions, c) ELSE subscriptions
  /\ toBroker' = [toBroker EXCEPT ![c] = <<>>]
  /\ UNCHANGED <<subscribed, published, alive, channelVars, loopVars, since, skipped, fromBroker>>
-----------------------------------------------------------------------------
ClientStep(c) == OnData(c) \/ OnAck(c) \/ OnDone(c) \/ StaleAck(c) \/ OnMessage(c) \/ NextCallback(c)
ServerStep(c) == HandleSubscribe(c) \/ HandleUnsubscribe(c) \/ HandlePublish(c)

ChannelNext ==
  \/ \E s \in Subscriber : Subscribe(s) \/ Unsubscribe(s)
  \/ \E c \in Client : \/ Publish(c)
                       \/ OnData(c) \/ OnAck(c) \/ OnDone(c) \/ StaleAck(c)
                       \/ OnMessage(c) \/ NextCallback(c) \/ CallbackThrows(c)
                       \/ HandleSubscribe(c) \/ HandleUnsubscribe(c) \/ HandlePublish(c)
                       \/ Die(c) \/ CloseChannels(c)

(* Messages arrive and are handled, loops go on. *)
ChannelFairness == \A c \in Client : WF_brokerChannelVars(ClientStep(c)) /\ WF_brokerChannelVars(ServerStep(c))

ChannelSpec == ChannelInit /\ [][ChannelNext]_brokerChannelVars /\ ChannelFairness
-----------------------------------------------------------------------------
(* Every variable has its type. *)
ChannelTypeOK ==
  /\ connections \subseteq Client /\ alive \subseteq Client
  /\ subscriptions \in Seq(Client)
  /\ subscribed \in [Client -> 0 .. 1]
  /\ listener \in [Client -> 0 .. Cardinality(Subscriber)]
  /\ callbacks \in [Client -> Seq(Subscriber)]
  /\ at \in [Client -> 0 .. Cardinality(Subscriber) + 1]
  /\ reading \in [Client -> Nat] /\ buffered \in [Client -> Nat]
  /\ rest \in [Client -> BOOLEAN] /\ handled \in [Client -> Nat]
  /\ thrown \in [Client -> Nat]
  /\ status \in [Subscriber -> {"new", "subscribing", "active", "done"}]
  /\ published \in Nat
  /\ delivered \in [Subscriber -> Seq([pass : Nat, v : 1 .. published])]
  /\ since \in [Subscriber -> Unrouted .. published]
  /\ skipped \subseteq Subscriber

(* The server has a connection in its list of the channel once, and only   *)
(* while the client has a callback, counting the requests on their way; a  *)
(* closed connection is in no list, whatever it asked for before it closed *)
(* (kernel.ts:31-33, 124-137, client.ts:71-85).                            *)
RoutesAreListeners ==
  /\ \A c \in alive :
       Routes(c) + OnTheWay(c, "Subscribe")
         = (IF listener[c] > 0 THEN 1 ELSE 0) + OnTheWay(c, "Unsubscribe")
  /\ \A i \in DOMAIN subscriptions : subscriptions[i] \in connections

(* A callback is called with each message in the order of the server, and  *)
(* with the same one again only behind an exception that left feed, which  *)
(* kept the message (kernel.ts:254, client.ts:59-63, protocol.ts:544-549). *)
DeliversInOrder ==
  \A s \in Subscriber : \A i, j \in DOMAIN delivered[s] :
    i < j => \/ delivered[s][i].pass < delivered[s][j].pass
             \/ /\ delivered[s][i].pass = delivered[s][j].pass
                /\ delivered[s][i].v < delivered[s][j].v

Got(s) == {delivered[s][i].v : i \in DOMAIN delivered[s]}

(* What is on its way to the callback of s: the message of a loop that has *)
(* not come to it, and the messages its client has not handled or handles  *)
(* again.                                                                  *)
Looping(s) ==
  LET c == OwnerOf[s]
  IN at[c] > 0 /\ \E k \in DOMAIN callbacks[c] : k >= at[c] /\ callbacks[c][k] = s
Ahead(s, k) ==
  LET c == OwnerOf[s]
  IN /\ fromBroker[c][k].type = "Message"
     /\ k > reading[c] \/ (k = reading[c] /\ (at[c] = 0 \/ Looping(s)))
Coming(s) ==
  LET items == fromBroker[OwnerOf[s]]
  IN {items[k].v : k \in {i \in DOMAIN items : Ahead(s, i)}}

(* From the moment the server has the route until the subscription ends,   *)
(* no message passes a subscriber by: with other subscribers of the client *)
(* coming and going, in callbacks too, with a route taken down and set up  *)
(* again, and with exceptions that leave feed. The exceptions are those    *)
(* behind a callback that throws at the end of the data, or that takes an  *)
(* earlier one out of the array (client.ts:59-63, 71-87).                  *)
MissesNothing ==
  \A s \in Subscriber :
    \/ OwnerOf[s] \notin alive \/ s \in skipped \/ status[s] = "done" \/ since[s] = Unrouted
    \/ since[s] + 1 .. published \subseteq Got(s) \cup Coming(s)

(* What feed kept when a callback threw waits for the next data; behind an *)
(* ack that throws whenever it is handled again it waits for ever.         *)
HeldBack(c, m) ==
  LET spent == \E k \in 1 .. handled[c] : fromBroker[c][k].type # "Message"
  IN /\ reading[c] = 0 /\ buffered[c] > 0
     /\ \E k \in DOMAIN fromBroker[c] : /\ k <= buffered[c] \/ spent
                                        /\ fromBroker[c][k].type = "Message"
                                        /\ fromBroker[c][k].v = m

(* A message published on the route of a subscriber reaches its callback,  *)
(* with the same exceptions and but for what feed holds back (client.ts:   *)
(* 59-63, protocol.ts:544-549).                                            *)
PublishedArrives ==
  \A s \in Subscriber, m \in 1 .. MaxMessages :
    since[s] # Unrouted /\ since[s] < m /\ m <= published
      ~> \/ m \in Got(s) \/ HeldBack(OwnerOf[s], m)
         \/ status[s] = "done" \/ s \in skipped \/ OwnerOf[s] \notin alive

(* All that holds at any moment: routes follow the listeners, and what is  *)
(* published comes to each of them, in order and again only behind an      *)
(* exception (client.ts:59-87, kernel.ts:124-143, protocol.ts:534-563).    *)
ChannelSafety ==
  /\ ChannelTypeOK
  /\ RoutesAreListeners
  /\ DeliversInOrder
  /\ MissesNothing
=============================================================================
