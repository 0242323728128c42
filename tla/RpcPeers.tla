------------------------------- MODULE RpcPeers -------------------------------
(***************************************************************************)
(* Peers of an RPC server: a client registers a name with the kernel       *)
(* (rpc/src/server/kernel.ts), others call it by that name, the kernel     *)
(* redirects calls to the writer registered under the name and answers to  *)
(* the connection they came from (RpcPeerExchange, RpcClient). Handlers of *)
(* the kernel await the security before they go on; connections close and  *)
(* clients come back on new ones.                                          *)
(***************************************************************************)
EXTENDS Naturals, Sequences, SequencesExt, FiniteSets

CONSTANTS Client, Name, Nobody,
    MaxCalls, MaxConnections, MaxRegistrations \* bounds

ASSUME PeersAssumption ==
    /\ Nobody \notin Client \cup Name
    /\ MaxCalls \in Nat /\ MaxConnections \in Nat /\ MaxRegistrations \in Nat

VARIABLES
    current,    \* current[k]: number of the connection of k, connections are numbered from 1
    connections, \* connections made
    open,       \* connections that are open
    toServer, toClient, \* messages on the way, per connection
    exchange,   \* registeredPeers: connection registered under a name, 0 if none
    myPeerId,   \* myPeerId of a connection at the kernel
    handlers,   \* handlers of the kernel that wait for the security
    registered, \* registered[k]: registeredAsPeer
    asked,      \* asked[k]: the registration or deregistration under way, and its name
    calls,      \* calls[i]: who called which name, and what became of it
    registrations,
    contested   \* names for which two registrations were handled at once

wires == <<toServer, toClient>>
kernel == <<exchange, myPeerId, handlers, contested>>
client == <<registered, asked, calls, registrations>>
vars == <<current, connections, open, wires, kernel, client>>

Connection == 1..MaxConnections
None == [op |-> "none", name |-> Nobody]
Owner(c) == CHOOSE k \in Client : current[k] = c

Sent(queues, c, message) == IF c \in open THEN [queues EXCEPT ![c] = Append(@, message)] ELSE queues
-----------------------------------------------------------------------------
Connect(k) ==
    /\ current[k] = 0
    /\ connections < MaxConnections
    /\ connections' = connections + 1
    /\ current' = [current EXCEPT ![k] = connections']
    /\ open' = open \cup {connections'}
    /\ UNCHANGED <<wires, kernel, client>>

(* A closed connection stays registered, under its id and its name.        *)
Disconnect(k) ==
    /\ current[k] # 0
    /\ open' = open \ {current[k]}
    /\ toServer' = [toServer EXCEPT ![current[k]] = <<>>]
    /\ toClient' = [toClient EXCEPT ![current[k]] = <<>>]
    /\ current' = [current EXCEPT ![k] = 0]
    /\ handlers' = {h \in handlers : h.from # current[k] \/ h.message.type = "register"}
    /\ asked' = [asked EXCEPT ![k] = None]
    /\ calls' = [i \in DOMAIN calls |->
         IF calls[i].state = "waiting" /\ (calls[i].by = k \/ calls[i].at = k)
         THEN [calls[i] EXCEPT !.state = "lost"] ELSE calls[i]]
    /\ UNCHANGED <<connections, exchange, myPeerId, registered, registrations, contested>>

(* registerAsPeer() and deregister(), one at a time for a client.          *)
Ask(k, op, name) ==
    /\ current[k] # 0 /\ asked[k] = None
    /\ IF op = "register" THEN registered[k] = Nobody /\ registrations < MaxRegistrations
                          ELSE registered[k] = name
    /\ registrations' = IF op = "register" THEN registrations + 1 ELSE registrations
    /\ asked' = [asked EXCEPT ![k] = [op |-> op, name |-> name]]
    /\ toServer' = Sent(toServer, current[k], [type |-> op, name |-> name])
    /\ UNCHANGED <<current, connections, open, toClient, kernel, registered, calls>>

(* A call of a peer. One of a client's own name would be answered by the   *)
(* server's controllers and is left out.                                   *)
CallPeer(k, name) ==
    /\ current[k] # 0 /\ Len(calls) < MaxCalls
    /\ registered[k] # name /\ asked[k].name # name /\ myPeerId[current[k]] # name
    /\ calls' = Append(calls, [by |-> k, name |-> name, state |-> "waiting", at |-> Nobody])
    /\ toServer' = Sent(toServer, current[k],
                        [type |-> "call", name |-> name, call |-> Len(calls) + 1, source |-> current[k]])
    /\ UNCHANGED <<current, connections, open, toClient, kernel, registered, asked, registrations>>
-----------------------------------------------------------------------------
(* RpcKernelConnection.onMessage() up to the await. *)
Handled(h) == handlers' = handlers \cup {h}

Registering(name) == {h \in handlers : h.message.type = "register" /\ h.message.name = name}

(* registerAsPeer(): a taken name is refused. *)
(* Mutant: a name that is taken is not refused. *)
RegisterAnyway(c, m) ==
    /\ Handled([from |-> c, message |-> m])
    /\ UNCHANGED <<toClient, exchange, myPeerId, contested>>
Register(c, m) ==
    IF exchange[m.name] # 0
    THEN /\ toClient' = Sent(toClient, c, [type |-> "error"])
         /\ UNCHANGED <<handlers, exchange, myPeerId, contested>>
    ELSE /\ Handled([from |-> c, message |-> m])
         /\ contested' = IF Registering(m.name) = {} THEN contested ELSE contested \cup {m.name}
         /\ UNCHANGED <<toClient, exchange, myPeerId>>

(* deregisterAsPeer() *)
Deregister(c, m) ==
    /\ IF myPeerId[c] # m.name
       THEN toClient' = Sent(toClient, c, [type |-> "error"]) /\ UNCHANGED <<exchange, myPeerId>>
       ELSE /\ myPeerId' = [myPeerId EXCEPT ![c] = Nobody]
            /\ exchange' = [exchange EXCEPT ![m.name] = 0]
            /\ toClient' = Sent(toClient, c, [type |-> "ack"])
    /\ UNCHANGED <<handlers, contested>>

Became(i, state) == calls' = [calls EXCEPT ![i].state = IF @ = "waiting" THEN state ELSE @]

(* RpcPeerExchange.redirect(): nothing happens for an unknown name or a    *)
(* closed destination.                                                     *)
RedirectCall(m) ==
    /\ toClient' = IF exchange[m.name] = 0 THEN toClient ELSE Sent(toClient, exchange[m.name], m)
    /\ IF exchange[m.name] \in open
       THEN calls' = [calls EXCEPT ![m.call].at = Owner(exchange[m.name])]
       ELSE Became(m.call, "dropped")
(* Mutant: the id of the client that called is not looked up. *)
RedirectNothing(m) == UNCHANGED toClient
RedirectAnswer(m) == toClient' = Sent(toClient, m.destination, [type |-> "answer", call |-> m.call])

KernelReceives(c) ==
    /\ c \in open /\ toServer[c] # <<>>
    /\ toServer' = [toServer EXCEPT ![c] = Tail(@)]
    /\ LET m == Head(toServer[c]) IN
       \/ m.type = "register" /\ Register(c, m)
       \/ m.type = "deregister" /\ Deregister(c, m)
       \/ m.type = "call" /\ Handled([from |-> c, message |-> m])
                          /\ UNCHANGED <<toClient, exchange, myPeerId, contested>>
       \/ m.type = "answer" /\ RedirectAnswer(m) /\ UNCHANGED kernel
    /\ UNCHANGED <<current, connections, open, client>>

(* ... and from there on. The connection may be closed by now.             *)
SecurityAnswers(h, allowed) ==
    LET m == h.message IN
    /\ handlers' = handlers \ {h}
    /\ IF ~allowed
       THEN /\ toClient' = Sent(toClient, h.from, [type |-> IF m.type = "call" THEN "denied" ELSE "error",
                                                  call |-> IF m.type = "call" THEN m.call ELSE 0])
            /\ UNCHANGED <<exchange, myPeerId, calls>>
       ELSE IF m.type = "call" THEN RedirectCall(m) /\ UNCHANGED <<exchange, myPeerId>>
       ELSE /\ exchange' = [exchange EXCEPT ![m.name] = h.from]
            /\ myPeerId' = [myPeerId EXCEPT ![h.from] = m.name]
            /\ toClient' = Sent(toClient, h.from, [type |-> "ack"])
            /\ UNCHANGED calls
    /\ UNCHANGED <<current, connections, open, toServer, registered, asked, registrations, contested>>
-----------------------------------------------------------------------------
(* RpcClient.onMessage(). A call that comes while the ack of the           *)
(* registration waits for its continuation finds no name, and is dropped.  *)
ClientReceives(k) ==
    /\ current[k] # 0 /\ toClient[current[k]] # <<>>
    /\ LET c == current[k]
           m == Head(toClient[c])
       IN /\ toClient' = [toClient EXCEPT ![c] = Tail(@)]
          /\ \/ /\ m.type = "ack"
                /\ asked' = [asked EXCEPT ![k].op = IF @ = "register" THEN "registered" ELSE "deregistered"]
                /\ UNCHANGED <<calls, toServer>>
             \/ /\ m.type = "error"
                /\ asked' = [asked EXCEPT ![k] = None]
                /\ UNCHANGED <<calls, toServer>>
             \/ /\ m.type = "call"
                /\ IF registered[k] = m.name
                   THEN /\ toServer' = Sent(toServer, c, [type |-> "answer", call |-> m.call, destination |-> m.source])
                        /\ UNCHANGED calls
                   ELSE Became(m.call, "dropped") /\ UNCHANGED toServer
                /\ UNCHANGED asked
             \/ /\ m.type \in {"answer", "denied"}
                /\ Became(m.call, m.type)
                /\ UNCHANGED <<asked, toServer>>
    /\ UNCHANGED <<current, connections, open, kernel, registered, registrations>>

(* The code after the await of registerAsPeer() and deregister().          *)
Continue(k) ==
    /\ asked[k].op \in {"registered", "deregistered"}
    /\ registered' = [registered EXCEPT ![k] = IF asked[k].op = "registered" THEN asked[k].name ELSE Nobody]
    /\ asked' = [asked EXCEPT ![k] = None]
    /\ UNCHANGED <<current, connections, open, wires, kernel, calls, registrations>>

Init ==
    /\ current = [k \in Client |-> 0] /\ connections = 0 /\ open = {}
    /\ toServer = [c \in Connection |-> <<>>] /\ toClient = [c \in Connection |-> <<>>]
    /\ exchange = [n \in Name |-> 0] /\ myPeerId = [c \in Connection |-> Nobody]
    /\ handlers = {} /\ contested = {}
    /\ registered = [k \in Client |-> Nobody] /\ asked = [k \in Client |-> None]
    /\ calls = <<>> /\ registrations = 0

Next ==
    \/ \E k \in Client : \/ Connect(k) \/ Disconnect(k) \/ ClientReceives(k) \/ Continue(k)
                         \/ \E n \in Name : CallPeer(k, n) \/ \E op \in {"register", "deregister"} : Ask(k, op, n)
    \/ \E c \in Connection : KernelReceives(c)
    \/ \E h \in handlers, allowed \in BOOLEAN : SecurityAnswers(h, allowed)

Fairness ==
    /\ \A c \in Connection : WF_vars(KernelReceives(c))
    /\ \A k \in Client : WF_vars(ClientReceives(k)) /\ WF_vars(Continue(k))
    /\ WF_vars(\E h \in handlers, allowed \in BOOLEAN : SecurityAnswers(h, allowed))

Spec == Init /\ [][Next]_vars /\ Fairness
-----------------------------------------------------------------------------
CallMessage == [type : {"call"}, name : Name, call : Nat, source : Connection]
ToServer ==
    [type : {"register", "deregister"}, name : Name] \cup CallMessage
    \cup [type : {"answer"}, call : Nat, destination : Connection]
ToClient ==
    [type : {"ack", "error"}] \cup CallMessage
    \cup [type : {"answer", "denied", "error"}, call : Nat]
Handler == [from : Connection, message : {m \in ToServer : m.type \in {"register", "call"}}]
AskedState == {"none", "register", "registered", "deregister", "deregistered"}
CallState == [by : Client, name : Name, state : {"waiting", "answer", "denied", "dropped", "lost"},
              at : Client \cup {Nobody}]

TypeOK ==
    /\ connections \in 0..MaxConnections /\ open \subseteq 1..connections
    /\ current \in [Client -> 0..connections]
    /\ toServer \in [Connection -> Seq(ToServer)] /\ toClient \in [Connection -> Seq(ToClient)]
    /\ exchange \in [Name -> 0..MaxConnections]
    /\ myPeerId \in [Connection -> Name \cup {Nobody}]
    /\ handlers \subseteq Handler /\ contested \subseteq Name
    /\ registered \in [Client -> Name \cup {Nobody}]
    /\ asked \in [Client -> [op : AskedState, name : Name \cup {Nobody}]]
    /\ calls \in Seq(CallState) /\ registrations \in Nat

(***************************************************************************)
(* Who believes to be registered under a name, and is still on the         *)
(* connection on which it registered, is who gets the calls for it, unless *)
(* it is taking it back or two registrations of the name overlapped.       *)
(***************************************************************************)
NameIsReachable ==
    \A k \in Client, n \in Name \ contested :
      registered[k] = n /\ asked[k].op # "deregister" /\ asked[k].op # "deregistered"
        /\ current[k] # 0 /\ myPeerId[current[k]] = n
        => exchange[n] = current[k]

(***************************************************************************)
(* A call is answered or refused, lost with one of its connections, or     *)
(* dropped since nobody was there under the name at the moment.            *)
(***************************************************************************)
Waiting(i) == i \in DOMAIN calls /\ calls[i].state = "waiting"
CallsSettle == \A i \in 1..MaxCalls : [](Waiting(i) => <>~Waiting(i))
=============================================================================
