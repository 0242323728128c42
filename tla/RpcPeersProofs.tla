---------------------------- MODULE RpcPeersProofs ----------------------------
(***************************************************************************)
(* The kernel's two records of a peer - the exchange, from a name to a     *)
(* connection, and the id a connection keeps of itself - agree, for every  *)
(* number of clients, names, connections and calls.                        *)
(***************************************************************************)
EXTENDS RpcPeers, SequenceTheorems, TLAPS

(* Every open connection is that of a client, for a redirected call has to *)
(* be somebody's.                                                          *)
Owned == \A c \in open : \E k \in Client : current[k] = c

(* A connection that keeps a name is the one the exchange has under it.    *)
KeepsTheName(n) == \A c \in Connection : myPeerId[c] = n => exchange[n] = c

(* While a registration waits for the security the name is free, and there *)
(* is no other one.                                                        *)
OneRegistration(n) ==
    /\ Registering(n) # {} => exchange[n] = 0
    /\ \A g, h \in Registering(n) : g = h

PeersInv ==
    /\ TypeOK
    /\ Owned
    /\ \A n \in Name \ contested : KeepsTheName(n) /\ OneRegistration(n)
-----------------------------------------------------------------------------
(* The messages of a queue, with one more or without the first.            *)
LEMMA Queues ==
    ASSUME NEW M, NEW q \in [Connection -> Seq(M)]
    PROVE  /\ \A c \in Connection, m \in M : Sent(q, c, m) \in [Connection -> Seq(M)]
           /\ \A c \in Connection : q[c] # <<>> =>
                Head(q[c]) \in M /\ [q EXCEPT ![c] = Tail(@)] \in [Connection -> Seq(M)]
<1>1. \A c \in Connection, m \in M : Sent(q, c, m) \in [Connection -> Seq(M)]
    <2>. TAKE c \in Connection, m \in M
    <2>1. Append(q[c], m) \in Seq(M)
        OBVIOUS
    <2>. QED BY <2>1 DEF Sent
<1>2. ASSUME NEW c \in Connection, q[c] # <<>>
      PROVE  Head(q[c]) \in M /\ [q EXCEPT ![c] = Tail(@)] \in [Connection -> Seq(M)]
    <2>1. q[c] \in Seq(M)
        OBVIOUS
    <2>2. Head(q[c]) \in M /\ Tail(q[c]) \in Seq(M)
        BY <1>2, <2>1
    <2>. QED BY <2>2
<1>. QED BY <1>1, <1>2

LEMMA ClientQueues ==
    ASSUME TypeOK
    PROVE  \A c \in Connection, m \in ToClient : Sent(toClient, c, m) \in [Connection -> Seq(ToClient)]
<1>1. toClient \in [Connection -> Seq(ToClient)]
    BY DEF TypeOK
<1>. QED BY <1>1, Queues

(* A call may change what became of it and whose it is, nothing else.      *)
LEMMA CallsStay ==
    ASSUME TypeOK, NEW f \in [DOMAIN calls -> CallState]
    PROVE  f \in Seq(CallState)
<1>1. calls \in Seq(CallState)
    BY DEF TypeOK
<1>2. DOMAIN calls = 1..Len(calls) /\ Len(calls) \in Nat
    BY <1>1
<1>. QED BY <1>2, SeqDef

LEMMA CallsTyped == TypeOK => \A i \in DOMAIN calls : calls[i] \in CallState
<1>1. TypeOK => calls \in Seq(CallState)
    BY DEF TypeOK
<1>. QED BY <1>1

LEMMA BecameKeeps ==
    ASSUME TypeOK, NEW i, NEW state \in {"answer", "denied", "dropped"}, Became(i, state)
    PROVE  calls' \in Seq(CallState)
<1>1. calls' \in [DOMAIN calls -> CallState]
    BY CallsTyped DEF Became, CallState
<1>. QED BY <1>1, CallsStay
-----------------------------------------------------------------------------
LEMMA PeersStart == Init => PeersInv
<1>. SUFFICES ASSUME Init PROVE PeersInv
    OBVIOUS
<1>1. TypeOK
    BY PeersAssumption DEF Init, TypeOK, Connection, None, AskedState
<1>2. Owned
    BY DEF Init, Owned
<1>3. \A n \in Name : KeepsTheName(n) /\ OneRegistration(n)
    BY PeersAssumption DEF Init, KeepsTheName, OneRegistration, Registering
<1>. QED BY <1>1, <1>2, <1>3 DEF PeersInv

(* What the invariant says of names looks at the kernel only.              *)
LEMMA NamesStay ==
    ASSUME PeersInv, handlers' \subseteq handlers, UNCHANGED <<exchange, myPeerId, contested>>
    PROVE  (\A n \in Name \ contested : KeepsTheName(n) /\ OneRegistration(n))'
BY DEF PeersInv, KeepsTheName, OneRegistration, Registering

LEMMA OwnersStay ==
    ASSUME PeersInv, UNCHANGED <<current, open>>
    PROVE  Owned'
BY DEF PeersInv, Owned

LEMMA ConnectKeeps == ASSUME PeersInv, NEW k \in Client, Connect(k) PROVE PeersInv'
<1>1. TypeOK'
    <2>1. connections' \in 0..MaxConnections /\ open' \subseteq 1..connections'
        BY PeersAssumption DEF PeersInv, TypeOK, Connect
    <2>2. current' \in [Client -> 0..connections']
        BY PeersAssumption DEF PeersInv, TypeOK, Connect
    <2>. QED BY <2>1, <2>2 DEF PeersInv, TypeOK, Connect, wires, kernel, client
<1>2. Owned'
    <2>. SUFFICES ASSUME NEW c \in open' PROVE \E j \in Client : current'[j] = c
        BY DEF Owned
    <2>1. CASE c = connections'
        BY <2>1 DEF PeersInv, TypeOK, Connect
    <2>2. CASE c \in open
        <3>1. PICK j \in Client : current[j] = c
            BY <2>2 DEF PeersInv, Owned
        <3>2. c # 0
            BY <2>2 DEF PeersInv, TypeOK
        <3>. QED BY <3>1, <3>2 DEF PeersInv, TypeOK, Connect
    <2>. QED BY <2>1, <2>2 DEF Connect
<1>3. (\A n \in Name \ contested : KeepsTheName(n) /\ OneRegistration(n))'
    BY NamesStay DEF Connect, kernel
<1>. QED BY <1>1, <1>2, <1>3 DEF PeersInv

LEMMA DisconnectKeeps == ASSUME PeersInv, NEW k \in Client, Disconnect(k) PROVE PeersInv'
<1>1. current[k] \in Connection
    BY PeersAssumption DEF PeersInv, TypeOK, Disconnect, Connection
<1>2. calls' \in Seq(CallState)
    <2>1. calls' \in [DOMAIN calls -> CallState]
        BY CallsTyped DEF PeersInv, Disconnect, CallState
    <2>. QED BY <2>1, CallsStay DEF PeersInv
<1>3. toServer' \in [Connection -> Seq(ToServer)] /\ toClient' \in [Connection -> Seq(ToClient)]
    <2>1. \A M : <<>> \in Seq(M)
        OBVIOUS
    <2>2. <<>> \in Seq(ToServer) /\ <<>> \in Seq(ToClient)
        BY <2>1
    <2>. QED BY <2>2 DEF PeersInv, TypeOK, Disconnect
<1>4. TypeOK'
    BY <1>2, <1>3 DEF PeersInv, TypeOK, Disconnect, None, AskedState
<1>5. Owned'
    BY DEF PeersInv, Owned, TypeOK, Disconnect
<1>6. (\A n \in Name \ contested : KeepsTheName(n) /\ OneRegistration(n))'
    BY NamesStay DEF Disconnect
<1>. QED BY <1>4, <1>5, <1>6 DEF PeersInv

LEMMA AskKeeps ==
    ASSUME PeersInv, NEW k \in Client, NEW n \in Name, NEW op \in {"register", "deregister"}, Ask(k, op, n)
    PROVE  PeersInv'
<1>1. current[k] \in Connection
    BY PeersAssumption DEF PeersInv, TypeOK, Ask, Connection
<1>2. [type |-> op, name |-> n] \in ToServer
    BY DEF ToServer
<1>3. toServer' \in [Connection -> Seq(ToServer)]
    BY <1>1, <1>2, Queues DEF PeersInv, TypeOK, Ask
<1>4. asked' \in [Client -> [op : AskedState, name : Name \cup {Nobody}]]
    BY DEF PeersInv, TypeOK, Ask, AskedState
<1>5. TypeOK'
    BY <1>3, <1>4 DEF PeersInv, TypeOK, Ask, kernel
<1>6. (\A i \in Name \ contested : KeepsTheName(i) /\ OneRegistration(i))' /\ Owned'
    BY NamesStay, OwnersStay DEF Ask, kernel
<1>. QED BY <1>5, <1>6 DEF PeersInv

LEMMA CallKeeps ==
    ASSUME PeersInv, NEW k \in Client, NEW n \in Name, CallPeer(k, n)
    PROVE  PeersInv'
<1>1. current[k] \in Connection
    BY PeersAssumption DEF PeersInv, TypeOK, CallPeer, Connection
<1>2. [type |-> "call", name |-> n, call |-> Len(calls) + 1, source |-> current[k]] \in ToServer
    BY <1>1 DEF PeersInv, TypeOK, ToServer, CallMessage
<1>3. toServer' \in [Connection -> Seq(ToServer)]
    BY <1>1, <1>2, Queues DEF PeersInv, TypeOK, CallPeer
<1>4. calls' \in Seq(CallState)
    BY DEF PeersInv, TypeOK, CallPeer, CallState
<1>5. TypeOK'
    BY <1>3, <1>4 DEF PeersInv, TypeOK, CallPeer, kernel
<1>6. (\A i \in Name \ contested : KeepsTheName(i) /\ OneRegistration(i))' /\ Owned'
    BY NamesStay, OwnersStay DEF CallPeer, kernel
<1>. QED BY <1>5, <1>6 DEF PeersInv

LEMMA ContinueKeeps == ASSUME PeersInv, NEW k \in Client, Continue(k) PROVE PeersInv'
<1>1. TypeOK'
    BY DEF PeersInv, TypeOK, Continue, wires, kernel, None, AskedState
<1>2. (\A i \in Name \ contested : KeepsTheName(i) /\ OneRegistration(i))' /\ Owned'
    BY NamesStay, OwnersStay DEF Continue, kernel
<1>. QED BY <1>1, <1>2 DEF PeersInv
-----------------------------------------------------------------------------
(* registerAsPeer() up to the await: one that waits already makes the name *)
(* contested, and the invariant says no more of it.                        *)
LEMMA RegisterKeeps ==
    ASSUME PeersInv, NEW c \in Connection, NEW m \in ToServer, m.type = "register", Register(c, m)
    PROVE  /\ toClient' \in [Connection -> Seq(ToClient)]
           /\ handlers' \subseteq Handler /\ contested' \subseteq Name
           /\ (\A n \in Name \ contested : KeepsTheName(n) /\ OneRegistration(n))'
<1>1. m.name \in Name
    BY DEF ToServer, CallMessage
<1>2. CASE exchange[m.name] # 0
    <2>1. [type |-> "error"] \in ToClient
        BY DEF ToClient
    <2>2. toClient' \in [Connection -> Seq(ToClient)]
        BY <1>2, <2>1, ClientQueues DEF PeersInv, Register
    <2>. QED BY <1>2, <2>2, NamesStay DEF PeersInv, TypeOK, Register
<1>3. CASE exchange[m.name] = 0
    <2>. DEFINE h == [from |-> c, message |-> m]
    <2>1. h \in Handler
        BY DEF Handler
    <2>2. /\ handlers' = handlers \cup {h} /\ UNCHANGED <<toClient, exchange, myPeerId>>
          /\ contested' = IF Registering(m.name) = {} THEN contested ELSE contested \cup {m.name}
        BY <1>3 DEF Register, Handled
    <2>3. h.message.type = "register" /\ h.message.name = m.name
        OBVIOUS
    <2>. HIDE DEF h
    <2>4. \A n \in Name : Registering(n)' = IF n = m.name THEN Registering(n) \cup {h} ELSE Registering(n)
        BY <2>2, <2>3 DEF Registering
    <2>5. ASSUME NEW n \in Name \ contested' PROVE KeepsTheName(n)' /\ OneRegistration(n)'
        <3>1. n \notin contested /\ (n = m.name => Registering(n) = {})
            BY <2>2, <2>5
        <3>2. KeepsTheName(n) /\ OneRegistration(n)
            BY <2>5, <3>1 DEF PeersInv
        <3>3. KeepsTheName(n)'
            BY <2>2, <3>2 DEF KeepsTheName
        <3>4. OneRegistration(n)'
            BY <1>3, <2>2, <2>4, <2>5, <3>1, <3>2 DEF OneRegistration
        <3>. QED BY <3>3, <3>4
    <2>. QED BY <1>1, <2>1, <2>2, <2>5 DEF PeersInv, TypeOK
<1>. QED BY <1>2, <1>3

(* deregisterAsPeer(): nobody else keeps the name that is taken back.      *)
LEMMA DeregisterKeeps ==
    ASSUME PeersInv, NEW c \in Connection, NEW m \in ToServer, m.type = "deregister", Deregister(c, m)
    PROVE  /\ toClient' \in [Connection -> Seq(ToClient)]
           /\ exchange' \in [Name -> 0..MaxConnections]
           /\ myPeerId' \in [Connection -> Name \cup {Nobody}]
           /\ (\A n \in Name \ contested : KeepsTheName(n) /\ OneRegistration(n))'
<1>1. m.name \in Name
    BY DEF ToServer, CallMessage
<1>2. [type |-> "error"] \in ToClient /\ [type |-> "ack"] \in ToClient
    BY DEF ToClient
<1>3. toClient' \in [Connection -> Seq(ToClient)]
    BY <1>2, ClientQueues DEF PeersInv, Deregister
<1>4. /\ exchange' \in [Name -> 0..MaxConnections]
      /\ myPeerId' \in [Connection -> Name \cup {Nobody}]
    <2>1. 0 \in 0..MaxConnections
        BY PeersAssumption
    <2>. QED BY <1>1, <2>1 DEF PeersInv, TypeOK, Deregister
<1>5. CASE myPeerId[c] # m.name
    BY <1>3, <1>4, <1>5, NamesStay DEF Deregister
<1>6. CASE myPeerId[c] = m.name
    <2>1. ASSUME NEW n \in Name \ contested' PROVE KeepsTheName(n)' /\ OneRegistration(n)'
        <3>1. KeepsTheName(n) /\ OneRegistration(n)
            BY <2>1 DEF PeersInv, Deregister
        <3>2. /\ handlers' = handlers
              /\ exchange' = [exchange EXCEPT ![m.name] = 0]
              /\ myPeerId' = [myPeerId EXCEPT ![c] = Nobody]
            BY <1>6 DEF Deregister
        <3>3. Nobody \notin Name
            BY PeersAssumption
        <3>4. KeepsTheName(n)'
            BY <1>1, <1>6, <2>1, <3>1, <3>2, <3>3 DEF PeersInv, TypeOK, KeepsTheName
        <3>5. OneRegistration(n)'
            BY <1>1, <3>1, <3>2 DEF PeersInv, TypeOK, OneRegistration, Registering
        <3>. QED BY <3>4, <3>5
    <2>. QED BY <1>3, <1>4, <2>1
<1>. QED BY <1>5, <1>6

LEMMA KernelReceivesKeeps ==
    ASSUME PeersInv, NEW c \in Connection, KernelReceives(c)
    PROVE  PeersInv'
<1>. DEFINE m == Head(toServer[c])
<1>1. m \in ToServer /\ toServer' \in [Connection -> Seq(ToServer)]
    BY Queues DEF PeersInv, TypeOK, KernelReceives
<1>2. UNCHANGED <<current, connections, open, client>>
    BY DEF KernelReceives
<1>3. Owned'
    BY <1>2, OwnersStay
<1>4. \/ m.type = "register" /\ Register(c, m) /\ UNCHANGED <<exchange, myPeerId>>
      \/ m.type = "deregister" /\ Deregister(c, m) /\ UNCHANGED <<handlers, contested>>
      \/ m.type = "call" /\ Handled([from |-> c, message |-> m])
           /\ UNCHANGED <<toClient, exchange, myPeerId, contested>>
      \/ m.type = "answer" /\ RedirectAnswer(m) /\ UNCHANGED kernel
    BY DEF KernelReceives, Register, Deregister
<1>. HIDE DEF m
<1>. SUFFICES /\ toClient' \in [Connection -> Seq(ToClient)]
              /\ exchange' \in [Name -> 0..MaxConnections]
              /\ myPeerId' \in [Connection -> Name \cup {Nobody}]
              /\ handlers' \subseteq Handler /\ contested' \subseteq Name
              /\ (\A n \in Name \ contested : KeepsTheName(n) /\ OneRegistration(n))'
    BY <1>1, <1>2, <1>3 DEF PeersInv, TypeOK, client
<1>5. CASE m.type = "register" /\ Register(c, m) /\ UNCHANGED <<exchange, myPeerId>>
    BY <1>1, <1>5, RegisterKeeps DEF PeersInv, TypeOK
<1>6. CASE m.type = "deregister" /\ Deregister(c, m) /\ UNCHANGED <<handlers, contested>>
    BY <1>1, <1>6, DeregisterKeeps DEF PeersInv, TypeOK
<1>7. CASE m.type = "call" /\ Handled([from |-> c, message |-> m])
           /\ UNCHANGED <<toClient, exchange, myPeerId, contested>>
    <2>1. [from |-> c, message |-> m] \in Handler
        BY <1>1, <1>7 DEF Handler
    <2>2. \A n \in Name : Registering(n)' = Registering(n)
        BY <1>7 DEF Handled, Registering
    <2>3. (\A n \in Name \ contested : KeepsTheName(n) /\ OneRegistration(n))'
        BY <1>7, <2>2 DEF PeersInv, KeepsTheName, OneRegistration
    <2>. QED BY <1>7, <2>1, <2>3 DEF PeersInv, TypeOK, Handled
<1>8. CASE m.type = "answer" /\ RedirectAnswer(m) /\ UNCHANGED kernel
    <2>1. m.destination \in Connection /\ [type |-> "answer", call |-> m.call] \in ToClient
        BY <1>1, <1>8 DEF ToServer, CallMessage, ToClient
    <2>2. toClient' \in [Connection -> Seq(ToClient)]
        BY <1>8, <2>1, ClientQueues DEF PeersInv, RedirectAnswer
    <2>. QED BY <1>8, <2>2, NamesStay DEF PeersInv, TypeOK, kernel
<1>. QED BY <1>4, <1>5, <1>6, <1>7, <1>8
-----------------------------------------------------------------------------
(* registerAsPeer() after the await: the name has been free all the while, *)
(* so no connection keeps it.                                              *)
LEMMA NameIsGiven ==
    ASSUME PeersInv, NEW h \in handlers, h.message.type = "register",
           exchange' = [exchange EXCEPT ![h.message.name] = h.from],
           myPeerId' = [myPeerId EXCEPT ![h.from] = h.message.name],
           handlers' = handlers \ {h}, UNCHANGED contested
    PROVE  (\A n \in Name \ contested : KeepsTheName(n) /\ OneRegistration(n))'
<1>1. h.from \in Connection /\ h.message.name \in Name
    BY DEF PeersInv, TypeOK, Handler, ToServer, CallMessage
<1>2. ASSUME NEW n \in Name \ contested' PROVE KeepsTheName(n)' /\ OneRegistration(n)'
    <2>1. KeepsTheName(n) /\ OneRegistration(n)
        BY <1>2 DEF PeersInv
    <2>2. \A c \in Connection : c # 0
        BY DEF Connection
    <2>3. CASE n = h.message.name
        <3>1. h \in Registering(n) /\ exchange[n] = 0
            BY <2>1, <2>3 DEF OneRegistration, Registering
        <3>2. \A c \in Connection : myPeerId[c] # n
            BY <2>1, <2>2, <3>1 DEF KeepsTheName
        <3>3. KeepsTheName(n)'
            BY <1>1, <2>3, <3>2 DEF PeersInv, TypeOK, KeepsTheName
        <3>4. Registering(n)' = {}
            BY <2>1, <3>1 DEF OneRegistration, Registering
        <3>. QED BY <3>3, <3>4 DEF OneRegistration
    <2>4. CASE n # h.message.name
        <3>1. KeepsTheName(n)'
            BY <1>1, <1>2, <2>1, <2>4 DEF PeersInv, TypeOK, KeepsTheName
        <3>2. OneRegistration(n)'
            BY <1>1, <1>2, <2>1, <2>4 DEF PeersInv, TypeOK, OneRegistration, Registering
        <3>. QED BY <3>1, <3>2
    <2>. QED BY <2>3, <2>4
<1>. QED BY <1>2

(* A call that is redirected belongs to the client it goes to.             *)
LEMMA RedirectCallKeeps ==
    ASSUME PeersInv, NEW m \in CallMessage, RedirectCall(m)
    PROVE  toClient' \in [Connection -> Seq(ToClient)] /\ calls' \in Seq(CallState)
<1>1. m.name \in Name /\ m \in ToClient
    BY DEF CallMessage, ToClient
<1>2. toClient' \in [Connection -> Seq(ToClient)]
    <2>1. exchange[m.name] = 0 \/ exchange[m.name] \in Connection
        BY PeersAssumption, <1>1 DEF PeersInv, TypeOK, Connection
    <2>2. toClient \in [Connection -> Seq(ToClient)]
        BY DEF PeersInv, TypeOK
    <2>3. exchange[m.name] \in Connection => Sent(toClient, exchange[m.name], m) \in [Connection -> Seq(ToClient)]
        BY <1>1, ClientQueues DEF PeersInv
    <2>. QED BY <2>1, <2>2, <2>3 DEF RedirectCall
<1>3. CASE exchange[m.name] \in open
    <2>1. Owner(exchange[m.name]) \in Client
        BY <1>3 DEF PeersInv, Owned, Owner
    <2>2. calls' \in [DOMAIN calls -> CallState]
        BY <1>3, <2>1, CallsTyped DEF PeersInv, RedirectCall, CallState
    <2>. QED BY <1>2, <2>2, CallsStay DEF PeersInv
<1>4. CASE exchange[m.name] \notin open
    BY <1>2, <1>4, BecameKeeps DEF PeersInv, RedirectCall
<1>. QED BY <1>3, <1>4

LEMMA SecurityKeeps ==
    ASSUME PeersInv, NEW h \in handlers, NEW allowed \in BOOLEAN, SecurityAnswers(h, allowed)
    PROVE  PeersInv'
<1>. DEFINE m == h.message
<1>1. /\ h.from \in Connection /\ m \in ToServer /\ m.type \in {"register", "call"}
      /\ m.name \in Name /\ (m.type = "call" => m \in CallMessage /\ m.call \in Nat)
    BY DEF PeersInv, TypeOK, Handler, ToServer, CallMessage
<1>2. /\ UNCHANGED <<current, connections, open, toServer, registered, asked, registrations, contested>>
      /\ handlers' = handlers \ {h}
    BY DEF SecurityAnswers
<1>3. Owned'
    BY <1>2, OwnersStay
<1>. SUFFICES /\ toClient' \in [Connection -> Seq(ToClient)]
              /\ exchange' \in [Name -> 0..MaxConnections]
              /\ myPeerId' \in [Connection -> Name \cup {Nobody}]
              /\ calls' \in Seq(CallState)
              /\ (\A n \in Name \ contested : KeepsTheName(n) /\ OneRegistration(n))'
    BY <1>2, <1>3 DEF PeersInv, TypeOK
<1>4. CASE ~allowed
    <2>1. [type |-> IF m.type = "call" THEN "denied" ELSE "error",
           call |-> IF m.type = "call" THEN m.call ELSE 0] \in ToClient
        BY <1>1 DEF ToClient
    <2>2. toClient' \in [Connection -> Seq(ToClient)]
        BY <1>1, <1>4, <2>1, ClientQueues DEF PeersInv, SecurityAnswers
    <2>3. UNCHANGED <<exchange, myPeerId, calls>>
        BY <1>4 DEF SecurityAnswers
    <2>. QED BY <1>2, <2>2, <2>3, NamesStay DEF PeersInv, TypeOK
<1>5. CASE allowed /\ m.type = "call"
    <2>1. RedirectCall(m) /\ UNCHANGED <<exchange, myPeerId>>
        BY <1>5 DEF SecurityAnswers
    <2>. QED BY <1>1, <1>2, <1>5, <2>1, RedirectCallKeeps, NamesStay DEF PeersInv, TypeOK
<1>6. CASE allowed /\ m.type # "call"
    <2>1. /\ exchange' = [exchange EXCEPT ![m.name] = h.from]
          /\ myPeerId' = [myPeerId EXCEPT ![h.from] = m.name]
          /\ toClient' = Sent(toClient, h.from, [type |-> "ack"]) /\ UNCHANGED calls
        BY <1>6 DEF SecurityAnswers
    <2>2. [type |-> "ack"] \in ToClient
        BY DEF ToClient
    <2>3. toClient' \in [Connection -> Seq(ToClient)]
        BY <1>1, <2>1, <2>2, ClientQueues DEF PeersInv
    <2>4. h.from \in 0..MaxConnections
        BY <1>1 DEF Connection
    <2>5. (\A n \in Name \ contested : KeepsTheName(n) /\ OneRegistration(n))'
        BY <1>1, <1>2, <1>6, <2>1, NameIsGiven
    <2>. QED BY <1>1, <2>1, <2>3, <2>4, <2>5 DEF PeersInv, TypeOK
<1>. QED BY <1>1, <1>4, <1>5, <1>6

LEMMA ClientReceivesKeeps ==
    ASSUME PeersInv, NEW k \in Client, ClientReceives(k)
    PROVE  PeersInv'
<1>. DEFINE c == current[k]
            m == Head(toClient[c])
<1>1. c \in Connection
    BY PeersAssumption DEF PeersInv, TypeOK, ClientReceives, Connection
<1>2. m \in ToClient /\ toClient' \in [Connection -> Seq(ToClient)]
    <2>1. toClient \in [Connection -> Seq(ToClient)]
        BY DEF PeersInv, TypeOK
    <2>. QED BY <1>1, <2>1, Queues DEF ClientReceives
<1>3. UNCHANGED <<current, connections, open, kernel, registered, registrations>>
    BY DEF ClientReceives
<1>4. Owned' /\ (\A n \in Name \ contested : KeepsTheName(n) /\ OneRegistration(n))'
    BY <1>3, OwnersStay, NamesStay DEF kernel
<1>. SUFFICES /\ toServer' \in [Connection -> Seq(ToServer)]
              /\ asked' \in [Client -> [op : AskedState, name : Name \cup {Nobody}]]
              /\ calls' \in Seq(CallState)
    BY <1>2, <1>3, <1>4 DEF PeersInv, TypeOK, kernel
<1>5. /\ toServer \in [Connection -> Seq(ToServer)]
      /\ asked \in [Client -> [op : AskedState, name : Name \cup {Nobody}]]
      /\ calls \in Seq(CallState)
    BY DEF PeersInv, TypeOK
<1>6. CASE m.type \in {"ack", "error"} /\ UNCHANGED <<calls, toServer>>
    <2>1. asked' \in [Client -> [op : AskedState, name : Name \cup {Nobody}]]
        BY <1>5, <1>6 DEF ClientReceives, None, AskedState
    <2>. QED BY <1>5, <1>6, <2>1
<1>7. CASE m.type = "call" /\ UNCHANGED asked
    <2>1. m.call \in Nat /\ m.source \in Connection
        BY <1>2, <1>7 DEF ToClient, CallMessage
    <2>2. [type |-> "answer", call |-> m.call, destination |-> m.source] \in ToServer
        BY <2>1 DEF ToServer
    <2>3. \/ toServer' = Sent(toServer, c, [type |-> "answer", call |-> m.call, destination |-> m.source])
             /\ UNCHANGED calls
          \/ Became(m.call, "dropped") /\ UNCHANGED toServer
        BY <1>7 DEF ClientReceives
    <2>4. Sent(toServer, c, [type |-> "answer", call |-> m.call, destination |-> m.source])
            \in [Connection -> Seq(ToServer)]
        BY <1>1, <1>5, <2>2, Queues
    <2>. QED BY <1>5, <1>7, <2>3, <2>4, BecameKeeps DEF PeersInv
<1>8. CASE m.type \in {"answer", "denied"} /\ Became(m.call, m.type) /\ UNCHANGED <<asked, toServer>>
    BY <1>5, <1>8, BecameKeeps DEF PeersInv
<1>. QED BY <1>6, <1>7, <1>8 DEF ClientReceives
-----------------------------------------------------------------------------
LEMMA PeersStep == PeersInv /\ [Next]_vars => PeersInv'
<1>. SUFFICES ASSUME PeersInv, [Next]_vars PROVE PeersInv'
    OBVIOUS
<1>1. CASE \E k \in Client : Connect(k) \/ Disconnect(k) \/ ClientReceives(k) \/ Continue(k)
    BY <1>1, ConnectKeeps, DisconnectKeeps, ClientReceivesKeeps, ContinueKeeps
<1>2. CASE \E k \in Client, n \in Name :
             CallPeer(k, n) \/ \E op \in {"register", "deregister"} : Ask(k, op, n)
    BY <1>2, CallKeeps, AskKeeps
<1>3. CASE \E c \in Connection : KernelReceives(c)
    BY <1>3, KernelReceivesKeeps
<1>4. CASE \E h \in handlers, allowed \in BOOLEAN : SecurityAnswers(h, allowed)
    BY <1>4, SecurityKeeps
<1>5. CASE UNCHANGED vars
    <2>1. UNCHANGED <<handlers, exchange, myPeerId, contested, current, open>>
        BY <1>5 DEF vars, wires, kernel, client
    <2>2. Owned' /\ (\A n \in Name \ contested : KeepsTheName(n) /\ OneRegistration(n))'
        BY <2>1, OwnersStay, NamesStay
    <2>3. TypeOK'
        BY <1>5 DEF PeersInv, TypeOK, vars, wires, kernel, client
    <2>. QED BY <2>2, <2>3 DEF PeersInv
<1>. QED BY <1>1, <1>2, <1>3, <1>4, <1>5 DEF Next

(***************************************************************************)
(* The exchange and the connections agree on every name that two           *)
(* registrations did not contest.                                          *)
(***************************************************************************)
THEOREM PeersInvariance == Spec => []PeersInv
<1>. QED BY PeersStart, PeersStep, PTL DEF Spec

(***************************************************************************)
(* Calls for a name go to the client that registered it.                   *)
(***************************************************************************)
THEOREM PeersAreReachable == Spec => []NameIsReachable
<1>1. PeersInv => NameIsReachable
    <2>. SUFFICES ASSUME PeersInv, NEW k \in Client, NEW n \in Name \ contested,
                         current[k] # 0, myPeerId[current[k]] = n
                  PROVE  exchange[n] = current[k]
        BY DEF NameIsReachable
    <2>1. current[k] \in Connection
        BY PeersAssumption DEF PeersInv, TypeOK, Connection
    <2>. QED BY <2>1 DEF PeersInv, KeepsTheName
<1>. QED BY <1>1, PeersInvariance, PTL

(***************************************************************************)
(* Two connections never keep the same name (myPeerId of                   *)
(* RpcKernelConnection), unless two registrations of it contested it.      *)
(***************************************************************************)
THEOREM OneConnectionPerName ==
    Spec => [](\A c, d \in Connection : myPeerId[c] = myPeerId[d] /\ myPeerId[c] \in Name \ contested => c = d)
<1>1. PeersInv => \A c, d \in Connection :
                    myPeerId[c] = myPeerId[d] /\ myPeerId[c] \in Name \ contested => c = d
    BY DEF PeersInv, KeepsTheName
<1>. QED BY <1>1, PeersInvariance, PTL
=============================================================================
