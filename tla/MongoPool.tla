----------------------------- MODULE MongoPool -----------------------------
(***************************************************************************)
(* The connection pool of the MongoDB client (mongo/src/client):           *)
(* MongoClient.execute with its retries, MongoConnectionPool,              *)
(* MongoConnection and the hosts of MongoClientConfig.                     *)
(*                                                                         *)
(* Sockets and the servers behind them are the environment: a server       *)
(* answers the message of the running command, a socket fails or is closed *)
(* at any time, a host changes its role.                                   *)
(***************************************************************************)
EXTENDS Naturals, FiniteSets, FiniteSetsExt

CONSTANTS
  Command,      \* each is executed once
  NeedsWritable,\* commands with needsWritableHost()
  Host,
  Handshake, None,
  MaxPoolSize, MinPoolSize, MaxRetries,
  SecondaryReadAllowed, \* an option, FALSE by default
  MaxConnections, \* bound: connections made
  MaxEvents       \* bound: failures, closes and changes of hosts

Connection == 1 .. MaxConnections

ASSUME PoolAssumption ==
  /\ NeedsWritable \subseteq Command
  /\ Handshake \notin Command \union {None} /\ None \notin Command \union Host \union Connection
  /\ IsFiniteSet(Host)
  /\ MaxPoolSize \in Nat \ {0} /\ MinPoolSize \in Nat /\ MaxRetries \in Nat \ {0}
  /\ MaxConnections \in Nat /\ MaxEvents \in Nat
  /\ SecondaryReadAllowed \in BOOLEAN

VARIABLES
  hosts,       \* config.hosts
  role,        \* role[h]: what the server is now
  type,        \* type[h]: Host.type
  made,        \* connectionId: how many connections were made
  hostOf, status, reserved,
  socket,      \* socket[k]: none, open, ending (closed at this end), failed (a close event follows), closed
  promise,     \* promise[k] of connect(): pending, resolved, rejected, or refused (rejected, but connectingPromise stays)
  current,     \* lastCommand[k]: Handshake, a command or None
  idle,        \* cleanupTimeout of k is running
  pc,          \* pc[c]: idle, connecting, getting, waiting (for the handshake), running, retrying, done, failed
  awaited,     \* awaited[c]: connections whose connect() it waits for
  on,          \* on[c]: its connection
  tries,
  events

connectionVars == <<made, hostOf, status, reserved, socket, promise, current, idle>>
commandVars == <<pc, awaited, on, tries>>
hostVars == <<hosts, role, type>>
vars == <<hostVars, connectionVars, commandVars, events>>

Init ==
  /\ hosts = Host /\ type = [h \in Host |-> "unknown"]
  /\ role \in [Host -> {"primary", "secondary"}]
  /\ made = 0 /\ hostOf = [k \in Connection |-> None]
  /\ status = [k \in Connection |-> "connecting"] /\ reserved = [k \in Connection |-> FALSE]
  /\ socket = [k \in Connection |-> "none"] /\ promise = [k \in Connection |-> "pending"]
  /\ current = [k \in Connection |-> None] /\ idle = [k \in Connection |-> FALSE]
  /\ pc = [c \in Command |-> "idle"] /\ awaited = [c \in Command |-> {}]
  /\ on = [c \in Command |-> None] /\ tries = [c \in Command |-> 0]
  /\ events = 0

(* A connection stays in the lists of pool and host until its close event. *)
Pool == {k \in Connection : socket[k] \in {"open", "ending", "failed"}}
Writable(h) == type[h] = "primary"
Readable(h) == type[h] \in {"primary", "secondary"}
Fits(c, h) == IF c \in NeedsWritable THEN Writable(h) ELSE Readable(h)
Answers(k) == socket[k] \in {"open", "ending"}

------------------------------------------------------------------------------
(* newConnection() for every host of hs; the constructor connects and      *)
(* sends the handshake.                                                    *)
NewConnections(hs) ==
  LET n == Cardinality(hs)
      fresh == made + 1 .. made + n
  IN /\ made + n <= MaxConnections
     /\ made' = made + n
     /\ \E of \in [fresh -> hs] :
          /\ \A h \in hs : \E k \in fresh : of[k] = h
          /\ hostOf' = [k \in Connection |-> IF k \in fresh THEN of[k] ELSE hostOf[k]]
     /\ socket' = [k \in Connection |-> IF k \in fresh THEN "open" ELSE socket[k]]
     /\ current' = [k \in Connection |-> IF k \in fresh THEN Handshake ELSE current[k]]

(* execute() up to its first await: ensureHostsConnected(true). *)
Execute(c) ==
  /\ pc[c] = "idle"
  /\ LET lonely == {h \in hosts : ~ \E k \in Pool : hostOf[k] = h} IN
     /\ NewConnections(lonely)
     /\ awaited' = [awaited EXCEPT ![c] = {k \in Pool' : promise[k] \in {"pending", "refused"}}]
  /\ pc' = [pc EXCEPT ![c] = "connecting"]
  /\ UNCHANGED <<hostVars, status, reserved, promise, idle, on, tries, events>>

(* Promise.all of the connections under way, of any host. *)
Connected(c) ==
  /\ pc[c] = "connecting"
  /\ \/ /\ \A k \in awaited[c] : promise[k] = "resolved"
        /\ pc' = [pc EXCEPT ![c] = "getting"]
     \/ /\ \E k \in awaited[c] : promise[k] \in {"rejected", "refused"}
        /\ pc' = [pc EXCEPT ![c] = "failed"]
  /\ awaited' = [awaited EXCEPT ![c] = {}]
  /\ UNCHANGED <<hostVars, connectionVars, on, tries, events>>

(* A connection that is there serves no read on a secondary that is not    *)
(* allowed to; findHostForRequest, for a new connection, does not ask that. *)
Takes(c, h) ==
  Fits(c, h) /\ (c \in NeedsWritable \/ type[h] # "secondary" \/ SecondaryReadAllowed)
Free(c) == {k \in Pool : status[k] = "connected" /\ ~ reserved[k] /\ Takes(c, hostOf[k])}

(* Mutant: the timer of the time before runs on. *)
TakeFreeTicking(c) ==
  /\ pc[c] = "getting" /\ Free(c) # {}
  /\ LET k == CHOOSE k \in Free(c) : \A j \in Free(c) : k <= j IN
     /\ reserved' = [reserved EXCEPT ![k] = TRUE]
     /\ current' = [current EXCEPT ![k] = c]
     /\ on' = [on EXCEPT ![c] = k]
     /\ UNCHANGED idle
  /\ pc' = [pc EXCEPT ![c] = "running"]
  /\ UNCHANGED <<hostVars, made, hostOf, status, socket, promise, awaited, tries, events>>

(* getConnection() finds one, which sends the command at once. *)
TakeFree(c) ==
  /\ pc[c] = "getting" /\ Free(c) # {}
  /\ LET k == CHOOSE k \in Free(c) : \A j \in Free(c) : k <= j IN
     /\ reserved' = [reserved EXCEPT ![k] = TRUE]
     /\ idle' = [idle EXCEPT ![k] = FALSE]
     /\ current' = [current EXCEPT ![k] = c]
     /\ on' = [on EXCEPT ![c] = k]
  /\ pc' = [pc EXCEPT ![c] = "running"]
  /\ UNCHANGED <<hostVars, made, hostOf, status, socket, promise, awaited, tries, events>>

(* ... or makes one, if the pool has room and a known host fits; the       *)
(* command waits for the promise of the handshake.                         *)
MakeOne(c) ==
  /\ pc[c] = "getting" /\ Free(c) = {} /\ Cardinality(Pool) < MaxPoolSize
  /\ \E h \in hosts :
       /\ Fits(c, h)
       /\ NewConnections({h})
  /\ reserved' = [reserved EXCEPT ![made'] = TRUE]
  /\ on' = [on EXCEPT ![c] = made']
  /\ pc' = [pc EXCEPT ![c] = "waiting"]
  /\ UNCHANGED <<hostVars, status, promise, idle, awaited, tries, events>>

(* findHostForRequest() throws; behind a full pool the loop polls instead. *)
NoHost(c) ==
  /\ pc[c] = "getting" /\ Free(c) = {} /\ Cardinality(Pool) < MaxPoolSize
  /\ ~ \E h \in hosts : Fits(c, h)
  /\ pc' = [pc EXCEPT ![c] = "failed"]
  /\ UNCHANGED <<hostVars, connectionVars, awaited, on, tries, events>>

(* finally: the connection is released, its idle timer starts. *)
Release(k) ==
  /\ reserved' = [reserved EXCEPT ![k] = FALSE]
  /\ idle' = [idle EXCEPT ![k] = TRUE]

(* Mutant: an error leaves the connection reserved. *)
LeaveReserved(c, next) ==
  /\ IF next = "done" THEN Release(on[c]) ELSE UNCHANGED <<reserved, idle>>
  /\ pc' = [pc EXCEPT ![c] = next]
  /\ on' = [on EXCEPT ![c] = None]

Leave(c, next) ==
  /\ Release(on[c])
  /\ pc' = [pc EXCEPT ![c] = next]
  /\ on' = [on EXCEPT ![c] = None]

WaitsFor(k) == {c \in Command : pc[c] = "waiting" /\ on[c] = k}

(* The reply of the handshake: type of the host, connected (whatever the   *)
(* status was), and the command that waits for it is sent.                 *)
HandshakeDone(k) ==
  /\ Answers(k) /\ current[k] = Handshake
  /\ type' = [type EXCEPT ![hostOf[k]] = role[hostOf[k]]]
  /\ status' = [status EXCEPT ![k] = "connected"]
  /\ promise' = [promise EXCEPT ![k] = IF @ = "pending" THEN "resolved" ELSE @]
  /\ current' = [current EXCEPT ![k] = IF WaitsFor(k) = {} THEN None ELSE CHOOSE c \in WaitsFor(k) : TRUE]
  /\ pc' = [c \in Command |-> IF c \in WaitsFor(k) THEN "running" ELSE pc[c]]
  /\ UNCHANGED <<hosts, role, made, hostOf, reserved, socket, idle, awaited, on, tries, events>>

(* Authentication fails: the status stays, the socket is ended, the        *)
(* command that waits gets the same error.                                 *)
HandshakeRefused(k) ==
  /\ Answers(k) /\ current[k] = Handshake /\ events < MaxEvents
  /\ events' = events + 1
  /\ promise' = [promise EXCEPT ![k] = IF @ = "pending" THEN "refused" ELSE @]
  /\ current' = [current EXCEPT ![k] = None]
  /\ socket' = [socket EXCEPT ![k] = "ending"]
  /\ IF WaitsFor(k) = {} THEN UNCHANGED <<pc, on, reserved, idle>>
     ELSE \E c \in WaitsFor(k) : Leave(c, "failed")
  /\ UNCHANGED <<hostVars, made, hostOf, status, awaited, tries>>

(* The reply of a command: done, refused, or refused by a server that has  *)
(* changed its role, which is retried after a pause.                       *)
Reply(k, answer) ==
  /\ Answers(k) /\ current[k] \in Command
  /\ LET c == current[k] IN
     /\ (answer = "retry") <=> (c \in NeedsWritable /\ role[hostOf[k]] # "primary")
     /\ IF answer = "retry" /\ tries[c] + 1 < MaxRetries
        THEN /\ pc' = [pc EXCEPT ![c] = "retrying"]
             /\ tries' = [tries EXCEPT ![c] = @ + 1]
             /\ UNCHANGED <<on, reserved, idle>>
        ELSE /\ Leave(c, IF answer = "done" THEN "done" ELSE "failed")
             /\ UNCHANGED tries
  /\ current' = [current EXCEPT ![k] = None]
  /\ UNCHANGED <<hostVars, made, hostOf, status, socket, promise, awaited, events>>

Retry(c) ==
  /\ pc[c] = "retrying"
  /\ Leave(c, "getting")
  /\ UNCHANGED <<hostVars, made, hostOf, status, socket, promise, current, awaited, tries, events>>
------------------------------------------------------------------------------
(* MongoConnection.close() *)
CloseAll(ks) ==
  /\ status' = [k \in Connection |-> IF k \in ks THEN "disconnected" ELSE status[k]]
  /\ socket' = [k \in Connection |-> IF k \in ks /\ socket[k] = "open" THEN "ending" ELSE socket[k]]

IdleTimeout(k) ==
  /\ idle[k]
  /\ idle' = [idle EXCEPT ![k] = FALSE]
  /\ CloseAll(IF Cardinality(Pool) > MinPoolSize THEN {k} ELSE {})
  /\ UNCHANGED <<hostVars, made, hostOf, reserved, promise, current, commandVars, events>>

Close ==
  /\ events < MaxEvents /\ events' = events + 1
  /\ CloseAll(Pool)
  /\ UNCHANGED <<hostVars, made, hostOf, reserved, promise, current, idle, commandVars>>

(* getHosts() of a mongodb+srv domain: a host that is no longer listed is  *)
(* deleted with its connections. (Every command calls it, before its       *)
(* connections are looked for.)                                            *)
DeleteHost(h) ==
  /\ events < MaxEvents /\ events' = events + 1
  /\ h \in hosts /\ hosts # {h}
  /\ hosts' = hosts \ {h}
  /\ CloseAll({k \in Pool : hostOf[k] = h})
  /\ UNCHANGED <<role, type, made, hostOf, reserved, promise, current, idle, commandVars>>

Failover(h) ==
  /\ events < MaxEvents /\ events' = events + 1
  /\ role' = [role EXCEPT ![h] = IF @ = "primary" THEN "secondary" ELSE "primary"]
  /\ UNCHANGED <<hosts, type, connectionVars, commandVars>>

OnError(k) ==
  /\ socket[k] = "open" /\ events < MaxEvents /\ events' = events + 1
  /\ socket' = [socket EXCEPT ![k] = "failed"]
  /\ status' = [status EXCEPT ![k] = "disconnected"]
  /\ promise' = [promise EXCEPT ![k] = IF @ = "pending" THEN "rejected" ELSE @]
  /\ UNCHANGED <<hostVars, made, hostOf, reserved, current, idle, commandVars>>

(* The close event: of a socket that failed or was ended, or because the   *)
(* server closed it. Nothing is rejected.                                  *)
OnClose(k) ==
  /\ socket[k] \in {"open", "ending", "failed"}
  /\ socket[k] = "open" => events < MaxEvents
  /\ events' = IF socket[k] = "open" THEN events + 1 ELSE events
  /\ socket' = [socket EXCEPT ![k] = "closed"]
  /\ status' = [status EXCEPT ![k] = "disconnected"]
  /\ UNCHANGED <<hostVars, made, hostOf, reserved, promise, current, idle, commandVars>>

Next ==
  \/ \E c \in Command : Execute(c) \/ Connected(c) \/ TakeFree(c) \/ MakeOne(c) \/ NoHost(c) \/ Retry(c)
  \/ \E k \in Connection : \/ HandshakeDone(k) \/ HandshakeRefused(k)
                           \/ \E answer \in {"done", "failed", "retry"} : Reply(k, answer)
                           \/ IdleTimeout(k) \/ OnError(k) \/ OnClose(k)
  \/ \E h \in Host : DeleteHost(h) \/ Failover(h)
  \/ Close

(* Continuations and polls run; an open connection answers what was sent,  *)
(* or ends; one that was closed or has failed says so.                     *)
Fairness ==
  /\ \A c \in Command : WF_vars(Connected(c)) /\ WF_vars(Retry(c)) /\ WF_vars(TakeFree(c) \/ MakeOne(c) \/ NoHost(c))
  /\ \A k \in Connection :
       /\ WF_vars(HandshakeDone(k) \/ HandshakeRefused(k) \/ OnClose(k))
       /\ WF_vars(Reply(k, "done") \/ Reply(k, "retry") \/ OnClose(k))
       /\ WF_vars(socket[k] \in {"ending", "failed"} /\ OnClose(k))

Spec == Init /\ [][Next]_vars /\ Fairness
------------------------------------------------------------------------------
PromiseState == {"pending", "resolved", "rejected", "refused"}
SocketState == {"none", "open", "ending", "failed", "closed"}
Place == {"idle", "connecting", "getting", "waiting", "running", "retrying", "done", "failed"}

TypeOK ==
  /\ hosts \subseteq Host
  /\ role \in [Host -> {"primary", "secondary"}]
  /\ type \in [Host -> {"unknown", "primary", "secondary"}]
  /\ made \in 0 .. MaxConnections
  /\ hostOf \in [Connection -> Host \union {None}]
  /\ status \in [Connection -> {"connecting", "connected", "disconnected"}]
  /\ reserved \in [Connection -> BOOLEAN] /\ idle \in [Connection -> BOOLEAN]
  /\ socket \in [Connection -> SocketState] /\ promise \in [Connection -> PromiseState]
  /\ current \in [Connection -> Command \union {Handshake, None}]
  /\ pc \in [Command -> Place] /\ awaited \in [Command -> SUBSET Connection]
  /\ on \in [Command -> Connection \union {None}]
  /\ tries \in [Command -> Nat] /\ events \in 0 .. MaxEvents

(* A connection has one user: nobody else gets its replies, and its idle   *)
(* timer cannot close it under him.                                        *)
OneUser ==
  /\ \A c \in Command : on[c] # None =>
       /\ reserved[on[c]] /\ ~ idle[on[c]]
       /\ \A d \in Command : on[d] = on[c] => d = c
  /\ \A k \in Connection : current[k] \in Command => on[current[k]] = k

(* The pool exceeds its limit only by the first connections of hosts,      *)
(* which ensureHostsConnected makes without looking at the limit.          *)
PoolIsLimited == Cardinality(Pool) <= MaxPoolSize + Cardinality(Host) - 1

(* Every command settles: a pool at its limit gives each its turn. Except  *)
(* that what waits for a reply of a socket that has closed or failed waits *)
(* for ever, be it the reply to the command, or that to the handshake of a *)
(* connection made for it (connection.ts:308), or of any connection that   *)
(* was under way when execute() was called, and whose socket closed        *)
(* without an error (connection.ts:378); and that a full pool without a    *)
(* connection to a host that takes the command is polled (connection.ts:   *)
(* 168): for ever, if none of them ends. A pool full of secondaries is     *)
(* such a one for reads (connection.ts:149), which a new connection to a   *)
(* secondary would serve. The bound on connections ends the instance.      *)
Gone(k) == socket[k] \in {"failed", "closed"}
Abandoned(c) ==
  \/ pc[c] \in {"waiting", "running"} /\ Gone(on[c])
  \/ pc[c] = "connecting" /\ \E k \in awaited[c] : promise[k] = "pending" /\ Gone(k)
  \/ pc[c] = "getting" /\ Cardinality(Pool) >= MaxPoolSize /\ ~ \E k \in Pool : Takes(c, hostOf[k])
  \/ pc[c] = "getting" /\ made = MaxConnections
CommandsSettle ==
  \A c \in Command : pc[c] \notin {"idle", "done", "failed"} ~> pc[c] \in {"done", "failed"} \/ Abandoned(c)

(* All that holds at any moment: a connection has one user, and there are  *)
(* no more of them than the pool may have.                                 *)
PoolSafety ==
  /\ TypeOK
  /\ OneUser
  /\ PoolIsLimited
=============================================================================
