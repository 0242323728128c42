----------------------------- MODULE BrokerLocks -----------------------------
(***************************************************************************)
(* The broker's distributed lock: BrokerClient.lock and tryLock            *)
(* (broker/src/client.ts) over the Lock, TryLock and Unlock handlers and   *)
(* close() of BrokerConnection (broker/src/kernel.ts), over ProcessLocker. *)
(*                                                                         *)
(* A member of Lock is one lock request: the message id of a connection    *)
(* and the ProcessLock instance made for it. The server is one Node        *)
(* process: a message, a timer or a socket event runs alone, then the      *)
(* continuations of the promises it resolved run (settled), then the next  *)
(* one. close() is the only handler split into steps, since its loop hands *)
(* locks over while it runs.                                               *)
(***************************************************************************)
EXTENDS ProcessLocker

CONSTANTS Conn,          \* connections, each opened once
          ConnOf,        \* the connection of each request
          NoConn,        \* no connection is being closed
          TtlChoice,     \* the ttl arguments in use: FALSE is a ttl of 0
          TimeoutChoice  \* the timeout arguments in use: FALSE waits without limit

ASSUME ConnAssumption ==
  /\ ConnOf \in [Lock -> Conn]
  /\ NoConn \notin Conn
  /\ TtlChoice \subseteq BOOLEAN /\ TimeoutChoice \subseteq BOOLEAN

VARIABLES
  open,       \* open[c]: close() of the connection has not been called
  locks,      \* locks[c]: the keys of the connection's locks Map
  settled,    \* requests granted whose continuation has not yet run
  closing,    \* the connection whose close() is running, or NoConn
  toUnlock,   \* what the loop of that close() has still to unlock
  client,     \* client[l]: where the client is with the request
  toServer,   \* toServer[l]: the client's message on its way
  toClient    \* toClient[l]: the server's answer on its way

brokerVars == <<open, locks, settled, closing, toUnlock, client, toServer, toClient>>
vars == <<lockVars, brokerVars>>

ClientState == {"idle", "asked", "has", "unlocking", "gone"}
Request == {"none", "Lock", "TryLock", "Unlock"}
Answer == {"none", "ResponseLock", "ResponseLockFailed", "Ack", "Error"}

BrokerInit ==
  /\ Init
  /\ open = [c \in Conn |-> TRUE]
  /\ locks = [c \in Conn |-> {}]
  /\ settled = {}
  /\ closing = NoConn
  /\ toUnlock = {}
  /\ client = [l \in Lock |-> "idle"]
  /\ toServer = [l \in Lock |-> "none"]
  /\ toClient = [l \in Lock |-> "none"]

(* The server is between two events: no handler runs, no continuation waits. *)
Calm == closing = NoConn /\ settled = {}

(* The requests this step grants: their continuations run next. *)
SettleGranted == settled' = settled \cup {m \in Lock : ~holding[m] /\ holding'[m]}

(* A write to a closed socket is lost. *)
Answers(l, answer) ==
  toClient' = IF open[ConnOf[l]] THEN [toClient EXCEPT ![l] = answer] ELSE toClient
-----------------------------------------------------------------------------
(* The client. *)
ClientAsks(l, kind) ==
  /\ client[l] = "idle" /\ open[ConnOf[l]] /\ Fresh(l)
  /\ client' = [client EXCEPT ![l] = "asked"]
  /\ toServer' = [toServer EXCEPT ![l] = kind]
  /\ UNCHANGED <<lockVars, open, locks, settled, closing, toUnlock, toClient>>

(* lock() and tryLock() hand out a subscription on ResponseLock, end on a  *)
(* refusal or an error; unlock() ends on the Ack or an error.              *)
ClientReceives(l) ==
  /\ toClient[l] # "none"
  /\ client' = [client EXCEPT ![l] = IF toClient[l] = "ResponseLock" THEN "has" ELSE "idle"]
  /\ toClient' = [toClient EXCEPT ![l] = "none"]
  /\ UNCHANGED <<lockVars, open, locks, settled, closing, toUnlock, toServer>>

(* The subscription is unsubscribed: Unlock goes out with the same id. *)
ClientUnlocks(l) ==
  /\ client[l] = "has"
  /\ client' = [client EXCEPT ![l] = "unlocking"]
  /\ toServer' = [toServer EXCEPT ![l] = "Unlock"]
  /\ UNCHANGED <<lockVars, open, locks, settled, closing, toUnlock, toClient>>
-----------------------------------------------------------------------------
(* The server. *)
HandleLock(l, hasTtl, hasTimeout) ==
  /\ Calm /\ toServer[l] = "Lock"
  /\ AcquireLock(l, hasTtl, hasTimeout)
  /\ SettleGranted
  /\ toServer' = [toServer EXCEPT ![l] = "none"]
  /\ UNCHANGED <<open, locks, closing, toUnlock, client, toClient>>

HandleTryLock(l, hasTtl) ==
  /\ Calm /\ toServer[l] = "TryLock"
  /\ \/ /\ TryLock(l, hasTtl)
        /\ UNCHANGED toClient
     \/ /\ entry[IdOf[l]]
        /\ Answers(l, "ResponseLockFailed")
        /\ UNCHANGED lockVars
  /\ SettleGranted
  /\ toServer' = [toServer EXCEPT ![l] = "none"]
  /\ UNCHANGED <<open, locks, closing, toUnlock, client>>

(* Mutant: Unlock releases whoever holds the id now. *)
HandleUnlockById(l) ==
  /\ Calm /\ toServer[l] = "Unlock"
  /\ l \in locks[ConnOf[l]]
  /\ locks' = [locks EXCEPT ![ConnOf[l]] = @ \ {l}]
  /\ \E m \in Lock : IdOf[m] = IdOf[l] /\ holding[m] /\ Release(m)
  /\ Answers(l, "Ack")
  /\ SettleGranted
  /\ toServer' = [toServer EXCEPT ![l] = "none"]
  /\ UNCHANGED <<open, closing, toUnlock, client>>

HandleUnlock(l) ==
  /\ Calm /\ toServer[l] = "Unlock"
  /\ \/ /\ l \in locks[ConnOf[l]]
        /\ locks' = [locks EXCEPT ![ConnOf[l]] = @ \ {l}]
        /\ Release(l)
        /\ Answers(l, "Ack")
     \/ /\ l \notin locks[ConnOf[l]]
        /\ Answers(l, "Error")
        /\ UNCHANGED <<lockVars, locks>>
  /\ SettleGranted
  /\ toServer' = [toServer EXCEPT ![l] = "none"]
  /\ UNCHANGED <<open, closing, toUnlock, client>>

(* The continuation of a granted lock: it is registered and answered, also *)
(* on a connection that was closed while the request waited.               *)
Register(l) ==
  /\ closing = NoConn /\ l \in settled
  /\ settled' = settled \ {l}
  /\ locks' = [locks EXCEPT ![ConnOf[l]] = @ \cup {l}]
  /\ Answers(l, "ResponseLock")
  /\ UNCHANGED <<lockVars, open, closing, toUnlock, client, toServer>>

TtlTimer(l) ==
  /\ Calm /\ TtlExpires(l)
  /\ SettleGranted
  /\ UNCHANGED <<open, locks, closing, toUnlock, client, toServer, toClient>>

(* The rejected promise of a request that still waits is answered. *)
TimeoutTimer(l) ==
  /\ Calm /\ WaitTimesOut(l)
  /\ IF caller[l] = "pending" THEN Answers(l, "Error") ELSE UNCHANGED toClient
  /\ UNCHANGED <<open, locks, settled, closing, toUnlock, client, toServer>>

(* The socket closes: messages under way are lost, the client process is   *)
(* gone, and close() starts to unlock what the Map holds. A second close() *)
(* ('error' is followed by 'close' in the same tick) finds the same Map    *)
(* and only repeats unlocks that do nothing.                               *)
Close(c) ==
  LET mine == {l \in Lock : ConnOf[l] = c} IN
  /\ Calm /\ open[c]
  /\ open' = [open EXCEPT ![c] = FALSE]
  /\ closing' = c
  /\ toUnlock' = locks[c]
  /\ client' = [l \in Lock |-> IF l \in mine THEN "gone" ELSE client[l]]
  /\ toServer' = [l \in Lock |-> IF l \in mine THEN "none" ELSE toServer[l]]
  /\ toClient' = [l \in Lock |-> IF l \in mine THEN "none" ELSE toClient[l]]
  /\ UNCHANGED <<lockVars, locks, settled>>

(* Mutant: the loop stops after the first lock. *)
CloseUnlocksOne(l) ==
  /\ l \in toUnlock
  /\ toUnlock' = {}
  /\ Release(l)
  /\ SettleGranted
  /\ UNCHANGED <<open, locks, closing, client, toServer, toClient>>

CloseUnlocks(l) ==
  /\ l \in toUnlock
  /\ toUnlock' = toUnlock \ {l}
  /\ Release(l)
  /\ SettleGranted
  /\ UNCHANGED <<open, locks, closing, client, toServer, toClient>>

CloseReturns ==
  /\ closing # NoConn /\ toUnlock = {}
  /\ closing' = NoConn
  /\ UNCHANGED <<lockVars, open, locks, settled, toUnlock, client, toServer, toClient>>

(* Nothing refers to the instance any more: not the Map, not a promise. *)
Collect(l) ==
  /\ client[l] = "idle" /\ l \notin locks[ConnOf[l]] /\ l \notin settled
  /\ Forget(l)
  /\ UNCHANGED brokerVars

BrokerNext ==
  \/ \E l \in Lock :
       \/ ClientAsks(l, "Lock")
       \/ ClientAsks(l, "TryLock")
       \/ ClientReceives(l)
       \/ ClientUnlocks(l)
       \/ \E hasTtl \in TtlChoice, hasTimeout \in TimeoutChoice : HandleLock(l, hasTtl, hasTimeout)
       \/ \E hasTtl \in TtlChoice : HandleTryLock(l, hasTtl)
       \/ HandleUnlock(l)
       \/ Register(l)
       \/ TtlTimer(l)
       \/ TimeoutTimer(l)
       \/ CloseUnlocks(l)
       \/ Collect(l)
  \/ \E c \in Conn : Close(c)
  \/ CloseReturns

BrokerSpec == BrokerInit /\ [][BrokerNext]_vars

(* Node runs continuations, loops and timers; TCP delivers while the       *)
(* connection is open. No client is assumed to unlock.                     *)
BrokerFairness ==
  /\ WF_vars(CloseReturns)
  /\ \A l \in Lock :
       /\ WF_vars(Register(l))
       /\ WF_vars(CloseUnlocks(l))
       /\ SF_vars(TtlTimer(l))
       /\ SF_vars(\E hasTtl \in TtlChoice, hasTimeout \in TimeoutChoice : HandleLock(l, hasTtl, hasTimeout))
       /\ SF_vars(\E hasTtl \in TtlChoice : HandleTryLock(l, hasTtl))
       /\ WF_vars(ClientReceives(l))

FairBrokerSpec == BrokerSpec /\ BrokerFairness
-----------------------------------------------------------------------------
BrokerTypeOK ==
  /\ TypeOK
  /\ open \in [Conn -> BOOLEAN]
  /\ locks \in [Conn -> SUBSET Lock]
  /\ settled \subseteq Lock
  /\ closing \in Conn \cup {NoConn}
  /\ toUnlock \subseteq Lock
  /\ client \in [Lock -> ClientState]
  /\ toServer \in [Lock -> Request]
  /\ toClient \in [Lock -> Answer]

(* Every lock held in the process can be given back through its            *)
(* connection: it is in the Map that Unlock and close() look at, or its    *)
(* continuation is about to put it there. A ttl, a timeout or a close      *)
(* between the grant and the registration loses none.                      *)
HeldIsRegistered ==
  \A l \in Lock : holding[l] => l \in locks[ConnOf[l]] \cup settled

(* The server never answers "Unknown lock for message id" to a client that *)
(* unlocks what it was given, also when the ttl has expired before.        *)
UnlockIsKnown ==
  \A l \in Lock : toServer[l] = "Unlock" => l \in locks[ConnOf[l]]

(* What a client is told is true. A lock without ttl is held until the     *)
(* server handles its Unlock: no timer, no other client's late unlock and  *)
(* no other connection's close() takes it away. And a request that failed  *)
(* has left no lock behind.                                                *)
AnswersAreTrue ==
  \A l \in Lock :
    /\ ~ttl[l] /\ (toClient[l] = "ResponseLock" \/ client[l] = "has" \/ toServer[l] = "Unlock")
         => holding[l]
    /\ toClient[l] \in {"ResponseLockFailed", "Error"} => ~holding[l]

(* After close() nothing of what the connection had registered is held,    *)
(* whatever its loop handed over to whom.                                  *)
CloseReleasesAll ==
  [][closing # NoConn /\ closing' = NoConn =>
       \A l \in locks[closing] : ~holding'[l]]_vars

(* Every lock and tryLock of a client that stays connected is answered,    *)
(* whoever else crashed or never unlocked, unless somebody took the id     *)
(* without a ttl and keeps it.                                             *)
KeptFor(l) == \E m \in Lock : IdOf[m] = IdOf[l] /\ holding[m] /\ ~ttl[m]
AskedIsAnswered ==
  \A l \in Lock : client[l] = "asked" ~> client[l] # "asked" \/ KeptFor(l)

(* client.ts: "ttl of 0 disables ttl and keeps the lock alive until you    *)
(* manually unlock it (or the process dies)". So once the process of the   *)
(* client is gone no lock without ttl may stay held for it.                *)
DeadClientHoldsNothing ==
  Calm => \A l \in Lock : ~open[ConnOf[l]] /\ ~ttl[l] => ~holding[l]

(* All that holds at any moment: what is held can be given back by its     *)
(* client and by close(), and answers are true.                            *)
LocksAgree ==
  /\ BrokerTypeOK
  /\ HeldIsRegistered
  /\ UnlockIsKnown
  /\ AnswersAreTrue
=============================================================================
