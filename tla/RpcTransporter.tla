--------------------------- MODULE RpcTransporter ---------------------------
(***************************************************************************)
(* rpc/src/client/client.ts, RpcClientTransporter and the requests of      *)
(* RpcBaseClient that use it: connect() with its handshake, the callbacks  *)
(* of sockets, disconnect(), and replies.                                  *)
(*                                                                         *)
(* Every doConnect() makes a socket, numbered in order; all callbacks of a *)
(* socket end in the same transporter, whether it is still the current one *)
(* or not. Continuations of promises run before the next event.            *)
(***************************************************************************)
EXTENDS Naturals, FiniteSets

CONSTANTS
  Request,     \* callers of sendMessage, one call each at a time
  HasToken,    \* RpcClientToken.has(): the handshake includes Authenticate
  MaxSockets,  \* bound: how many connections are tried
  MaxDrops     \* bound: how often the application calls disconnect()

ASSUME TransporterAssumption ==
  HasToken \in BOOLEAN /\ MaxSockets \in Nat /\ MaxDrops \in Nat

Socket == 1 .. MaxSockets
None == 0

VARIABLES
  sock,               \* sock[k]: new, opening, open, closing (closed at
                      \* this end) or failed, both with a close event to come, or closed
  attempt,            \* attempt[k]: the promise of doConnect(): pending, resolved or rejected
  handshake,          \* handshake[k]: what onConnected of k awaits: none, id, auth, or over
  asked,              \* asked[k]: the socket the awaited message of the handshake went to
  sockets,            \* how many sockets were made
  transportConnection,\* the socket of this.transportConnection
  writer,             \* the socket this.writer writes to; it is never reset
  connected, connectionId,
  connectionPromise,  \* the attempt it belongs to
  pc,                 \* pc[r]: where the request is
  on,                 \* on[r]: the attempt it waits for, then the socket it was sent to
  createdOn,          \* createdOn[r]: connectionId when sendMessage was called
  drops,
  revived,            \* observed: a handshake ended after its socket was left or replaced
  overlapped,         \* observed: connectionPromise was cleared while its socket was still opening or open
  strayed             \* observed: a later message of a request went to another socket

socketVars == <<sock, attempt, handshake, asked, sockets>>
stateVars == <<transportConnection, writer, connected, connectionId, connectionPromise>>
requestVars == <<pc, on, createdOn>>
observed == <<revived, overlapped, strayed>>
transporterVars == <<socketVars, stateVars, requestVars, drops, observed>>

TransportInit ==
  /\ sock = [k \in Socket |-> "new"] /\ attempt = [k \in Socket |-> "pending"]
  /\ handshake = [k \in Socket |-> "none"] /\ asked = [k \in Socket |-> None]
  /\ sockets = 0
  /\ transportConnection = None /\ writer = None
  /\ connected = FALSE /\ connectionId = 0 /\ connectionPromise = None
  /\ pc = [r \in Request |-> "idle"] /\ on = [r \in Request |-> None]
  /\ createdOn = [r \in Request |-> 0]
  /\ drops = 0
  /\ revived = FALSE /\ overlapped = FALSE /\ strayed = FALSE

(* Data still comes from a socket that was closed at this end. *)
Readable(k) == k # None /\ sock[k] \in {"open", "closing"}

(* A request whose await of an attempt is over. *)
Continues(r) == pc[r] \in {"waiting", "own"} /\ attempt[on[r]] # "pending"
Calm == \A r \in Request : ~ Continues(r)
------------------------------------------------------------------------------
(* this.send(): to the socket of the writer, lost if that is closed. *)
Transmit(r) ==
  /\ pc' = [pc EXCEPT ![r] = "sent"]
  /\ on' = [on EXCEPT ![r] = writer]

(* doConnect() up to its first await. *)
DoConnect(r) ==
  /\ sockets < MaxSockets
  /\ LET k == sockets + 1 IN
     /\ sockets' = k
     /\ sock' = [j \in Socket |-> IF j = k THEN "opening"
                                  ELSE IF j = transportConnection /\ sock[j] = "open" THEN "closing"
                                  ELSE sock[j]]
     /\ connectionPromise' = k
     /\ pc' = [pc EXCEPT ![r] = "own"]
     /\ on' = [on EXCEPT ![r] = k]
  /\ transportConnection' = None

(* One turn of connect(): wait, be done, or try. *)
Connect(r) ==
  \/ /\ connectionPromise # None
     /\ pc' = [pc EXCEPT ![r] = "waiting"]
     /\ on' = [on EXCEPT ![r] = connectionPromise]
     /\ UNCHANGED <<socketVars, stateVars>>
  \/ /\ connectionPromise = None /\ connected
     /\ Transmit(r)
     /\ UNCHANGED <<socketVars, stateVars>>
  \/ /\ connectionPromise = None /\ ~ connected
     /\ DoConnect(r)
     /\ UNCHANGED <<attempt, handshake, asked, writer, connected, connectionId>>

SendMessage(r) ==
  /\ Calm /\ pc[r] = "idle"
  /\ createdOn' = [createdOn EXCEPT ![r] = connectionId]
  /\ IF connected
     THEN Transmit(r) /\ UNCHANGED <<socketVars, stateVars>>
     ELSE Connect(r)
  /\ UNCHANGED <<drops, observed>>

(* Behind sleep(0.01) the loop of connect() looks again. *)
WakeUp(r) ==
  /\ Calm /\ pc[r] = "sleeping"
  /\ Connect(r)
  /\ UNCHANGED <<createdOn, drops, observed>>

(* The caller has its answer or error; replies.delete() *)
Settled(r) ==
  /\ pc' = [pc EXCEPT ![r] = "idle"]
  /\ on' = [on EXCEPT ![r] = None]
  /\ createdOn' = [createdOn EXCEPT ![r] = 0]

(* The await of another call's attempt is over. *)
WaitedFor(r) ==
  /\ pc[r] = "waiting" /\ attempt[on[r]] # "pending"
  /\ IF attempt[on[r]] = "resolved"
     THEN pc' = [pc EXCEPT ![r] = "sleeping"] /\ on' = [on EXCEPT ![r] = None] /\ UNCHANGED createdOn
     ELSE Settled(r)
  /\ UNCHANGED <<socketVars, stateVars, drops, observed>>

(* Mutant: the promise of a finished attempt stays. *)
FinishedKeeps(r) ==
  /\ pc[r] = "own" /\ attempt[on[r]] # "pending"
  /\ IF attempt[on[r]] = "resolved"
     THEN Transmit(r) /\ UNCHANGED createdOn
     ELSE Settled(r)
  /\ UNCHANGED <<socketVars, stateVars, drops, observed>>

(* The attempt of the call itself is over: finally deletes                 *)
(* connectionPromise, whichever that is now.                               *)
Finished(r) ==
  /\ pc[r] = "own" /\ attempt[on[r]] # "pending"
  /\ connectionPromise' = None
  /\ overlapped' = (overlapped \/ connectionPromise \notin {None, on[r]})
  /\ IF attempt[on[r]] = "resolved"
     THEN Transmit(r) /\ UNCHANGED createdOn
     ELSE Settled(r)
  /\ UNCHANGED <<socketVars, transportConnection, writer, connected, connectionId, drops, revived, strayed>>

Reply(r) ==
  /\ Calm /\ pc[r] = "sent" /\ Readable(on[r])
  /\ Settled(r)
  /\ UNCHANGED <<socketVars, stateVars, drops, observed>>

(* Mutant: a later message goes out on whatever connection there is. *)
FollowUpAnyway(r) ==
  /\ Calm /\ pc[r] = "sent"
  /\ strayed' = (strayed \/ writer # on[r])
  /\ UNCHANGED <<socketVars, stateVars, requestVars, drops, revived, overlapped>>

(* A later message of the request (RpcMessageSubject.send) is dropped when *)
(* the transporter has reconnected.                                        *)
FollowUp(r) ==
  /\ Calm /\ pc[r] = "sent" /\ createdOn[r] = connectionId
  /\ strayed' = (strayed \/ writer # on[r])
  /\ UNCHANGED <<socketVars, stateVars, requestVars, drops, revived, overlapped>>
------------------------------------------------------------------------------
(* onDisconnect(), called for any socket. *)
OnDisconnect(k) ==
  /\ connectionPromise' = None
  /\ overlapped' = (overlapped \/ connectionPromise \notin {None, k})
  /\ connected' = FALSE
  /\ connectionId' = IF connected THEN connectionId + 1 ELSE connectionId

(* onConnected(): the first message of the handshake is written. *)
OnConnected(k) ==
  /\ Calm /\ sock[k] = "opening"
  /\ sock' = [sock EXCEPT ![k] = "open"]
  /\ transportConnection' = k /\ writer' = k
  /\ connected' = FALSE
  /\ handshake' = [handshake EXCEPT ![k] = "id"]
  /\ asked' = [asked EXCEPT ![k] = k]
  /\ UNCHANGED <<attempt, sockets, connectionId, connectionPromise, requestVars, drops, observed>>

(* The reply of onHandshake; with a token onAuthenticate writes the next   *)
(* message, to the writer of now.                                          *)
HandshakeReply(k) ==
  /\ Calm /\ handshake[k] = "id" /\ Readable(asked[k]) /\ HasToken
  /\ handshake' = [handshake EXCEPT ![k] = "auth"]
  /\ asked' = [asked EXCEPT ![k] = writer]
  /\ UNCHANGED <<sock, attempt, sockets, stateVars, requestVars, drops, observed>>

(* The last reply: connected, whatever happened to the socket meanwhile. *)
Established(k) ==
  /\ Calm /\ Readable(asked[k])
  /\ handshake[k] = (IF HasToken THEN "auth" ELSE "id")
  /\ handshake' = [handshake EXCEPT ![k] = "over"]
  /\ connected' = TRUE
  /\ attempt' = [attempt EXCEPT ![k] = IF @ = "pending" THEN "resolved" ELSE @]
  /\ revived' = (revived \/ transportConnection # k)
  /\ UNCHANGED <<sock, asked, sockets, transportConnection, writer, connectionId, connectionPromise,
                 requestVars, drops, overlapped, strayed>>

(* Authenticate is answered with an error: the socket stays. *)
Refused(k) ==
  /\ Calm /\ Readable(asked[k]) /\ handshake[k] = "auth"
  /\ handshake' = [handshake EXCEPT ![k] = "over"]
  /\ connected' = FALSE
  /\ attempt' = [attempt EXCEPT ![k] = IF @ = "pending" THEN "rejected" ELSE @]
  /\ revived' = (revived \/ transportConnection # k)
  /\ UNCHANGED <<sock, asked, sockets, transportConnection, writer, connectionId, connectionPromise,
                 requestVars, drops, overlapped, strayed>>

(* onClose(): the other end closes, or the close asked for is done. *)
OnClose(k) ==
  /\ Calm /\ sock[k] \in {"open", "closing", "failed"}
  /\ sock' = [sock EXCEPT ![k] = "closed"]
  /\ OnDisconnect(k)
  /\ UNCHANGED <<attempt, handshake, asked, sockets, transportConnection, writer, requestVars, drops,
                 revived, strayed>>

(* onError(); the close event follows. *)
OnError(k) ==
  /\ Calm /\ sock[k] \in {"opening", "open"}
  /\ sock' = [sock EXCEPT ![k] = "failed"]
  /\ attempt' = [attempt EXCEPT ![k] = IF @ = "pending" THEN "rejected" ELSE @]
  /\ OnDisconnect(k)
  /\ UNCHANGED <<handshake, asked, sockets, transportConnection, writer, requestVars, drops, revived,
                 strayed>>

(* disconnect() *)
Disconnect ==
  /\ Calm /\ drops < MaxDrops
  /\ drops' = drops + 1
  /\ sock' = [k \in Socket |-> IF k = transportConnection /\ sock[k] = "open" THEN "closing" ELSE sock[k]]
  /\ transportConnection' = None
  /\ OnDisconnect(transportConnection)
  /\ UNCHANGED <<attempt, handshake, asked, sockets, writer, requestVars, revived, strayed>>

TransportNext ==
  \/ \E r \in Request : SendMessage(r) \/ WakeUp(r) \/ WaitedFor(r) \/ Finished(r) \/ Reply(r) \/ FollowUp(r)
  \/ \E k \in Socket : OnConnected(k) \/ HandshakeReply(k) \/ Established(k) \/ Refused(k)
                       \/ OnClose(k) \/ OnError(k)
  \/ Disconnect

(* Continuations and timers run; a socket opens or fails; the server       *)
(* answers the handshake while its socket lives; a socket that was closed  *)
(* says so.                                                                *)
TransportFairness ==
  /\ \A r \in Request : WF_transporterVars(WaitedFor(r)) /\ WF_transporterVars(Finished(r)) /\ WF_transporterVars(WakeUp(r))
  /\ \A k \in Socket :
       /\ WF_transporterVars(OnConnected(k) \/ OnError(k))
       /\ WF_transporterVars(HandshakeReply(k) \/ Established(k) \/ Refused(k))
       /\ WF_transporterVars(sock[k] \in {"closing", "failed"} /\ OnClose(k))

TransportSpec == TransportInit /\ [][TransportNext]_transporterVars /\ TransportFairness
------------------------------------------------------------------------------
TransportTypeOK ==
  /\ sock \in [Socket -> {"new", "opening", "open", "closing", "failed", "closed"}]
  /\ attempt \in [Socket -> {"pending", "resolved", "rejected"}]
  /\ handshake \in [Socket -> {"none", "id", "auth", "over"}]
  /\ asked \in [Socket -> Socket \cup {None}]
  /\ {transportConnection, writer, connectionPromise, sockets} \subseteq Socket \cup {None}
  /\ connected \in BOOLEAN /\ connectionId \in Nat
  /\ pc \in [Request -> {"idle", "waiting", "sleeping", "own", "sent"}]
  /\ on \in [Request -> Socket \cup {None}]

(* isConnected() is true only of a socket that is open and that the        *)
(* transporter would close on disconnect(); except that a handshake whose  *)
(* socket was left (disconnect(), client.ts:161-167) or replaced ends all  *)
(* the same (client.ts:223).                                               *)
ConnectedIsOpen ==
  connected => revived \/ (transportConnection # None /\ sock[transportConnection] = "open" /\ writer = transportConnection)

(* There is one live socket at a time, except when connectionPromise was   *)
(* cleared during an attempt: by a stale socket (client.ts:140, 259), or   *)
(* by disconnect() before there is something to close (client.ts:161).     *)
OneTransport == overlapped \/ Cardinality({k \in Socket : sock[k] \in {"opening", "open"}}) <= 1

(* The messages of a request all go to the connection of its first one:    *)
(* a subject never continues on a newer connection, whose server knows     *)
(* nothing of it (client.ts:395-401); with the same two exceptions, where  *)
(* one connection replaces another without a new connectionId.             *)
MessagesStayTogether == strayed => overlapped \/ revived

(* Every connect() settles, unless the socket it waits for has closed      *)
(* during its handshake: nothing rejects that attempt (client.ts:193-196). *)
(* The bound on sockets is the end of the instance.                        *)
Hangs(k) == k # None /\ attempt[k] = "pending" /\ sock[IF asked[k] = None THEN k ELSE asked[k]] = "closed"
CanTry(r) == pc[r] = "sleeping" /\ connectionPromise = None /\ ~ connected => sockets < MaxSockets
ConnectSettles ==
  \A r \in Request :
    pc[r] \in {"waiting", "own", "sleeping"} ~> pc[r] \in {"sent", "idle"} \/ Hangs(on[r]) \/ ~ CanTry(r)

(* All that holds at any moment: one socket is alive, connected means that *)
(* it is open, and a request stays with the connection it began on.        *)
TransportSafety ==
  /\ TransportTypeOK
  /\ ConnectedIsOpen
  /\ OneTransport
  /\ MessagesStayTogether
=============================================================================
