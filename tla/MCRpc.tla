-------------------------------- MODULE MCRpc -------------------------------
(***************************************************************************)
(* The bytes of a connection: framing, chunks, the transport of the client,*)
(* and the values in BSON.                                                 *)
(***************************************************************************)
EXTENDS RpcBufferReader, RpcChunks, RpcTransporter

CONSTANTS u1, u2, d1, r1, r2

VARIABLES
  part,  \* the component that runs
  schema, object, step, error, made, document, missing, read

MCStart == <<0, 5, 9, 15>>
MCCuts == 1 .. 15
MCFrom == [m \in {u1, u2, d1} |-> IF m = d1 THEN "server" ELSE "client"]
MCMsgId == [m \in {u1, u2, d1} |-> IF m = d1 THEN 3 ELSE IF m = u1 THEN 5 ELSE 6]
MCBytes == [m \in {u1, u2, d1} |-> IF m = u2 THEN 4 ELSE 5]

Bson == INSTANCE Bson

framingVars == <<reused, fed, has, first, upto, size, looping, loopFirst,
  loopSize, delivered, headersWhole, thrown>>
chunkingVars == <<phase, offset, chunkOf, writtenOn, chunkId, chunkAcks,
  chunks, net, received, connection, leftover>>
transportVars == <<sock, attempt, handshake, asked, sockets,
  transportConnection, writer, connected, connectionId, connectionPromise,
  pc, on, createdOn, drops, revived, overlapped, strayed>>
bsonVars == <<schema, object, step, error, made, document, missing, read>>
runVars == <<part, framingVars, chunkingVars, transportVars, bsonVars>>

(* All components are at their beginning; one of them, chosen here, goes on. *)
RunInit ==
  /\ part \in {"framing", "chunking", "transport", "bson"}
  /\ Init
  /\ part # "framing" => reused = TRUE
  /\ ChunksInit
  /\ TransportInit
  /\ IF part = "bson" THEN Bson!Init ELSE schema = 0 /\ object = 0 /\ step = 0 /\ error = 0 /\ made = 0 /\ document = 0 /\ missing = 0 /\ read = 0

FramingNext == part = "framing" /\ Next /\ UNCHANGED <<part, chunkingVars,
  transportVars, bsonVars>>
ChunkingNext == part = "chunking" /\ ChunksNext /\ UNCHANGED <<part,
  framingVars, transportVars, bsonVars>>
TransporterNext == part = "transport" /\ TransportNext /\ UNCHANGED <<part,
  framingVars, chunkingVars, bsonVars>>
BsonNext == part = "bson" /\ Bson!Next /\ UNCHANGED <<part, framingVars,
  chunkingVars, transportVars>>

RunNext == FramingNext \/ ChunkingNext \/ TransporterNext \/ BsonNext

(* The fairness of the components. *)
RunFairness ==
  /\ \A m \in {u1, u2, d1} : WF_chunkingVars(part = "chunking" /\ Continue(m))
  /\ \A p \in {"client", "server"} : WF_chunkingVars(part = "chunking" /\ GotPacket(p))
  /\ \A r \in {r1, r2} : WF_transportVars(part = "transport" /\ WaitedFor(r))
  /\ \A r \in {r1, r2} : WF_transportVars(part = "transport" /\ Finished(r))
  /\ \A r \in {r1, r2} : WF_transportVars(part = "transport" /\ WakeUp(r))
  /\ \A k \in Socket : WF_transportVars(part = "transport" /\ (OnConnected(k) \/ OnError(k)))
  /\ \A k \in Socket : WF_transportVars(part = "transport" /\ (HandshakeReply(k) \/ Established(k) \/ Refused(k)))
  /\ \A k \in Socket : WF_transportVars(part = "transport" /\ sock[k] \in {"closing", "failed"} /\ OnClose(k))

RunSpec == RunInit /\ [][RunNext]_runVars /\ RunFairness
-----------------------------------------------------------------------------
(* Sizer, serializer and decoder agree. *)
ValuesSurvive == part = "bson" => Bson!ValuesSurvive
=============================================================================
