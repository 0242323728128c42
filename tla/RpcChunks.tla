------------------------------ MODULE RpcChunks ------------------------------
(***************************************************************************)
(* rpc/src/writer.ts, RpcMessageWriter, and rpc/src/protocol.ts,           *)
(* RpcMessageReader: the layer of both ends of a connection that sends     *)
(* large messages in chunks, one unacknowledged chunk at a time.           *)
(*                                                                         *)
(* A buffer is the sequence of pieces it is made of; a piece is a message, *)
(* an offset and a length. The kernel makes a reader and a writer for each *)
(* connection. The client makes a writer for each connection, its reader   *)
(* stays.                                                                  *)
(***************************************************************************)
EXTENDS Naturals, Sequences, FiniteSets, Functions

CONSTANTS
  Messages,       \* the messages that are written
  From,           \* From[m], the peer that writes m
  MsgId,          \* MsgId[m], the message.id in its header
  ByteLength,     \* ByteLength[m], its length
  ChunkSize,      \* RpcMessageWriterOptions.chunkSize
  MaxDisconnects  \* bound: how often the connection breaks

Peers == {"client", "server"}
Other(p) == IF p = "client" THEN "server" ELSE "client"

ASSUME ChunksAssumption ==
  /\ From \in [Messages -> Peers]
  /\ MsgId \in [Messages -> Nat]
  /\ ByteLength \in [Messages -> Nat \ {0}]
  /\ ChunkSize \in Nat \ {0}
  /\ MaxDisconnects \in Nat

VARIABLES
  phase,      \* phase[m]: new, waiting for the ack of a chunk, resumed by it, or done
  offset,     \* offset[m]: the bytes of m that are sent
  chunkOf,    \* chunkOf[m]: the chunk id of a large message
  writtenOn,  \* writtenOn[m]: the connection m is written on
  chunkId,    \* chunkId[p], of the writer of p
  chunkAcks,  \* chunkAcks[p], of the reader of p: message.id -> waiting chunk
  chunks,     \* chunks[p], of the reader of p: chunk id -> what is loaded
  net,        \* net[p]: the packets on their way to p, in order
  received,   \* received[p]: the buffers passed to onMessage of p
  connection, \* how often the connection broke
  leftover    \* observed: the client has reconnected with half-loaded chunks

chunkVars ==
  <<phase, offset, chunkOf, writtenOn, chunkId, chunkAcks, chunks, net, received, connection, leftover>>

NoEntries == [x \in {} |-> x]

ChunksInit ==
  /\ phase = [m \in Messages |-> "new"]
  /\ offset = [m \in Messages |-> 0]
  /\ chunkOf = [m \in Messages |-> 0]
  /\ writtenOn = [m \in Messages |-> 0]
  /\ chunkId = [p \in Peers |-> 0]
  /\ chunkAcks = [p \in Peers |-> NoEntries]
  /\ chunks = [p \in Peers |-> NoEntries]
  /\ net = [p \in Peers |-> <<>>]
  /\ received = [p \in Peers |-> <<>>]
  /\ connection = 0
  /\ leftover = FALSE

Large(m) == ByteLength[m] >= ChunkSize

(* buffer.slice(offset, offset + chunkSize) *)
Slice(m, from) ==
  [msg |-> m, at |-> from, len |-> IF ByteLength[m] - from < ChunkSize THEN ByteLength[m] - from ELSE ChunkSize]

Small(m) == [type |-> "message", buffer |-> <<[msg |-> m, at |-> 0, len |-> ByteLength[m]]>>]
Ack(id) == [type |-> "ack", id |-> id]
Chunk(m, c) == [type |-> "chunk", id |-> MsgId[m], chunk |-> c, total |-> ByteLength[m], v |-> Slice(m, offset[m])]

(* Map.set and Map.delete *)
SetEntry(map, k, v) == [x \in DOMAIN map \cup {k} |-> IF x = k THEN v ELSE map[x]]
DeleteEntry(map, k) == Restrict(map, DOMAIN map \ {k})

(* The chunk of m whose ack resolves a promise: up to which byte it goes. *)
Waiting(m) == [msg |-> m, upTo |-> offset'[m]]

(* onChunkAck: the callback replaces an older one under the same           *)
(* message.id. The reader of a broken connection of the server is gone.    *)
RegisterAck(m) ==
  chunkAcks' =
    IF From[m] = "client" \/ writtenOn'[m] = connection
    THEN [chunkAcks EXCEPT ![From[m]] = SetEntry(@, MsgId[m], Waiting(m))]
    ELSE chunkAcks

(* What is sent on a connection that is gone is lost. *)
SendPacket(m, packet) ==
  net' = IF writtenOn'[m] = connection
         THEN [net EXCEPT ![Other(From[m])] = Append(@, packet)]
         ELSE net

(* One turn of the loop of writeFull, up to its await. *)
SendChunk(m, c) ==
  /\ offset' = [offset EXCEPT ![m] = @ + Slice(m, @).len]
  /\ phase' = [phase EXCEPT ![m] = "waiting"]
  /\ RegisterAck(m)
  /\ SendPacket(m, Chunk(m, c))

(* Mutant: every large message goes by the same chunk id. *)
WriteLargeOneId(m) ==
  /\ Large(m)
  /\ chunkOf' = [chunkOf EXCEPT ![m] = chunkId[From[m]]]
  /\ UNCHANGED chunkId
  /\ SendChunk(m, chunkId[From[m]])

(* write of a large message: it takes the next chunk id and sends its      *)
(* first chunk.                                                            *)
WriteLarge(m) ==
  /\ Large(m)
  /\ chunkOf' = [chunkOf EXCEPT ![m] = chunkId[From[m]]]
  /\ chunkId' = [chunkId EXCEPT ![From[m]] = @ + 1]
  /\ SendChunk(m, chunkId[From[m]])

WriteSmall(m) ==
  /\ ~Large(m)
  /\ SendPacket(m, Small(m))
  /\ offset' = [offset EXCEPT ![m] = ByteLength[m]]
  /\ phase' = [phase EXCEPT ![m] = "done"]
  /\ UNCHANGED <<chunkOf, chunkId, chunkAcks>>

Write(m) ==
  /\ phase[m] = "new"
  /\ writtenOn' = [writtenOn EXCEPT ![m] = connection]
  /\ WriteLarge(m) \/ WriteSmall(m)
  /\ UNCHANGED <<chunks, received, connection, leftover>>

(* Mutant: an incomplete last chunk is forgotten. *)
ContinueFullChunks(m) ==
  /\ phase[m] = "resumed"
  /\ UNCHANGED <<chunkOf, writtenOn, chunkId, chunks, received, connection, leftover>>
  /\ IF offset[m] + ChunkSize <= ByteLength[m]
     THEN SendChunk(m, chunkOf[m])
     ELSE /\ phase' = [phase EXCEPT ![m] = "done"]
          /\ UNCHANGED <<offset, chunkAcks, net>>

(* The continuation behind "await promise": the next turn of the loop, or  *)
(* its end.                                                                *)
Continue(m) ==
  /\ phase[m] = "resumed"
  /\ UNCHANGED <<chunkOf, writtenOn, chunkId, chunks, received, connection, leftover>>
  /\ IF offset[m] < ByteLength[m]
     THEN SendChunk(m, chunkOf[m])
     ELSE /\ phase' = [phase EXCEPT ![m] = "done"]
          /\ UNCHANGED <<offset, chunkAcks, net>>

Receive(p) == net' = [net EXCEPT ![p] = Tail(@)]

GotMessage(p, packet) ==
  /\ packet.type = "message"
  /\ received' = [received EXCEPT ![p] = Append(@, packet.buffer)]
  /\ Receive(p)
  /\ UNCHANGED <<phase, chunkAcks, chunks>>

(* The callback resolves the promise of the chunk that was sent last under *)
(* that message.id. The entry stays, and a second call is without effect.  *)
GotAck(p, packet) ==
  /\ packet.type = "ack"
  /\ phase' =
       [m \in Messages |->
          IF /\ packet.id \in DOMAIN chunkAcks[p]
             /\ chunkAcks[p][packet.id] = [msg |-> m, upTo |-> offset[m]]
             /\ phase[m] = "waiting"
          THEN "resumed" ELSE phase[m]]
  /\ Receive(p)
  /\ UNCHANGED <<chunkAcks, chunks, received>>

Loaded(p, c) ==
  IF c \in DOMAIN chunks[p] THEN chunks[p][c] ELSE [buffers |-> <<>>, loaded |-> 0]

(* A chunk is acknowledged at once. With the last one the whole buffer is  *)
(* handed out; the reader then forgets the chunks, and deletes the entry   *)
(* of its own chunkAcks, which is keyed by message ids, at the chunk id.   *)
GotChunk(p, packet) ==
  LET now == [buffers |-> Append(Loaded(p, packet.chunk).buffers, packet.v),
              loaded |-> Loaded(p, packet.chunk).loaded + packet.v.len]
  IN
  /\ packet.type = "chunk"
  /\ net' = [net EXCEPT ![p] = Tail(@), ![Other(p)] = Append(@, Ack(packet.id))]
  /\ IF now.loaded = packet.total
     THEN /\ chunks' = [chunks EXCEPT ![p] = DeleteEntry(@, packet.chunk)]
          /\ chunkAcks' = [chunkAcks EXCEPT ![p] = DeleteEntry(@, packet.chunk)]
          /\ received' = [received EXCEPT ![p] = Append(@, now.buffers)]
     ELSE /\ chunks' = [chunks EXCEPT ![p] = SetEntry(@, packet.chunk, now)]
          /\ UNCHANGED <<chunkAcks, received>>
  /\ UNCHANGED phase

GotPacket(p) ==
  /\ net[p] # <<>>
  /\ \/ GotMessage(p, Head(net[p]))
     \/ GotAck(p, Head(net[p]))
     \/ GotChunk(p, Head(net[p]))
  /\ UNCHANGED <<offset, chunkOf, writtenOn, chunkId, connection, leftover>>

(* The connection breaks and the client connects again. What was on its    *)
(* way is lost. Of the old objects only the client's reader stays.         *)
Reconnect ==
  /\ connection < MaxDisconnects
  /\ connection' = connection + 1
  /\ leftover' = (leftover \/ chunks["client"] # NoEntries)
  /\ net' = [p \in Peers |-> <<>>]
  /\ chunkId' = [p \in Peers |-> 0]
  /\ chunkAcks' = [chunkAcks EXCEPT !["server"] = NoEntries]
  /\ chunks' = [chunks EXCEPT !["server"] = NoEntries]
  /\ UNCHANGED <<phase, offset, chunkOf, writtenOn, received>>

ChunksNext ==
  \/ \E m \in Messages : Write(m) \/ Continue(m)
  \/ \E p \in Peers : GotPacket(p)
  \/ Reconnect

ChunksSpec == ChunksInit /\ [][ChunksNext]_chunkVars

(* TCP delivers what was sent; continuations run. *)
ChunksFairness ==
  /\ \A m \in Messages : WF_chunkVars(Continue(m))
  /\ \A p \in Peers : WF_chunkVars(GotPacket(p))

ChunksFairSpec == ChunksSpec /\ ChunksFairness
-----------------------------------------------------------------------------
Piece == [msg : Messages, at : Nat, len : Nat \ {0}]

ChunksTypeOK ==
  /\ phase \in [Messages -> {"new", "waiting", "resumed", "done"}]
  /\ \A m \in Messages : offset[m] \in 0 .. ByteLength[m]
  /\ chunkOf \in [Messages -> Nat] /\ writtenOn \in [Messages -> 0 .. connection]
  /\ chunkId \in [Peers -> Nat]
  /\ \A p \in Peers :
       /\ \A id \in DOMAIN chunkAcks[p] : chunkAcks[p][id] \in [msg : Messages, upTo : Nat]
       /\ \A c \in DOMAIN chunks[p] : chunks[p][c].buffers \in Seq(Piece)
       /\ received[p] \in Seq(Seq(Piece))
  /\ connection \in 0 .. MaxDisconnects
  /\ leftover \in BOOLEAN

(* buffer is the first part of m: pieces of m, in order, without a gap. *)
PartOf(m, buffer) ==
  /\ buffer # <<>>
  /\ buffer[1].at = 0
  /\ \A k \in 1 .. Len(buffer) : buffer[k].msg = m
  /\ \A k \in 2 .. Len(buffer) : buffer[k].at = buffer[k - 1].at + buffer[k - 1].len

IsWhole(m, buffer) == PartOf(m, buffer) /\ buffer[Len(buffer)].at + buffer[Len(buffer)].len = ByteLength[m]

(* A peer only gets whole messages of the other one, however their chunks  *)
(* interleave, and each at most once. writer.ts:98 says of RpcMessageWriter*)
(* "It automatically chunks long messages into multiple smaller one".      *)
DeliversWhole ==
  \A p \in Peers :
    /\ \A k \in 1 .. Len(received[p]) :
         \E m \in Messages : From[m] = Other(p) /\ IsWhole(m, received[p][k])
    /\ \A j, k \in 1 .. Len(received[p]) :
         received[p][j][1].msg = received[p][k][1].msg => j = k

(* The same, as long as the client never reconnects in the middle of a     *)
(* large answer.                                                           *)
FreshDeliversWhole == leftover \/ DeliversWhole

(* The reader keeps nothing but the first parts of messages it has not yet *)
(* delivered.                                                              *)
KeepsUnfinished ==
  leftover \/ \A p \in Peers : \A c \in DOMAIN chunks[p] :
    \E m \in Messages :
      /\ From[m] = Other(p) /\ chunkOf[m] = c
      /\ PartOf(m, chunks[p][c].buffers) /\ ~IsWhole(m, chunks[p][c].buffers)
      /\ \A k \in 1 .. Len(received[p]) : received[p][k][1].msg # m

(* The chunks of m, and the acks for its id, that are on their way. *)
InFlight(m) ==
  Cardinality({k \in 1 .. Len(net[Other(From[m])]) :
                 LET packet == net[Other(From[m])][k]
                 IN packet.type = "chunk" /\ packet.v.msg = m})
  + Cardinality({k \in 1 .. Len(net[From[m]]) : net[From[m]][k] = Ack(MsgId[m])})

(* Flow control: a large message never has more than one chunk on its way  *)
(* that is not acknowledged, and none once its writer goes on.             *)
OneChunkInFlight ==
  \A m \in Messages : Large(m) => InFlight(m) <= (IF phase[m] = "waiting" THEN 1 ELSE 0)

Arrived(m) ==
  \E k \in 1 .. Len(received[Other(From[m])]) : received[Other(From[m])][k][1].msg = m

(* Every message that is written arrives, unless its connection breaks.    *)
(* writer.ts:98 as above.                                                  *)
WrittenArrives ==
  \A m \in Messages :
    phase[m] # "new" ~> Arrived(m) \/ writtenOn[m] # connection \/ leftover

(* All that holds at any moment: chunks are put together to whole messages,*)
(* nothing else is kept, and no writer runs ahead of the acks.             *)
ChunksSafety ==
  /\ ChunksTypeOK
  /\ FreshDeliversWhole
  /\ KeepsUnfinished
  /\ OneChunkInFlight
=============================================================================
