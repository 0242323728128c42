--------------------------- MODULE RpcChunksProofs ---------------------------
(***************************************************************************)
(* The layer of chunks puts messages together, for all messages, lengths,  *)
(* sizes of chunks and any number of broken connections. One part of the   *)
(* invariant says of each large message which of its bytes the reader has, *)
(* which are on their way and which the writer still keeps, the other that *)
(* either a chunk or its ack is on its way while the writer waits.         *)
(***************************************************************************)
EXTENDS RpcChunks, SequenceTheorems, FiniteSetTheorems, TLAPS

-----------------------------------------------------------------------------
(* What is on its way, and what a reader has.                              *)
Packet ==
  [type : {"message"}, buffer : Seq(Piece)] \cup [type : {"ack"}, id : Nat]
    \cup [type : {"chunk"}, id : Nat, chunk : Nat, total : Nat, v : Piece]

ChunkKinds ==
  /\ phase \in [Messages -> {"new", "waiting", "resumed", "done"}]
  /\ offset \in [Messages -> Nat] /\ chunkOf \in [Messages -> Nat] /\ writtenOn \in [Messages -> Nat]
  /\ \A m \in Messages : offset[m] <= ByteLength[m] /\ writtenOn[m] <= connection
  /\ chunkId \in [Peers -> Nat]
  /\ DOMAIN chunkAcks = Peers
  /\ \A p \in Peers : \A id \in DOMAIN chunkAcks[p] : chunkAcks[p][id] \in [msg : Messages, upTo : Nat]
  /\ DOMAIN chunks = Peers
  /\ \A p \in Peers : \A c \in DOMAIN chunks[p] : chunks[p][c] \in [buffers : Seq(Piece), loaded : Nat]
  /\ net \in [Peers -> Seq(Packet)]
  /\ received \in [Peers -> Seq(Seq(Piece))]
  /\ connection \in 0 .. MaxDisconnects /\ leftover \in BOOLEAN

(* m is written on the connection of now. *)
Current(m) == phase[m] # "new" /\ writtenOn[m] = connection

ChunkOf(p, k, m) == k \in 1 .. Len(net[p]) /\ net[p][k].type = "chunk" /\ net[p][k].v.msg = m
Begin(p, k) == net[p][k].v.at
End(p, k) == net[p][k].v.at + net[p][k].v.len

Phases ==
  \A m \in Messages :
    /\ phase[m] = "new" => offset[m] = 0
    /\ phase[m] \in {"waiting", "resumed"} => Large(m)

(* Large messages of one peer have different chunk ids.                    *)
OwnChunks ==
  \A m \in Messages : Large(m) /\ Current(m) =>
    /\ chunkOf[m] < chunkId[From[m]]
    /\ \A n \in Messages : Large(n) /\ Current(n) /\ From[n] = From[m] /\ chunkOf[n] = chunkOf[m] => n = m

(* Packets are of messages of the other peer, written on this connection.  *)
Packets ==
  \A p \in Peers : \A k \in 1 .. Len(net[p]) :
    /\ \A m \in Messages : ChunkOf(p, k, m) =>
         /\ From[m] = Other(p) /\ Large(m) /\ Current(m)
         /\ net[p][k].id = MsgId[m] /\ net[p][k].chunk = chunkOf[m] /\ net[p][k].total = ByteLength[m]
         /\ End(p, k) <= offset[m]
    /\ net[p][k].type = "message" =>
         \E m \in Messages : net[p][k] = Small(m) /\ From[m] = Other(p) /\ ~ Large(m) /\ Current(m)

Base == ChunkKinds /\ Phases /\ OwnChunks /\ Packets

(* Up to which byte the reader has m.                                      *)
Expected(m) ==
  LET p == Other(From[m])
  IN IF Arrived(m) THEN ByteLength[m] ELSE IF chunkOf[m] \in DOMAIN chunks[p] THEN chunks[p][chunkOf[m]].loaded ELSE 0

(* The chunks of m on their way follow what the reader has, one by one, up *)
(* to where its writer is.                                                 *)
Lined(m) ==
  LET p == Other(From[m])
  IN /\ \A j, k \in 1 .. Len(net[p]) : j < k /\ ChunkOf(p, j, m) /\ ChunkOf(p, k, m) => End(p, j) <= Begin(p, k)
     /\ \A k \in 1 .. Len(net[p]) : ChunkOf(p, k, m) =>
          \/ Begin(p, k) = Expected(m)
          \/ \E j \in 1 .. Len(net[p]) : j < k /\ ChunkOf(p, j, m) /\ End(p, j) = Begin(p, k)
     /\ \/ offset[m] = Expected(m)
        \/ \E k \in 1 .. Len(net[p]) : ChunkOf(p, k, m) /\ End(p, k) = offset[m]

(* What the reader keeps is the beginning of a message.                    *)
Keeps(p, c, m) ==
  LET entry == chunks[p][c]
  IN /\ From[m] = Other(p) /\ Large(m) /\ Current(m) /\ chunkOf[m] = c /\ ~ Arrived(m)
     /\ PartOf(m, entry.buffers) /\ entry.loaded < ByteLength[m]
     /\ entry.loaded = entry.buffers[Len(entry.buffers)].at + entry.buffers[Len(entry.buffers)].len
KeepsParts == \A p \in Peers : \A c \in DOMAIN chunks[p] : \E m \in Messages : Keeps(p, c, m)

(* What it handed out is whole, and was handed out once. A small message   *)
(* that is on its way was not, and is there once.                          *)
HandsOut(p, k, m) == From[m] = Other(p) /\ phase[m] # "new" /\ IsWhole(m, received[p][k])
WholeAndOnce ==
  \A p \in Peers :
    /\ \A k \in 1 .. Len(received[p]) : \E m \in Messages : HandsOut(p, k, m)
    /\ \A j, k \in 1 .. Len(received[p]) : received[p][j][1].msg = received[p][k][1].msg => j = k
SmallOnce ==
  \A m \in Messages :
    LET p == Other(From[m]) IN
    /\ \A k \in 1 .. Len(net[p]) : net[p][k] = Small(m) => ~ Arrived(m)
    /\ \A j, k \in 1 .. Len(net[p]) : net[p][j] = Small(m) /\ net[p][k] = Small(m) => j = k

Content ==
  /\ \A m \in Messages : Large(m) /\ Current(m) => Lined(m)
  /\ KeepsParts /\ WholeAndOnce /\ SmallOnce

ChunkInv == Base /\ (leftover \/ Content)

(* Messages of one peer have ids of their own: an observable sends no two  *)
(* large values at once (see the run chunks_one_call).                     *)
OwnIds == \A m, n \in Messages : From[m] = From[n] /\ MsgId[m] = MsgId[n] => m = n

(* A chunk or its ack is on its way, never both, while its writer waits.   *)
AckOf(m, k) == k \in 1 .. Len(net[From[m]]) /\ net[From[m]][k] = Ack(MsgId[m])
InTurn(m) ==
  LET p == Other(From[m])
  IN /\ \A j, k \in 1 .. Len(net[p]) : ChunkOf(p, j, m) /\ ChunkOf(p, k, m) => j = k
     /\ \A j, k \in 1 .. Len(net[From[m]]) : AckOf(m, j) /\ AckOf(m, k) => j = k
     /\ \A j \in 1 .. Len(net[p]), k \in 1 .. Len(net[From[m]]) : ~ (ChunkOf(p, j, m) /\ AckOf(m, k))
     /\ phase[m] # "waiting" =>
          /\ \A j \in 1 .. Len(net[p]) : ~ ChunkOf(p, j, m)
          /\ \A k \in 1 .. Len(net[From[m]]) : ~ AckOf(m, k)

Registered ==
  /\ \A p \in Peers : \A id \in DOMAIN chunkAcks[p] : From[chunkAcks[p][id].msg] = p /\ MsgId[chunkAcks[p][id].msg] = id
  /\ \A p \in Peers : \A k \in 1 .. Len(net[p]) : net[p][k].type = "ack" =>
       \E m \in Messages : AckOf(m, k) /\ From[m] = p /\ Large(m) /\ Current(m)

FlowInv == Registered /\ \A m \in Messages : Large(m) => InTurn(m)
-----------------------------------------------------------------------------
LEMMA PeersAre == \A p \in Peers : Other(p) \in Peers /\ Other(p) # p /\ Other(Other(p)) = p
BY DEF Peers, Other

LEMMA FromPeers == \A m \in Messages : From[m] \in Peers /\ Other(From[m]) \in Peers /\ Other(From[m]) # From[m]
BY ChunksAssumption, PeersAre

(* A queue of packets with one more behind, and without its first.         *)
LEMMA PacketBehind ==
  ASSUME NEW S, NEW q \in Seq(S), NEW x \in S
  PROVE  /\ Append(q, x) \in Seq(S) /\ Len(Append(q, x)) = Len(q) + 1 /\ Len(q) \in Nat
         /\ \A i \in 1 .. Len(q) : Append(q, x)[i] = q[i]
         /\ Append(q, x)[Len(q) + 1] = x
OBVIOUS

LEMMA FirstPacket ==
  ASSUME NEW S, NEW q \in Seq(S), q # <<>>
  PROVE  /\ Tail(q) \in Seq(S) /\ Len(Tail(q)) = Len(q) - 1 /\ Len(q) \in Nat \ {0}
         /\ \A i \in 1 .. Len(q) - 1 : Tail(q)[i] = q[i + 1]
         /\ Head(q) = q[1] /\ Head(q) \in S /\ 1 \in 1 .. Len(q)
OBVIOUS

LEMMA SliceIs ==
  ASSUME NEW m \in Messages, NEW from \in Nat, from < ByteLength[m]
  PROVE  /\ Slice(m, from) \in Piece
         /\ Slice(m, from).msg = m /\ Slice(m, from).at = from
         /\ Slice(m, from).len \in Nat \ {0} /\ from + Slice(m, from).len <= ByteLength[m]
<1>1. ByteLength[m] \in Nat \ {0} /\ ChunkSize \in Nat \ {0}
  BY ChunksAssumption
<1>. DEFINE len == IF ByteLength[m] - from < ChunkSize THEN ByteLength[m] - from ELSE ChunkSize
<1>2. len \in Nat \ {0} /\ from + len <= ByteLength[m]
  BY <1>1
<1>3. Slice(m, from) = [msg |-> m, at |-> from, len |-> len]
  BY DEF Slice
<1>. HIDE DEF len
<1>. QED
  BY <1>2, <1>3 DEF Piece

(* A piece put behind the beginning of a message that goes up to it.       *)
LEMMA PartGrows ==
  ASSUME NEW m \in Messages, NEW buffers \in Seq(Piece), NEW v \in Piece, v.msg = m,
         buffers = <<>> => v.at = 0,
         buffers # <<>> => PartOf(m, buffers) /\ v.at = buffers[Len(buffers)].at + buffers[Len(buffers)].len
  PROVE  /\ Append(buffers, v) \in Seq(Piece)
         /\ PartOf(m, Append(buffers, v))
         /\ Append(buffers, v)[Len(Append(buffers, v))] = v
         /\ Append(buffers, v)[1].msg = m
<1>. DEFINE more == Append(buffers, v)
            n == Len(buffers)
<1>1. /\ more \in Seq(Piece) /\ Len(more) = n + 1 /\ n \in Nat
      /\ \A i \in 1 .. n : more[i] = buffers[i]
      /\ more[n + 1] = v
  BY PacketBehind
<1>2. buffers = <<>> <=> n = 0
  OBVIOUS
<1>. HIDE DEF more, n
<1>3. more # <<>>
  BY <1>1
<1>4. CASE n = 0
  BY <1>1, <1>2, <1>3, <1>4 DEF PartOf, more
<1>5. CASE n # 0
  <2>1. /\ buffers[1].at = 0
        /\ \A k \in 1 .. n : buffers[k].msg = m
        /\ \A k \in 2 .. n : buffers[k].at = buffers[k - 1].at + buffers[k - 1].len
        /\ v.at = buffers[n].at + buffers[n].len
    BY <1>2, <1>5 DEF PartOf, n
  <2>2. more[1].at = 0 /\ more[1].msg = m
    BY <1>1, <1>5, <2>1
  <2>3. \A k \in 1 .. n + 1 : more[k].msg = m
    BY <1>1, <2>1
  <2>4. \A k \in 2 .. n + 1 : more[k].at = more[k - 1].at + more[k - 1].len
    BY <1>1, <1>5, <2>1
  <2>. QED
    BY <1>1, <1>3, <2>2, <2>3, <2>4 DEF PartOf, more
<1>. QED
  BY <1>4, <1>5

-----------------------------------------------------------------------------
(* The beginning.                                                          *)
LEMMA ChunksBegin == ChunksInit => ChunkInv /\ FlowInv
<1>. SUFFICES ASSUME ChunksInit PROVE ChunkInv /\ FlowInv
  OBVIOUS
<1>1. \A p \in Peers : net[p] = <<>> /\ Len(net[p]) = 0 /\ received[p] = <<>> /\ Len(received[p]) = 0
  BY DEF ChunksInit
<1>2. \A p \in Peers : DOMAIN chunks[p] = {} /\ DOMAIN chunkAcks[p] = {}
  BY DEF ChunksInit, NoEntries
<1>3. \A m \in Messages : phase[m] = "new" /\ offset[m] = 0 /\ writtenOn[m] = 0 /\ connection = 0
  BY DEF ChunksInit
<1>4. ChunkKinds
  <2>1. /\ phase \in [Messages -> {"new", "waiting", "resumed", "done"}]
        /\ offset \in [Messages -> Nat] /\ chunkOf \in [Messages -> Nat] /\ writtenOn \in [Messages -> Nat]
        /\ chunkId \in [Peers -> Nat] /\ DOMAIN chunkAcks = Peers /\ DOMAIN chunks = Peers
        /\ leftover \in BOOLEAN /\ connection = 0
    BY DEF ChunksInit
  <2>2. net \in [Peers -> Seq(Packet)] /\ received \in [Peers -> Seq(Seq(Piece))]
    BY DEF ChunksInit
  <2>3. connection \in 0 .. MaxDisconnects
    BY <2>1, ChunksAssumption
  <2>4. \A m \in Messages : offset[m] <= ByteLength[m] /\ writtenOn[m] <= connection
    BY <1>3, ChunksAssumption
  <2>. QED
    BY <1>2, <2>1, <2>2, <2>3, <2>4 DEF ChunkKinds
<1>5. Phases /\ OwnChunks /\ Packets
  BY <1>1, <1>3 DEF Phases, OwnChunks, Packets, Current
<1>6. Content
  BY <1>1, <1>2, <1>3, FromPeers DEF Content, KeepsParts, WholeAndOnce, SmallOnce, Current
<1>7. FlowInv
  BY <1>1, <1>2, <1>3, FromPeers DEF FlowInv, Registered, InTurn, ChunkOf, AckOf
<1>. QED
  BY <1>4, <1>5, <1>6, <1>7 DEF ChunkInv, Base

-----------------------------------------------------------------------------
(* A writer sends its next chunk: with its first it takes an id.           *)
Sends(m) ==
  /\ Large(m) /\ offset[m] < ByteLength[m]
  /\ phase' = [phase EXCEPT ![m] = "waiting"]
  /\ offset' = [offset EXCEPT ![m] = offset[m] + Slice(m, offset[m]).len]
  /\ RegisterAck(m) /\ SendPacket(m, Chunk(m, chunkOf'[m]))
  /\ UNCHANGED <<chunks, received, connection, leftover>>
  /\ \/ /\ phase[m] = "new"
        /\ writtenOn' = [writtenOn EXCEPT ![m] = connection]
        /\ chunkOf' = [chunkOf EXCEPT ![m] = chunkId[From[m]]]
        /\ chunkId' = [chunkId EXCEPT ![From[m]] = chunkId[From[m]] + 1]
     \/ phase[m] = "resumed" /\ UNCHANGED <<writtenOn, chunkOf, chunkId>>

LEMMA WritesLarge ==
  ASSUME Base, NEW m \in Messages, Write(m), WriteLarge(m)
  PROVE  Sends(m)
<1>1. offset[m] = 0 /\ ByteLength[m] > 0 /\ Large(m)
  BY ChunksAssumption DEF Base, Phases, Write, WriteLarge
<1>2. chunkOf'[m] = chunkId[From[m]]
  BY DEF WriteLarge, Base, ChunkKinds
<1>. QED
  BY <1>1, <1>2 DEF Write, WriteLarge, SendChunk, Sends

LEMMA Continues ==
  ASSUME Base, NEW m \in Messages, Continue(m)
  PROVE  \/ Sends(m)
         \/ /\ phase[m] = "resumed" /\ phase' = [phase EXCEPT ![m] = "done"]
            /\ UNCHANGED <<offset, chunkOf, writtenOn, chunkId, chunkAcks, chunks, net, received, connection, leftover>>
<1>1. Large(m) /\ phase[m] = "resumed"
  BY DEF Base, Phases, Continue
<1>2. UNCHANGED <<chunkOf, writtenOn, chunkId, chunks, received, connection, leftover>>
  BY DEF Continue
<1>3. CASE offset[m] < ByteLength[m]
  BY <1>1, <1>2, <1>3 DEF Continue, SendChunk, Sends
<1>4. CASE ~ (offset[m] < ByteLength[m])
  BY <1>1, <1>2, <1>4 DEF Continue
<1>. QED
  BY <1>3, <1>4

(* What that does to m, and to its queue.                                  *)
SentChunk(m) == Chunk(m, chunkOf'[m])

LEMMA SendsOne ==
  ASSUME Base, NEW m \in Messages, Sends(m)
  PROVE  /\ Large(m) /\ phase[m] \in {"new", "resumed"} /\ phase'[m] = "waiting"
         /\ offset[m] \in Nat /\ offset'[m] \in Nat /\ offset[m] < offset'[m] /\ offset'[m] <= ByteLength[m]
         /\ SentChunk(m) \in Packet /\ SentChunk(m).type = "chunk" /\ SentChunk(m).id = MsgId[m]
         /\ SentChunk(m).chunk = chunkOf'[m] /\ SentChunk(m).total = ByteLength[m]
         /\ SentChunk(m).v \in Piece /\ SentChunk(m).v.msg = m
         /\ SentChunk(m).v.at = offset[m] /\ SentChunk(m).v.at + SentChunk(m).v.len = offset'[m]
         /\ chunkOf'[m] \in Nat /\ writtenOn'[m] \in Nat /\ writtenOn'[m] <= connection
         /\ phase[m] = "resumed" => chunkOf'[m] = chunkOf[m] /\ writtenOn'[m] = writtenOn[m] /\ chunkId' = chunkId
         /\ phase[m] = "new" => /\ chunkOf'[m] = chunkId[From[m]] /\ writtenOn'[m] = connection
                                /\ chunkId'[From[m]] = chunkId[From[m]] + 1
         /\ \A n \in Messages \ {m} :
              /\ phase'[n] = phase[n] /\ offset'[n] = offset[n] /\ chunkOf'[n] = chunkOf[n] /\ writtenOn'[n] = writtenOn[n]
              /\ Current(n)' = Current(n)
         /\ Current(m)' <=> writtenOn'[m] = connection
         /\ Current(m) => Current(m)'
<1>1. /\ offset[m] \in Nat /\ chunkOf[m] \in Nat /\ writtenOn[m] \in Nat /\ writtenOn[m] <= connection
      /\ chunkId[From[m]] \in Nat /\ connection \in Nat /\ From[m] \in Peers
      /\ MsgId[m] \in Nat /\ ByteLength[m] \in Nat \ {0}
  BY FromPeers, ChunksAssumption DEF Base, ChunkKinds
<1>2. /\ phase'[m] = "waiting" /\ offset'[m] = offset[m] + Slice(m, offset[m]).len
      /\ Large(m) /\ offset[m] < ByteLength[m] /\ connection' = connection
      /\ \A n \in Messages \ {m} : phase'[n] = phase[n] /\ offset'[n] = offset[n]
  BY DEF Sends, Base, ChunkKinds
<1>3. /\ Slice(m, offset[m]) \in Piece /\ Slice(m, offset[m]).msg = m /\ Slice(m, offset[m]).at = offset[m]
      /\ Slice(m, offset[m]).len \in Nat \ {0} /\ offset[m] + Slice(m, offset[m]).len <= ByteLength[m]
  BY <1>1, <1>2, SliceIs
<1>4. \/ /\ phase[m] = "new" /\ chunkOf'[m] = chunkId[From[m]] /\ writtenOn'[m] = connection
         /\ chunkId'[From[m]] = chunkId[From[m]] + 1
      \/ phase[m] = "resumed" /\ chunkOf'[m] = chunkOf[m] /\ writtenOn'[m] = writtenOn[m] /\ chunkId' = chunkId
  BY <1>1 DEF Sends, Base, ChunkKinds
<1>5. \A n \in Messages \ {m} : chunkOf'[n] = chunkOf[n] /\ writtenOn'[n] = writtenOn[n]
  BY DEF Sends, Base, ChunkKinds
<1>6. SentChunk(m) = [type |-> "chunk", id |-> MsgId[m], chunk |-> chunkOf'[m], total |-> ByteLength[m], v |-> Slice(m, offset[m])]
  BY DEF SentChunk, Chunk
<1>7. chunkOf'[m] \in Nat
  BY <1>1, <1>4
<1>8. SentChunk(m) \in Packet
  BY <1>1, <1>3, <1>6, <1>7 DEF Packet
<1>9. /\ SentChunk(m).type = "chunk" /\ SentChunk(m).id = MsgId[m] /\ SentChunk(m).chunk = chunkOf'[m]
      /\ SentChunk(m).total = ByteLength[m] /\ SentChunk(m).v = Slice(m, offset[m])
  BY <1>6
<1>10. /\ SentChunk(m).v \in Piece /\ SentChunk(m).v.msg = m
       /\ SentChunk(m).v.at = offset[m] /\ SentChunk(m).v.at + SentChunk(m).v.len = offset'[m]
  BY <1>2, <1>3, <1>9
<1>11. writtenOn'[m] \in Nat /\ writtenOn'[m] <= connection
  BY <1>1, <1>4
<1>12. /\ \A n \in Messages \ {m} : Current(n)' = Current(n)
       /\ Current(m)' <=> writtenOn'[m] = connection
       /\ Current(m) => Current(m)'
  BY <1>2, <1>4, <1>5 DEF Current
<1>13. offset'[m] \in Nat /\ offset[m] < offset'[m] /\ offset'[m] <= ByteLength[m]
  BY <1>1, <1>2, <1>3
<1>14. phase[m] \in {"new", "resumed"}
  BY <1>4
<1>. QED
  BY <1>1, <1>2, <1>4, <1>5, <1>7, <1>8, <1>9, <1>10, <1>11, <1>12, <1>13, <1>14

LEMMA SendsTo ==
  ASSUME Base, NEW m \in Messages, Sends(m)
  PROVE  LET p == Other(From[m])
         IN /\ \A o \in Peers \ {p} : net'[o] = net[o]
            /\ Current(m)' =>
                 /\ Len(net'[p]) = Len(net[p]) + 1 /\ Len(net[p]) \in Nat
                 /\ net'[p][Len(net[p]) + 1] = SentChunk(m)
                 /\ \A k \in 1 .. Len(net[p]) : net'[p][k] = net[p][k]
            /\ ~ Current(m)' => net' = net
            /\ net' \in [Peers -> Seq(Packet)]
<1>. DEFINE p == Other(From[m])
<1>1. /\ p \in Peers /\ net \in [Peers -> Seq(Packet)] /\ SentChunk(m) \in Packet
      /\ Current(m)' <=> writtenOn'[m] = connection
  BY FromPeers, SendsOne DEF Base, ChunkKinds
<1>2. CASE Current(m)'
  <2>1. net' = [net EXCEPT ![p] = Append(net[p], SentChunk(m))]
    BY <1>1, <1>2 DEF Sends, SendPacket, SentChunk
  <2>. HIDE DEF p
  <2>2. /\ net'[p] = Append(net[p], SentChunk(m)) /\ net[p] \in Seq(Packet)
        /\ \A o \in Peers \ {p} : net'[o] = net[o]
    BY <1>1, <2>1
  <2>3. /\ Len(net'[p]) = Len(net[p]) + 1 /\ Len(net[p]) \in Nat
        /\ net'[p][Len(net[p]) + 1] = SentChunk(m)
        /\ \A k \in 1 .. Len(net[p]) : net'[p][k] = net[p][k]
        /\ net'[p] \in Seq(Packet)
    BY <1>1, <2>2, PacketBehind
  <2>4. net' \in [Peers -> Seq(Packet)]
    BY <1>1, <2>1, <2>2, <2>3
  <2>. QED
    BY <1>2, <2>2, <2>3, <2>4 DEF p
<1>3. CASE ~ Current(m)'
  BY <1>1, <1>3 DEF Sends, SendPacket
<1>. QED
  BY <1>2, <1>3

LEMMA Registers ==
  ASSUME Base, NEW m \in Messages, Sends(m)
  PROVE  /\ DOMAIN chunkAcks' = Peers
         /\ \A p \in Peers : \A id \in DOMAIN chunkAcks'[p] :
              \/ p = From[m] /\ id = MsgId[m] /\ chunkAcks'[p][id] = [msg |-> m, upTo |-> offset'[m]]
              \/ id \in DOMAIN chunkAcks[p] /\ chunkAcks'[p][id] = chunkAcks[p][id]
<1>. DEFINE p == From[m]
            more == SetEntry(chunkAcks[p], MsgId[m], [msg |-> m, upTo |-> offset'[m]])
<1>1. DOMAIN chunkAcks = Peers /\ p \in Peers
  BY FromPeers DEF Base, ChunkKinds
<1>2. chunkAcks' = [chunkAcks EXCEPT ![p] = more] \/ chunkAcks' = chunkAcks
  BY DEF Sends, RegisterAck, Waiting
<1>3. \A id \in DOMAIN more :
        \/ id = MsgId[m] /\ more[id] = [msg |-> m, upTo |-> offset'[m]]
        \/ id \in DOMAIN chunkAcks[p] /\ more[id] = chunkAcks[p][id]
  <2>1. /\ DOMAIN more = DOMAIN chunkAcks[p] \cup {MsgId[m]}
        /\ more[MsgId[m]] = [msg |-> m, upTo |-> offset'[m]]
        /\ \A x \in DOMAIN chunkAcks[p] \ {MsgId[m]} : more[x] = chunkAcks[p][x]
    BY DEF SetEntry
  <2>. HIDE DEF more, p
  <2>. QED
    BY <2>1
<1>. HIDE DEF more, p
<1>4. CASE chunkAcks' = chunkAcks
  BY <1>1, <1>4
<1>5. CASE chunkAcks' = [chunkAcks EXCEPT ![p] = more]
  <2>1. DOMAIN chunkAcks' = Peers /\ chunkAcks'[p] = more /\ \A o \in Peers \ {p} : chunkAcks'[o] = chunkAcks[o]
    BY <1>1, <1>5
  <2>. QED
    BY <1>3, <2>1 DEF p
<1>. QED
  BY <1>2, <1>4, <1>5

LEMMA SmallIs ==
  ASSUME NEW m
  PROVE  /\ Small(m).type = "message" /\ Small(m).buffer = <<[msg |-> m, at |-> 0, len |-> ByteLength[m]]>>
         /\ Small(m).buffer[1] = [msg |-> m, at |-> 0, len |-> ByteLength[m]] /\ Small(m).buffer[1].msg = m
         /\ \A n : Small(m) = Small(n) => m = n
<1>1. \A n : Small(n).type = "message" /\ Small(n).buffer[1].msg = n
  BY DEF Small
<1>. QED
  BY <1>1 DEF Small

LEMMA SendsBase ==
  ASSUME Base, NEW m \in Messages, Sends(m)
  PROVE  Base'
<1>. DEFINE q == Other(From[m])
<1>0. From[m] \in Peers /\ q \in Peers
  BY FromPeers
<1>1. /\ Large(m) /\ phase[m] \in {"new", "resumed"} /\ phase'[m] = "waiting"
      /\ offset[m] \in Nat /\ offset'[m] \in Nat /\ offset[m] < offset'[m] /\ offset'[m] <= ByteLength[m]
      /\ chunkOf'[m] \in Nat /\ writtenOn'[m] \in Nat /\ writtenOn'[m] <= connection
      /\ Current(m) => Current(m)'
  BY SendsOne
<1>2. \A n \in Messages \ {m} :
        /\ phase'[n] = phase[n] /\ offset'[n] = offset[n] /\ chunkOf'[n] = chunkOf[n] /\ writtenOn'[n] = writtenOn[n]
        /\ Current(n)' = Current(n)
  BY SendsOne
<1>3. /\ phase[m] = "resumed" => chunkOf'[m] = chunkOf[m] /\ writtenOn'[m] = writtenOn[m] /\ chunkId' = chunkId
      /\ phase[m] = "new" => /\ chunkOf'[m] = chunkId[From[m]] /\ writtenOn'[m] = connection
                             /\ chunkId'[From[m]] = chunkId[From[m]] + 1
  BY SendsOne
<1>4. UNCHANGED <<chunks, received, connection, leftover>>
  BY DEF Sends
<1>5. ChunkKinds'
  <2>1. phase' \in [Messages -> {"new", "waiting", "resumed", "done"}] /\ offset' \in [Messages -> Nat]
    BY <1>1 DEF Sends, Base, ChunkKinds
  <2>2. chunkOf' \in [Messages -> Nat] /\ writtenOn' \in [Messages -> Nat] /\ chunkId' \in [Peers -> Nat]
    <3>1. /\ chunkOf \in [Messages -> Nat] /\ writtenOn \in [Messages -> Nat] /\ chunkId \in [Peers -> Nat]
          /\ chunkId[From[m]] \in Nat /\ connection \in Nat
      BY <1>0, ChunksAssumption DEF Base, ChunkKinds
    <3>2. CASE UNCHANGED <<writtenOn, chunkOf, chunkId>>
      BY <3>1, <3>2
    <3>3. CASE /\ writtenOn' = [writtenOn EXCEPT ![m] = connection]
               /\ chunkOf' = [chunkOf EXCEPT ![m] = chunkId[From[m]]]
               /\ chunkId' = [chunkId EXCEPT ![From[m]] = chunkId[From[m]] + 1]
      <4>1. chunkId[From[m]] + 1 \in Nat
        BY <3>1
      <4>. QED
        BY <3>1, <3>3, <4>1
    <3>. QED
      BY <3>2, <3>3 DEF Sends
  <2>3. \A n \in Messages : offset'[n] <= ByteLength[n] /\ writtenOn'[n] <= connection'
    BY <1>1, <1>2, <1>4 DEF Base, ChunkKinds
  <2>4. \A p \in Peers : \A id \in DOMAIN chunkAcks'[p] : chunkAcks'[p][id] \in [msg : Messages, upTo : Nat]
    <3>1. [msg |-> m, upTo |-> offset'[m]] \in [msg : Messages, upTo : Nat]
      BY <1>1
    <3>2. \A p \in Peers : \A id \in DOMAIN chunkAcks[p] : chunkAcks[p][id] \in [msg : Messages, upTo : Nat]
      BY DEF Base, ChunkKinds
    <3>3. \A p \in Peers : \A id \in DOMAIN chunkAcks'[p] :
            \/ chunkAcks'[p][id] = [msg |-> m, upTo |-> offset'[m]]
            \/ id \in DOMAIN chunkAcks[p] /\ chunkAcks'[p][id] = chunkAcks[p][id]
      BY Registers
    <3>. QED
      BY <3>1, <3>2, <3>3
  <2>5. DOMAIN chunkAcks' = Peers /\ net' \in [Peers -> Seq(Packet)]
    BY Registers, SendsTo
  <2>. QED
    BY <1>4, <2>1, <2>2, <2>3, <2>4, <2>5 DEF Base, ChunkKinds
<1>6. Phases'
  BY <1>1, <1>2 DEF Base, Phases
<1>7. OwnChunks'
  <2>0. /\ \A p \in Peers : chunkId[p] \in Nat /\ chunkId'[p] \in Nat
        /\ \A n \in Messages : chunkOf[n] \in Nat /\ From[n] \in Peers
    BY <1>5, FromPeers DEF Base, ChunkKinds
  <2>1. \A p \in Peers : chunkId[p] <= chunkId'[p]
    <3>1. CASE phase[m] = "resumed"
      BY <1>3, <2>0, <3>1
    <3>2. CASE phase[m] = "new"
      <4>1. chunkId' = [chunkId EXCEPT ![From[m]] = chunkId[From[m]] + 1] /\ chunkId \in [Peers -> Nat]
        BY <3>2 DEF Sends, Base, ChunkKinds
      <4>2. \A p \in Peers : chunkId'[p] = chunkId[p] \/ chunkId'[p] = chunkId[p] + 1
        BY <1>0, <4>1
      <4>. QED
        BY <2>0, <4>2
    <3>. QED
      BY <1>1, <3>1, <3>2
  <2>2. \A n \in Messages \ {m} : Large(n) /\ Current(n)' => Current(n) /\ chunkOf'[n] = chunkOf[n] /\ chunkOf[n] < chunkId[From[n]]
    BY <1>2 DEF Base, OwnChunks
  <2>3. Current(m)' => chunkOf'[m] < chunkId'[From[m]]
    <3>1. CASE phase[m] = "new"
      BY <1>0, <1>3, <2>0, <3>1
    <3>2. CASE phase[m] = "resumed"
      <4>1. Current(m)' => Current(m)
        BY <1>3, <1>4, <3>2 DEF Current
      <4>. QED
        BY <1>1, <1>3, <3>2, <4>1 DEF Base, OwnChunks
    <3>. QED
      BY <1>1, <3>1, <3>2
  <2>4. ASSUME NEW n \in Messages \ {m}, Large(n), Current(n)', Current(m)', From[n] = From[m], chunkOf'[n] = chunkOf'[m]
        PROVE  FALSE
    <3>1. CASE phase[m] = "new"
      BY <1>0, <1>3, <2>0, <2>2, <2>4, <3>1
    <3>2. CASE phase[m] = "resumed"
      <4>1. Current(m)
        BY <1>3, <1>4, <2>4, <3>2 DEF Current
      <4>. QED
        BY <1>1, <1>3, <2>2, <2>4, <3>2, <4>1 DEF Base, OwnChunks
    <3>. QED
      BY <1>1, <3>1, <3>2
  <2>5. \A n \in Messages : Large(n) /\ Current(n)' => chunkOf'[n] < chunkId'[From[n]]
    BY <2>0, <2>1, <2>2, <2>3
  <2>6. \A n, o \in Messages : Large(n) /\ Current(n)' /\ Large(o) /\ Current(o)' /\ From[o] = From[n] /\ chunkOf'[o] = chunkOf'[n] => o = n
    <3>. SUFFICES ASSUME NEW n \in Messages, NEW o \in Messages, n # o, Large(n), Current(n)', Large(o), Current(o)',
                         From[o] = From[n], chunkOf'[o] = chunkOf'[n]
                  PROVE  FALSE
      OBVIOUS
    <3>1. CASE n = m
      BY <2>4, <3>1
    <3>2. CASE o = m
      BY <2>4, <3>2
    <3>3. CASE n # m /\ o # m
      BY <2>2, <3>3 DEF Base, OwnChunks
    <3>. QED
      BY <3>1, <3>2, <3>3
  <2>. QED
    BY <2>5, <2>6 DEF OwnChunks
<1>8. Packets'
  <2>. SUFFICES ASSUME NEW p \in Peers, NEW k \in 1 .. Len(net'[p])
                PROVE  /\ \A n \in Messages : ChunkOf(p, k, n)' =>
                            /\ From[n] = Other(p) /\ Large(n) /\ Current(n)'
                            /\ net'[p][k].id = MsgId[n] /\ net'[p][k].chunk = chunkOf'[n] /\ net'[p][k].total = ByteLength[n]
                            /\ End(p, k)' <= offset'[n]
                       /\ net'[p][k].type = "message" =>
                            \E n \in Messages : net'[p][k] = Small(n) /\ From[n] = Other(p) /\ ~ Large(n) /\ Current(n)'
    BY DEF Packets
  <2>1. CASE k \in 1 .. Len(net[p]) /\ net'[p][k] = net[p][k]
    <3>1. ASSUME NEW n \in Messages, ChunkOf(p, k, n)'
          PROVE  /\ From[n] = Other(p) /\ Large(n) /\ Current(n)'
                 /\ net'[p][k].id = MsgId[n] /\ net'[p][k].chunk = chunkOf'[n] /\ net'[p][k].total = ByteLength[n]
                 /\ End(p, k)' <= offset'[n]
      <4>1. ChunkOf(p, k, n)
        BY <2>1, <3>1 DEF ChunkOf
      <4>2. /\ From[n] = Other(p) /\ Large(n) /\ Current(n)
            /\ net[p][k].id = MsgId[n] /\ net[p][k].chunk = chunkOf[n] /\ net[p][k].total = ByteLength[n]
            /\ End(p, k) <= offset[n]
        BY <2>1, <4>1 DEF Base, Packets
      <4>3. End(p, k)' = End(p, k)
        BY <2>1 DEF End
      <4>4. End(p, k) \in Nat
        <5>1. net[p][k] \in Packet
          BY <2>1 DEF Base, ChunkKinds
        <5>. QED
          BY <4>1, <5>1 DEF Packet, Piece, End, ChunkOf
      <4>5. CASE n = m
        <5>1. phase[m] = "resumed"
          BY <1>1, <4>2, <4>5 DEF Current
        <5>. QED
          BY <1>1, <1>3, <2>1, <4>2, <4>3, <4>4, <4>5, <5>1
      <4>6. CASE n # m
        BY <1>2, <2>1, <4>2, <4>3, <4>6
      <4>. QED
        BY <4>5, <4>6
    <3>2. ASSUME net'[p][k].type = "message"
          PROVE  \E n \in Messages : net'[p][k] = Small(n) /\ From[n] = Other(p) /\ ~ Large(n) /\ Current(n)'
      <4>1. PICK n \in Messages : net[p][k] = Small(n) /\ From[n] = Other(p) /\ ~ Large(n) /\ Current(n)
        BY <2>1, <3>2 DEF Base, Packets
      <4>2. n # m
        BY <1>1, <4>1
      <4>. QED
        BY <1>2, <2>1, <4>1, <4>2
    <3>. QED
      BY <3>1, <3>2
  <2>2. CASE p = q /\ Current(m)' /\ net'[p][k] = SentChunk(m)
    <3>1. /\ net'[p][k].type = "chunk" /\ net'[p][k].id = MsgId[m] /\ net'[p][k].chunk = chunkOf'[m] /\ net'[p][k].total = ByteLength[m]
          /\ net'[p][k].v.msg = m /\ net'[p][k].v.at + net'[p][k].v.len = offset'[m]
      BY <2>2, SendsOne
    <3>2. From[m] = Other(p)
      BY <1>0, <2>2, PeersAre
    <3>3. \A n \in Messages : ChunkOf(p, k, n)' => n = m
      BY <3>1 DEF ChunkOf
    <3>4. End(p, k)' <= offset'[m]
      BY <1>1, <3>1 DEF End
    <3>. QED
      BY <1>1, <2>2, <3>1, <3>2, <3>3, <3>4
  <2>3. \/ k \in 1 .. Len(net[p]) /\ net'[p][k] = net[p][k]
        \/ p = q /\ Current(m)' /\ net'[p][k] = SentChunk(m)
    BY SendsTo
  <2>. QED
    BY <2>1, <2>2, <2>3
<1>. QED
  BY <1>5, <1>6, <1>7, <1>8 DEF Base

(* Messages whose chunks stay where they are, or move up by one.           *)
LEMMA StillLined ==
  ASSUME NEW m \in Messages, NEW d \in {0, 1}, NEW p, p = Other(From[m]), Lined(m),
         Len(net[p]) \in Nat, Len(net'[p]) \in Nat,
         offset'[m] = offset[m], Expected(m)' = Expected(m),
         \A k \in 1 .. Len(net[p]) : ChunkOf(p, k, m) => k - d \in 1 .. Len(net'[p]) /\ net'[p][k - d] = net[p][k],
         \A k \in 1 .. Len(net'[p]) : ChunkOf(p, k, m)' => k + d \in 1 .. Len(net[p]) /\ net'[p][k] = net[p][k + d]
  PROVE  Lined(m)'
<1>1. \A k \in 1 .. Len(net'[p]) : ChunkOf(p, k, m)' =>
        /\ k + d \in 1 .. Len(net[p]) /\ ChunkOf(p, k + d, m)
        /\ Begin(p, k)' = Begin(p, k + d) /\ End(p, k)' = End(p, k + d)
  BY DEF ChunkOf, Begin, End
<1>2. \A k \in 1 .. Len(net[p]) : ChunkOf(p, k, m) =>
        /\ k - d \in 1 .. Len(net'[p]) /\ ChunkOf(p, k - d, m)'
        /\ End(p, k - d)' = End(p, k)
  BY DEF ChunkOf, End
<1>3. /\ \A j, k \in 1 .. Len(net[p]) : j < k /\ ChunkOf(p, j, m) /\ ChunkOf(p, k, m) => End(p, j) <= Begin(p, k)
      /\ \A k \in 1 .. Len(net[p]) : ChunkOf(p, k, m) =>
           \/ Begin(p, k) = Expected(m)
           \/ \E j \in 1 .. Len(net[p]) : j < k /\ ChunkOf(p, j, m) /\ End(p, j) = Begin(p, k)
      /\ \/ offset[m] = Expected(m)
         \/ \E k \in 1 .. Len(net[p]) : ChunkOf(p, k, m) /\ End(p, k) = offset[m]
  BY DEF Lined
<1>4. \A j, k \in 1 .. Len(net'[p]) : j < k /\ ChunkOf(p, j, m)' /\ ChunkOf(p, k, m)' => End(p, j)' <= Begin(p, k)'
  BY <1>1, <1>3
<1>5. ASSUME NEW k \in 1 .. Len(net'[p]), ChunkOf(p, k, m)', Begin(p, k)' # Expected(m)'
      PROVE  \E j \in 1 .. Len(net'[p]) : j < k /\ ChunkOf(p, j, m)' /\ End(p, j)' = Begin(p, k)'
  <2>1. k + d \in 1 .. Len(net[p]) /\ ChunkOf(p, k + d, m) /\ Begin(p, k)' = Begin(p, k + d)
    BY <1>1, <1>5
  <2>2. PICK j \in 1 .. Len(net[p]) : j < k + d /\ ChunkOf(p, j, m) /\ End(p, j) = Begin(p, k + d)
    BY <1>3, <1>5, <2>1
  <2>3. j - d \in 1 .. Len(net'[p]) /\ ChunkOf(p, j - d, m)' /\ End(p, j - d)' = End(p, j) /\ j - d < k
    BY <1>2, <2>2
  <2>. QED
    BY <2>1, <2>2, <2>3
<1>6. \/ offset'[m] = Expected(m)'
      \/ \E k \in 1 .. Len(net'[p]) : ChunkOf(p, k, m)' /\ End(p, k)' = offset'[m]
  BY <1>2, <1>3
<1>. QED
  BY <1>4, <1>5, <1>6 DEF Lined

LEMMA SendsContent ==
  ASSUME Base, Content, NEW m \in Messages, Sends(m)
  PROVE  Content'
<1>. DEFINE q == Other(From[m])
<1>0. From[m] \in Peers /\ q \in Peers
  BY FromPeers
<1>1. /\ Large(m) /\ phase[m] \in {"new", "resumed"} /\ phase'[m] = "waiting"
      /\ offset[m] \in Nat /\ offset'[m] \in Nat /\ offset[m] < offset'[m] /\ offset'[m] <= ByteLength[m]
      /\ Current(m) => Current(m)'
      /\ phase[m] = "resumed" => chunkOf'[m] = chunkOf[m] /\ writtenOn'[m] = writtenOn[m]
      /\ phase[m] = "new" => chunkOf'[m] = chunkId[From[m]]
      /\ SentChunk(m).type = "chunk" /\ SentChunk(m).v.msg = m
      /\ SentChunk(m).v.at = offset[m] /\ SentChunk(m).v.at + SentChunk(m).v.len = offset'[m]
  BY SendsOne
<1>2. \A n \in Messages \ {m} :
        /\ phase'[n] = phase[n] /\ offset'[n] = offset[n] /\ chunkOf'[n] = chunkOf[n]
        /\ Current(n)' = Current(n)
  BY SendsOne
<1>3. UNCHANGED <<chunks, received, connection, leftover>>
  BY DEF Sends
<1>4. \A n \in Messages : Arrived(n)' = Arrived(n)
  BY <1>3 DEF Arrived
<1>5. \A p \in Peers : /\ Len(net[p]) \in Nat /\ Len(net'[p]) \in Nat /\ Len(net[p]) <= Len(net'[p])
                       /\ \A k \in 1 .. Len(net[p]) : net'[p][k] = net[p][k]
                       /\ \A k \in 1 .. Len(net'[p]) : \/ k \in 1 .. Len(net[p])
                                                       \/ /\ p = q /\ Current(m)' /\ net'[p][k] = SentChunk(m)
                                                          /\ k = Len(net[p]) + 1
  <2>1. \A p \in Peers : Len(net[p]) \in Nat
    BY DEF Base, ChunkKinds
  <2>. QED
    BY <2>1, SendsTo
<1>6. ASSUME NEW n \in Messages \ {m}, Large(n), Current(n)'
      PROVE  Lined(n)'
  <2>. DEFINE p == Other(From[n])
  <2>1. p \in Peers /\ Lined(n) /\ offset'[n] = offset[n]
    BY <1>2, <1>6, FromPeers DEF Content
  <2>2. Expected(n)' = Expected(n)
    BY <1>2, <1>3, <1>4 DEF Expected
  <2>3. \A k \in 1 .. Len(net'[p]) : ChunkOf(p, k, n)' => k \in 1 .. Len(net[p])
    BY <1>1, <1>5, <2>1 DEF ChunkOf
  <2>4. 0 \in {0, 1}
    OBVIOUS
  <2>. HIDE DEF p
  <2>5. \A k \in 1 .. Len(net[p]) : k - 0 = k /\ k \in 1 .. Len(net'[p])
    BY <1>5, <2>1
  <2>6. \A k \in 1 .. Len(net'[p]) : k + 0 = k
    BY <1>5, <2>1
  <2>. QED
    BY <1>5, <2>1, <2>2, <2>3, <2>4, <2>5, <2>6, StillLined DEF p
<1>7. ASSUME Current(m)'
      PROVE  Lined(m)'
  <2>1. CASE phase[m] = "new"
    <3>1. \A k \in 1 .. Len(net[q]) : ~ ChunkOf(q, k, m)
      BY <1>0, <2>1 DEF Base, Packets, Current
    <3>2. offset[m] = 0
      BY <2>1 DEF Base, Phases
    <3>3. ~ Arrived(m)
      <4>. SUFFICES ASSUME NEW k \in 1 .. Len(received[q]), received[q][k][1].msg = m PROVE FALSE
        BY DEF Arrived
      <4>1. PICK n \in Messages : HandsOut(q, k, n)
        BY <1>0 DEF Content, WholeAndOnce
      <4>2. received[q][k] # <<>> /\ received[q] \in Seq(Seq(Piece)) /\ received[q][k] \in Seq(Piece)
        BY <1>0, <4>1 DEF HandsOut, IsWhole, PartOf, Base, ChunkKinds
      <4>3. received[q][k][1].msg = n
        BY <4>1, <4>2 DEF HandsOut, IsWhole, PartOf
      <4>. QED
        BY <2>1, <4>1, <4>3 DEF HandsOut
    <3>4. chunkOf'[m] \notin DOMAIN chunks[q]
      <4>. SUFFICES ASSUME chunkOf'[m] \in DOMAIN chunks[q] PROVE FALSE
        OBVIOUS
      <4>1. PICK n \in Messages : Keeps(q, chunkOf'[m], n)
        BY <1>0 DEF Content, KeepsParts
      <4>2. Large(n) /\ Current(n) /\ From[n] = Other(q) /\ chunkOf[n] = chunkId[From[m]]
        BY <1>1, <2>1, <4>1 DEF Keeps
      <4>3. From[n] = From[m]
        BY <1>0, <4>2, PeersAre
      <4>4. chunkOf[n] < chunkId[From[n]] /\ chunkOf[n] \in Nat
        BY <4>2 DEF Base, OwnChunks, ChunkKinds
      <4>. QED
        BY <4>2, <4>3, <4>4
    <3>5. Expected(m)' = 0
      BY <1>3, <1>4, <3>3, <3>4 DEF Expected
    <3>6. PICK last : last = Len(net[q]) + 1
      OBVIOUS
    <3>7. \A k \in 1 .. Len(net'[q]) : ChunkOf(q, k, m)' => k = last
      BY <1>0, <1>5, <3>1, <3>6 DEF ChunkOf
    <3>8. /\ last \in 1 .. Len(net'[q]) /\ last \in Nat /\ ChunkOf(q, last, m)'
          /\ Begin(q, last)' = offset[m] /\ End(q, last)' = offset'[m]
      <4>1. Len(net'[q]) = Len(net[q]) + 1 /\ net'[q][last] = SentChunk(m) /\ Len(net[q]) \in Nat
        BY <1>7, <3>6, SendsTo
      <4>2. last \in 1 .. Len(net'[q])
        BY <3>6, <4>1
      <4>. QED
        BY <1>1, <4>1, <4>2 DEF ChunkOf, Begin, End
    <3>. QED
      BY <3>2, <3>5, <3>7, <3>8 DEF Lined
  <2>2. CASE phase[m] = "resumed"
    <3>1. Current(m)
      BY <1>1, <1>3, <1>7, <2>2 DEF Current
    <3>2. Lined(m)
      BY <1>1, <3>1 DEF Content
    <3>3. Expected(m)' = Expected(m)
      BY <1>1, <1>3, <1>4, <2>2 DEF Expected
    <3>. PICK last : last = Len(net[q]) + 1
      OBVIOUS
    <3>4. /\ last \in 1 .. Len(net'[q]) /\ ChunkOf(q, last, m)' /\ Len(net[q]) \in Nat
          /\ Begin(q, last)' = offset[m] /\ End(q, last)' = offset'[m]
      <4>1. Len(net'[q]) = Len(net[q]) + 1 /\ net'[q][last] = SentChunk(m) /\ Len(net[q]) \in Nat
        BY <1>7, SendsTo
      <4>2. last \in 1 .. Len(net'[q])
        BY <4>1
      <4>. QED
        BY <1>1, <4>1, <4>2 DEF ChunkOf, Begin, End
    <3>a. /\ \A k \in 1 .. Len(net'[q]) : k = last \/ k \in 1 .. Len(net[q])
          /\ \A k \in 1 .. Len(net[q]) : k \in 1 .. Len(net'[q]) /\ net'[q][k] = net[q][k] /\ k < last
      BY <1>0, <1>5
    <3>5. \A k \in 1 .. Len(net'[q]) : ChunkOf(q, k, m)' =>
            \/ k = last
            \/ k \in 1 .. Len(net[q]) /\ ChunkOf(q, k, m) /\ Begin(q, k)' = Begin(q, k) /\ End(q, k)' = End(q, k) /\ k < last
      BY <3>a DEF ChunkOf, Begin, End
    <3>6. \A k \in 1 .. Len(net[q]) : ChunkOf(q, k, m) =>
            k \in 1 .. Len(net'[q]) /\ ChunkOf(q, k, m)' /\ End(q, k)' = End(q, k) /\ k < last
      BY <3>a DEF ChunkOf, End
    <3>7. \A k \in 1 .. Len(net[q]) : ChunkOf(q, k, m) => End(q, k) <= offset[m]
      BY <1>0 DEF Base, Packets
    <3>8. /\ \A j, k \in 1 .. Len(net[q]) : j < k /\ ChunkOf(q, j, m) /\ ChunkOf(q, k, m) => End(q, j) <= Begin(q, k)
          /\ \A k \in 1 .. Len(net[q]) : ChunkOf(q, k, m) =>
               \/ Begin(q, k) = Expected(m)
               \/ \E j \in 1 .. Len(net[q]) : j < k /\ ChunkOf(q, j, m) /\ End(q, j) = Begin(q, k)
          /\ \/ offset[m] = Expected(m)
             \/ \E k \in 1 .. Len(net[q]) : ChunkOf(q, k, m) /\ End(q, k) = offset[m]
      BY <3>2 DEF Lined
    <3>9. ASSUME NEW j \in 1 .. Len(net'[q]), NEW k \in 1 .. Len(net'[q]), j < k, ChunkOf(q, j, m)', ChunkOf(q, k, m)'
          PROVE  End(q, j)' <= Begin(q, k)'
      <4>1. j # last
        BY <3>4, <3>5, <3>9
      <4>2. j \in 1 .. Len(net[q]) /\ ChunkOf(q, j, m) /\ End(q, j)' = End(q, j)
        BY <3>5, <3>9, <4>1
      <4>3. CASE k = last
        BY <3>4, <3>7, <4>2, <4>3
      <4>4. CASE k # last
        BY <3>5, <3>8, <3>9, <4>2, <4>4
      <4>. QED
        BY <4>3, <4>4
    <3>10. ASSUME NEW k \in 1 .. Len(net'[q]), ChunkOf(q, k, m)'
           PROVE  \/ Begin(q, k)' = Expected(m)'
                  \/ \E j \in 1 .. Len(net'[q]) : j < k /\ ChunkOf(q, j, m)' /\ End(q, j)' = Begin(q, k)'
      <4>1. CASE k = last
        BY <3>3, <3>4, <3>6, <3>8, <4>1
      <4>2. CASE k # last
        BY <3>3, <3>5, <3>6, <3>8, <3>10, <4>2
      <4>. QED
        BY <4>1, <4>2
    <3>. QED
      BY <3>4, <3>9, <3>10 DEF Lined
  <2>. QED
    BY <1>1, <2>1, <2>2
<1>8. KeepsParts'
  <2>. SUFFICES ASSUME NEW p \in Peers, NEW c \in DOMAIN chunks[p]
                PROVE  \E n \in Messages : Keeps(p, c, n)'
    BY <1>3 DEF KeepsParts
  <2>1. PICK n \in Messages : Keeps(p, c, n)
    BY DEF Content, KeepsParts
  <2>2. Current(n) /\ phase[n] # "new"
    BY <2>1 DEF Keeps, Current
  <2>3. Current(n)' /\ chunkOf'[n] = chunkOf[n]
    BY <1>1, <1>2, <2>2
  <2>. QED
    BY <1>3, <1>4, <2>1, <2>3 DEF Keeps
<1>9. WholeAndOnce'
  <2>1. \A n \in Messages : phase[n] # "new" => phase'[n] # "new"
    BY <1>1, <1>2
  <2>. QED
    BY <1>3, <2>1 DEF Content, WholeAndOnce, HandsOut
<1>10. SmallOnce'
  <2>1. \A n \in Messages : \A k \in 1 .. Len(net'[Other(From[n])]) :
          net'[Other(From[n])][k] = Small(n) => k \in 1 .. Len(net[Other(From[n])]) /\ net[Other(From[n])][k] = Small(n)
    <3>. SUFFICES ASSUME NEW n \in Messages, NEW p \in Peers, NEW k \in 1 .. Len(net'[p]), net'[p][k] = Small(n)
                  PROVE  k \in 1 .. Len(net[p]) /\ net[p][k] = Small(n)
      BY FromPeers
    <3>0. Small(n).type = "message"
      BY SmallIs
    <3>1. net'[p][k] # SentChunk(m)
      BY <1>1, <3>0
    <3>. QED
      BY <1>5, <3>1
  <2>. QED
    BY <1>4, <2>1 DEF Content, SmallOnce
<1>. QED
  BY <1>6, <1>7, <1>8, <1>9, <1>10 DEF Content

(* A message that is not written yet is nowhere.                           *)
LEMMA NewIsNowhere ==
  ASSUME Base, NEW m \in Messages, phase[m] = "new"
  PROVE  /\ ~ Current(m)
         /\ \A p \in Peers : \A k \in 1 .. Len(net[p]) : ~ ChunkOf(p, k, m) /\ net[p][k] # Small(m)
         /\ Content => ~ Arrived(m)
<1>. DEFINE q == Other(From[m])
<1>0. q \in Peers
  BY FromPeers
<1>1. ~ Current(m)
  BY DEF Current
<1>2. \A p \in Peers : \A k \in 1 .. Len(net[p]) : ~ ChunkOf(p, k, m) /\ net[p][k] # Small(m)
  <2>. SUFFICES ASSUME NEW p \in Peers, NEW k \in 1 .. Len(net[p]) PROVE ~ ChunkOf(p, k, m) /\ net[p][k] # Small(m)
    OBVIOUS
  <2>1. ~ ChunkOf(p, k, m)
    BY <1>1 DEF Base, Packets
  <2>2. ASSUME net[p][k] = Small(m) PROVE FALSE
    <3>1. net[p][k].type = "message"
      BY <2>2, SmallIs
    <3>2. PICK n \in Messages : net[p][k] = Small(n) /\ Current(n)
      BY <3>1 DEF Base, Packets
    <3>3. Small(n).buffer[1].msg = n /\ Small(m).buffer[1].msg = m
      BY SmallIs
    <3>. QED
      BY <1>1, <2>2, <3>2, <3>3
  <2>. QED
    BY <2>1, <2>2
<1>3. ASSUME Content, NEW k \in 1 .. Len(received[q]), received[q][k][1].msg = m PROVE FALSE
  <2>1. PICK n \in Messages : HandsOut(q, k, n)
    BY <1>0, <1>3 DEF Content, WholeAndOnce
  <2>2. received[q][k] # <<>> /\ received[q] \in Seq(Seq(Piece)) /\ received[q][k] \in Seq(Piece)
    BY <1>0, <1>3, <2>1 DEF HandsOut, IsWhole, PartOf, Base, ChunkKinds
  <2>3. received[q][k][1].msg = n
    BY <2>1, <2>2 DEF HandsOut, IsWhole, PartOf
  <2>. QED
    BY <1>3, <2>1, <2>3 DEF HandsOut
<1>4. Content => ~ Arrived(m)
  BY <1>3 DEF Arrived
<1>. QED
  BY <1>1, <1>2, <1>4

(* Nothing of m is put on its way, and its writer does not go on.          *)
LEMMA StillInTurn ==
  ASSUME NEW m \in Messages, InTurn(m), NEW d \in {0, 1}, NEW e \in {0, 1}, NEW p, p = Other(From[m]),
         \A k \in 1 .. Len(net'[p]) : ChunkOf(p, k, m)' => k + d \in 1 .. Len(net[p]) /\ ChunkOf(p, k + d, m),
         \A k \in 1 .. Len(net'[From[m]]) : AckOf(m, k)' => k + e \in 1 .. Len(net[From[m]]) /\ AckOf(m, k + e),
         phase[m] = "waiting" => phase'[m] = "waiting",
         Len(net'[p]) \in Nat, Len(net'[From[m]]) \in Nat
  PROVE  InTurn(m)'
<1>. DEFINE o == From[m]
<1>1. /\ \A j, k \in 1 .. Len(net[p]) : ChunkOf(p, j, m) /\ ChunkOf(p, k, m) => j = k
      /\ \A j, k \in 1 .. Len(net[o]) : AckOf(m, j) /\ AckOf(m, k) => j = k
      /\ \A j \in 1 .. Len(net[p]), k \in 1 .. Len(net[o]) : ~ (ChunkOf(p, j, m) /\ AckOf(m, k))
      /\ phase[m] # "waiting" =>
           /\ \A j \in 1 .. Len(net[p]) : ~ ChunkOf(p, j, m)
           /\ \A k \in 1 .. Len(net[o]) : ~ AckOf(m, k)
  BY DEF InTurn
<1>2. \A j, k \in 1 .. Len(net'[p]) : ChunkOf(p, j, m)' /\ ChunkOf(p, k, m)' => j = k
  <2>. SUFFICES ASSUME NEW j \in 1 .. Len(net'[p]), NEW k \in 1 .. Len(net'[p]), ChunkOf(p, j, m)', ChunkOf(p, k, m)'
                PROVE  j = k
    OBVIOUS
  <2>1. j + d = k + d
    BY <1>1
  <2>. QED
    BY <2>1
<1>3. \A j, k \in 1 .. Len(net'[o]) : AckOf(m, j)' /\ AckOf(m, k)' => j = k
  <2>. SUFFICES ASSUME NEW j \in 1 .. Len(net'[o]), NEW k \in 1 .. Len(net'[o]), AckOf(m, j)', AckOf(m, k)'
                PROVE  j = k
    OBVIOUS
  <2>1. j + e = k + e
    BY <1>1
  <2>. QED
    BY <2>1
<1>4. \A j \in 1 .. Len(net'[p]), k \in 1 .. Len(net'[o]) : ~ (ChunkOf(p, j, m)' /\ AckOf(m, k)')
  BY <1>1
<1>5. phase'[m] # "waiting" =>
        /\ \A j \in 1 .. Len(net'[p]) : ~ ChunkOf(p, j, m)'
        /\ \A k \in 1 .. Len(net'[o]) : ~ AckOf(m, k)'
  BY <1>1
<1>. QED
  BY <1>2, <1>3, <1>4, <1>5 DEF InTurn

(* An ack is no chunk and no small message.                                *)
LEMMA KindsOfPackets ==
  /\ \A id : Ack(id).type = "ack" /\ Ack(id).id = id /\ \A m : Ack(id) # Small(m)
  /\ \A i, j : Ack(i) = Ack(j) => i = j
<1>1. \A id : Ack(id).type = "ack" /\ Ack(id).id = id
  BY DEF Ack
<1>2. \A id : \A m : Ack(id) # Small(m)
  BY <1>1 DEF Small, Ack
<1>3. \A i, j : Ack(i) = Ack(j) => i = j
  BY <1>1
<1>. QED
  BY <1>1, <1>2, <1>3

LEMMA SendsFlow ==
  ASSUME Base, FlowInv, NEW m \in Messages, Sends(m)
  PROVE  FlowInv'
<1>. DEFINE q == Other(From[m])
<1>0. From[m] \in Peers /\ q \in Peers
  BY FromPeers
<1>1. /\ Large(m) /\ phase[m] \in {"new", "resumed"} /\ phase'[m] = "waiting"
      /\ Current(m) => Current(m)'
      /\ SentChunk(m).type = "chunk" /\ SentChunk(m).v.msg = m
  BY SendsOne
<1>2. \A n \in Messages \ {m} : phase'[n] = phase[n] /\ Current(n)' = Current(n)
  BY SendsOne
<1>3. \A p \in Peers : /\ Len(net[p]) \in Nat /\ Len(net'[p]) \in Nat /\ Len(net[p]) <= Len(net'[p])
                       /\ \A k \in 1 .. Len(net[p]) : net'[p][k] = net[p][k]
                       /\ \A k \in 1 .. Len(net'[p]) : \/ k \in 1 .. Len(net[p])
                                                       \/ /\ p = q /\ Current(m)' /\ net'[p][k] = SentChunk(m)
                                                          /\ k = Len(net[p]) + 1
  <2>1. \A p \in Peers : Len(net[p]) \in Nat
    BY DEF Base, ChunkKinds
  <2>. QED
    BY <2>1, SendsTo
<1>4. \A p \in Peers : \A k \in 1 .. Len(net'[p]) : net'[p][k].type = "ack" =>
        k \in 1 .. Len(net[p]) /\ net[p][k] = net'[p][k]
  BY <1>1, <1>3
<1>5. \A n \in Messages : \A k \in 1 .. Len(net'[From[n]]) : AckOf(n, k)' => k \in 1 .. Len(net[From[n]]) /\ AckOf(n, k)
  BY <1>4, FromPeers, KindsOfPackets DEF AckOf
<1>6. Registered'
  <2>1. \A p \in Peers : \A id \in DOMAIN chunkAcks'[p] : From[chunkAcks'[p][id].msg] = p /\ MsgId[chunkAcks'[p][id].msg] = id
    <3>1. \A p \in Peers : \A id \in DOMAIN chunkAcks'[p] :
            \/ p = From[m] /\ id = MsgId[m] /\ chunkAcks'[p][id].msg = m
            \/ id \in DOMAIN chunkAcks[p] /\ chunkAcks'[p][id] = chunkAcks[p][id]
      <4>1. [msg |-> m, upTo |-> offset'[m]].msg = m
        OBVIOUS
      <4>2. \A p \in Peers : \A id \in DOMAIN chunkAcks'[p] :
              \/ p = From[m] /\ id = MsgId[m] /\ chunkAcks'[p][id] = [msg |-> m, upTo |-> offset'[m]]
              \/ id \in DOMAIN chunkAcks[p] /\ chunkAcks'[p][id] = chunkAcks[p][id]
        BY Registers
      <4>. QED
        BY <4>1, <4>2
    <3>. QED
      BY <3>1 DEF FlowInv, Registered
  <2>2. ASSUME NEW p \in Peers, NEW k \in 1 .. Len(net'[p]), net'[p][k].type = "ack"
        PROVE  \E n \in Messages : AckOf(n, k)' /\ From[n] = p /\ Large(n) /\ Current(n)'
    <3>1. k \in 1 .. Len(net[p]) /\ net[p][k] = net'[p][k]
      BY <1>4, <2>2
    <3>2. PICK n \in Messages : AckOf(n, k) /\ From[n] = p /\ Large(n) /\ Current(n)
      BY <2>2, <3>1 DEF FlowInv, Registered
    <3>3. AckOf(n, k)' /\ Current(n)'
      BY <1>1, <1>2, <2>2, <3>1, <3>2 DEF AckOf
    <3>. QED
      BY <3>2, <3>3
  <2>. QED
    BY <2>1, <2>2 DEF Registered
<1>7. ASSUME NEW n \in Messages \ {m}, Large(n)
      PROVE  InTurn(n)'
  <2>. DEFINE p == Other(From[n])
  <2>1. p \in Peers /\ From[n] \in Peers /\ InTurn(n) /\ phase'[n] = phase[n]
    BY <1>2, <1>7, FromPeers DEF FlowInv
  <2>2. \A k \in 1 .. Len(net'[p]) : ChunkOf(p, k, n)' => k \in 1 .. Len(net[p]) /\ ChunkOf(p, k, n)
    BY <1>1, <1>3, <2>1 DEF ChunkOf
  <2>. HIDE DEF p
  <2>3. Len(net'[p]) \in Nat /\ Len(net'[From[n]]) \in Nat
    BY <1>3, <2>1
  <2>4. \A k \in 1 .. Len(net'[p]) : k + 0 = k
    BY <2>3
  <2>5. \A k \in 1 .. Len(net'[From[n]]) : k + 0 = k
    BY <2>3
  <2>6. 0 \in {0, 1}
    OBVIOUS
  <2>. QED
    BY <1>5, <2>1, <2>2, <2>3, <2>4, <2>5, <2>6, StillInTurn DEF p
<1>8. InTurn(m)'
  <2>1. /\ \A k \in 1 .. Len(net[q]) : ~ ChunkOf(q, k, m)
        /\ \A k \in 1 .. Len(net[From[m]]) : ~ AckOf(m, k)
    BY <1>1 DEF FlowInv, InTurn
  <2>2. PICK last : last = Len(net[q]) + 1
    OBVIOUS
  <2>3. \A k \in 1 .. Len(net'[q]) : ChunkOf(q, k, m)' => k = last
    BY <1>0, <1>3, <2>1, <2>2 DEF ChunkOf
  <2>4. \A k \in 1 .. Len(net'[From[m]]) : ~ AckOf(m, k)'
    BY <1>5, <2>1
  <2>. QED
    BY <1>1, <2>3, <2>4 DEF InTurn
<1>. QED
  BY <1>6, <1>7, <1>8 DEF FlowInv

-----------------------------------------------------------------------------
(* A small message is written.                                             *)
LEMMA WritesSmall ==
  ASSUME Base, NEW m \in Messages, Write(m), WriteSmall(m)
  PROVE  LET q == Other(From[m])
         IN /\ ~ Large(m) /\ phase[m] = "new" /\ phase'[m] = "done" /\ Current(m)' /\ offset'[m] = ByteLength[m]
            /\ phase' = [phase EXCEPT ![m] = "done"] /\ offset' = [offset EXCEPT ![m] = ByteLength[m]]
            /\ writtenOn' = [writtenOn EXCEPT ![m] = connection]
            /\ UNCHANGED <<chunkOf, chunkId, chunkAcks, chunks, received, connection, leftover>>
            /\ \A n \in Messages \ {m} : /\ phase'[n] = phase[n] /\ offset'[n] = offset[n]
                                         /\ writtenOn'[n] = writtenOn[n] /\ Current(n)' = Current(n)
            /\ net' \in [Peers -> Seq(Packet)]
            /\ \A p \in Peers : /\ Len(net[p]) \in Nat /\ Len(net'[p]) \in Nat /\ Len(net[p]) <= Len(net'[p])
                                /\ \A k \in 1 .. Len(net[p]) : net'[p][k] = net[p][k]
                                /\ \A k \in 1 .. Len(net'[p]) :
                                     \/ k \in 1 .. Len(net[p])
                                     \/ p = q /\ net'[p][k] = Small(m) /\ k = Len(net[p]) + 1
<1>. DEFINE q == Other(From[m])
<1>0. From[m] \in Peers /\ q \in Peers /\ ByteLength[m] \in Nat \ {0}
  BY FromPeers, ChunksAssumption
<1>1. /\ ~ Large(m) /\ phase[m] = "new"
      /\ phase' = [phase EXCEPT ![m] = "done"] /\ offset' = [offset EXCEPT ![m] = ByteLength[m]]
      /\ writtenOn' = [writtenOn EXCEPT ![m] = connection]
      /\ UNCHANGED <<chunkOf, chunkId, chunkAcks, chunks, received, connection, leftover>>
      /\ SendPacket(m, Small(m))
  BY DEF Write, WriteSmall
<1>2. phase'[m] = "done" /\ offset'[m] = ByteLength[m] /\ writtenOn'[m] = connection /\ Current(m)'
  BY <1>1 DEF Base, ChunkKinds, Current
<1>3. \A n \in Messages \ {m} : /\ phase'[n] = phase[n] /\ offset'[n] = offset[n]
                                /\ writtenOn'[n] = writtenOn[n] /\ Current(n)' = Current(n)
  BY <1>1 DEF Base, ChunkKinds, Current
<1>4. Small(m) \in Packet
  <2>1. [msg |-> m, at |-> 0, len |-> ByteLength[m]] \in Piece
    BY <1>0 DEF Piece
  <2>2. <<[msg |-> m, at |-> 0, len |-> ByteLength[m]]>> \in Seq(Piece)
    BY <2>1
  <2>. QED
    BY <2>2 DEF Small, Packet
<1>. HIDE DEF q
<1>5. net \in [Peers -> Seq(Packet)] /\ net' = [net EXCEPT ![q] = Append(net[q], Small(m))]
  BY <1>1, <1>2 DEF Base, ChunkKinds, SendPacket, q
<1>6. /\ net'[q] = Append(net[q], Small(m)) /\ net[q] \in Seq(Packet)
      /\ \A o \in Peers \ {q} : net'[o] = net[o]
  BY <1>0, <1>5
<1>7. /\ Len(net'[q]) = Len(net[q]) + 1 /\ Len(net[q]) \in Nat
      /\ net'[q][Len(net[q]) + 1] = Small(m)
      /\ \A k \in 1 .. Len(net[q]) : net'[q][k] = net[q][k]
      /\ net'[q] \in Seq(Packet)
  BY <1>4, <1>6, PacketBehind
<1>8. net' \in [Peers -> Seq(Packet)]
  BY <1>5, <1>6, <1>7
<1>9. \A p \in Peers : Len(net[p]) \in Nat
  BY <1>5
<1>10. \A p \in Peers : /\ Len(net[p]) \in Nat /\ Len(net'[p]) \in Nat /\ Len(net[p]) <= Len(net'[p])
                        /\ \A k \in 1 .. Len(net[p]) : net'[p][k] = net[p][k]
                        /\ \A k \in 1 .. Len(net'[p]) :
                             \/ k \in 1 .. Len(net[p])
                             \/ p = q /\ net'[p][k] = Small(m) /\ k = Len(net[p]) + 1
  BY <1>6, <1>7, <1>9
<1>. QED
  BY <1>1, <1>2, <1>3, <1>8, <1>10 DEF q

LEMMA WriteSmallBase ==
  ASSUME Base, NEW m \in Messages, Write(m), WriteSmall(m)
  PROVE  Base'
<1>. DEFINE q == Other(From[m])
<1>0. From[m] \in Peers /\ q \in Peers /\ ByteLength[m] \in Nat \ {0} /\ connection \in Nat
  BY FromPeers, ChunksAssumption DEF Base, ChunkKinds
<1>1. /\ ~ Large(m) /\ phase[m] = "new" /\ phase'[m] = "done" /\ Current(m)' /\ offset'[m] = ByteLength[m]
      /\ phase' = [phase EXCEPT ![m] = "done"] /\ offset' = [offset EXCEPT ![m] = ByteLength[m]]
      /\ writtenOn' = [writtenOn EXCEPT ![m] = connection]
      /\ UNCHANGED <<chunkOf, chunkId, chunkAcks, chunks, received, connection, leftover>>
      /\ net' \in [Peers -> Seq(Packet)]
  BY WritesSmall
<1>2. \A n \in Messages \ {m} : /\ phase'[n] = phase[n] /\ offset'[n] = offset[n]
                                /\ writtenOn'[n] = writtenOn[n] /\ Current(n)' = Current(n)
  BY WritesSmall
<1>3. \A p \in Peers : /\ \A k \in 1 .. Len(net[p]) : net'[p][k] = net[p][k]
                       /\ \A k \in 1 .. Len(net'[p]) : k \in 1 .. Len(net[p]) \/ (p = q /\ net'[p][k] = Small(m))
  BY WritesSmall
<1>4. ChunkKinds'
  <2>1. phase' \in [Messages -> {"new", "waiting", "resumed", "done"}]
    BY <1>1 DEF Base, ChunkKinds
  <2>2. offset' \in [Messages -> Nat] /\ writtenOn' \in [Messages -> Nat]
    BY <1>0, <1>1 DEF Base, ChunkKinds
  <2>3. writtenOn'[m] = connection
    BY <1>1 DEF Base, ChunkKinds
  <2>4. \A n \in Messages : offset'[n] <= ByteLength[n] /\ writtenOn'[n] <= connection'
    BY <1>0, <1>1, <1>2, <2>3 DEF Base, ChunkKinds
  <2>. QED
    BY <1>1, <2>1, <2>2, <2>4 DEF Base, ChunkKinds
<1>5. Phases'
  BY <1>1, <1>2 DEF Base, Phases
<1>6. OwnChunks'
  BY <1>1, <1>2 DEF Base, OwnChunks
<1>7. Packets'
  <2>. SUFFICES ASSUME NEW p \in Peers, NEW k \in 1 .. Len(net'[p])
                PROVE  /\ \A n \in Messages : ChunkOf(p, k, n)' =>
                            /\ From[n] = Other(p) /\ Large(n) /\ Current(n)'
                            /\ net'[p][k].id = MsgId[n] /\ net'[p][k].chunk = chunkOf'[n] /\ net'[p][k].total = ByteLength[n]
                            /\ End(p, k)' <= offset'[n]
                       /\ net'[p][k].type = "message" =>
                            \E n \in Messages : net'[p][k] = Small(n) /\ From[n] = Other(p) /\ ~ Large(n) /\ Current(n)'
    BY DEF Packets
  <2>1. CASE k \in 1 .. Len(net[p])
    <3>1. net'[p][k] = net[p][k]
      BY <1>3, <2>1
    <3>2. ASSUME NEW n \in Messages, ChunkOf(p, k, n)'
          PROVE  /\ From[n] = Other(p) /\ Large(n) /\ Current(n)'
                 /\ net'[p][k].id = MsgId[n] /\ net'[p][k].chunk = chunkOf'[n] /\ net'[p][k].total = ByteLength[n]
                 /\ End(p, k)' <= offset'[n]
      <4>1. ChunkOf(p, k, n) /\ End(p, k)' = End(p, k)
        BY <2>1, <3>1, <3>2 DEF ChunkOf, End
      <4>2. /\ From[n] = Other(p) /\ Large(n) /\ Current(n)
            /\ net[p][k].id = MsgId[n] /\ net[p][k].chunk = chunkOf[n] /\ net[p][k].total = ByteLength[n]
            /\ End(p, k) <= offset[n]
        BY <2>1, <4>1 DEF Base, Packets
      <4>. QED
        BY <1>1, <1>2, <3>1, <4>1, <4>2
    <3>3. ASSUME net'[p][k].type = "message"
          PROVE  \E n \in Messages : net'[p][k] = Small(n) /\ From[n] = Other(p) /\ ~ Large(n) /\ Current(n)'
      <4>1. PICK n \in Messages : net[p][k] = Small(n) /\ From[n] = Other(p) /\ ~ Large(n) /\ Current(n)
        BY <2>1, <3>1, <3>3 DEF Base, Packets
      <4>2. Current(n)'
        BY <1>1, <1>2, <4>1
      <4>. QED
        BY <3>1, <4>1, <4>2
    <3>. QED
      BY <3>2, <3>3
  <2>2. CASE p = q /\ net'[p][k] = Small(m)
    <3>1. net'[p][k].type = "message" /\ From[m] = Other(p)
      BY <1>0, <2>2, PeersAre, SmallIs
    <3>2. \A n \in Messages : ~ ChunkOf(p, k, n)'
      BY <3>1 DEF ChunkOf
    <3>. QED
      BY <1>1, <2>2, <3>1, <3>2
  <2>. QED
    BY <1>3, <2>1, <2>2
<1>. QED
  BY <1>4, <1>5, <1>6, <1>7 DEF Base

LEMMA WriteSmallContent ==
  ASSUME Base, Content, NEW m \in Messages, Write(m), WriteSmall(m)
  PROVE  Content'
<1>. DEFINE q == Other(From[m])
<1>0. From[m] \in Peers /\ q \in Peers
  BY FromPeers
<1>1. /\ ~ Large(m) /\ phase[m] = "new" /\ phase'[m] = "done" /\ Current(m)'
      /\ UNCHANGED <<chunkOf, chunks, received>>
  BY WritesSmall
<1>2. \A n \in Messages \ {m} : phase'[n] = phase[n] /\ offset'[n] = offset[n] /\ Current(n)' = Current(n)
  BY WritesSmall
<1>3. \A p \in Peers : /\ Len(net[p]) \in Nat /\ Len(net'[p]) \in Nat /\ Len(net[p]) <= Len(net'[p])
                       /\ \A k \in 1 .. Len(net[p]) : net'[p][k] = net[p][k]
                       /\ \A k \in 1 .. Len(net'[p]) :
                            \/ k \in 1 .. Len(net[p])
                            \/ p = q /\ net'[p][k] = Small(m) /\ k = Len(net[p]) + 1
  BY WritesSmall
<1>4. \A n \in Messages : Arrived(n)' = Arrived(n) /\ Expected(n)' = Expected(n)
  BY <1>1 DEF Arrived, Expected
<1>5. Small(m).type = "message" /\ Small(m).buffer[1].msg = m
  BY SmallIs
<1>6. ASSUME NEW n \in Messages, Large(n), Current(n)'
      PROVE  Lined(n)'
  <2>. DEFINE p == Other(From[n])
  <2>1. p \in Peers /\ n # m
    BY <1>1, <1>6, FromPeers
  <2>2. Lined(n) /\ offset'[n] = offset[n]
    BY <1>2, <1>6, <2>1 DEF Content
  <2>3. \A k \in 1 .. Len(net'[p]) : ChunkOf(p, k, n)' => k \in 1 .. Len(net[p])
    BY <1>3, <1>5, <2>1 DEF ChunkOf
  <2>4. 0 \in {0, 1}
    OBVIOUS
  <2>. HIDE DEF p
  <2>5. \A k \in 1 .. Len(net[p]) : k - 0 = k /\ k \in 1 .. Len(net'[p])
    BY <1>3, <2>1
  <2>6. \A k \in 1 .. Len(net'[p]) : k + 0 = k
    BY <1>3, <2>1
  <2>. QED
    BY <1>3, <1>4, <2>1, <2>2, <2>3, <2>4, <2>5, <2>6, StillLined DEF p
<1>7. KeepsParts'
  <2>. SUFFICES ASSUME NEW p \in Peers, NEW c \in DOMAIN chunks[p]
                PROVE  \E n \in Messages : Keeps(p, c, n)'
    BY <1>1 DEF KeepsParts
  <2>1. PICK n \in Messages : Keeps(p, c, n)
    BY DEF Content, KeepsParts
  <2>2. Current(n)'
    BY <1>1, <1>2, <2>1 DEF Keeps
  <2>. QED
    BY <1>1, <1>4, <2>1, <2>2 DEF Keeps
<1>8. WholeAndOnce'
  <2>1. \A n \in Messages : phase[n] # "new" => phase'[n] # "new"
    BY <1>1, <1>2
  <2>. QED
    BY <1>1, <2>1 DEF Content, WholeAndOnce, HandsOut
<1>9. SmallOnce'
  <2>1. ~ Arrived(m) /\ \A p \in Peers : \A k \in 1 .. Len(net[p]) : net[p][k] # Small(m)
    BY <1>1, NewIsNowhere
  <2>. SUFFICES ASSUME NEW n \in Messages, NEW p \in Peers, p = Other(From[n])
                PROVE  /\ \A k \in 1 .. Len(net'[p]) : net'[p][k] = Small(n) => ~ Arrived(n)'
                       /\ \A j, k \in 1 .. Len(net'[p]) : net'[p][j] = Small(n) /\ net'[p][k] = Small(n) => j = k
    BY FromPeers DEF SmallOnce
  <2>2. CASE n = m
    BY <1>3, <1>4, <2>1, <2>2
  <2>3. CASE n # m
    <3>1. Small(n).buffer[1].msg = n
      BY SmallIs
    <3>2. Small(n) # Small(m)
      BY <1>5, <2>3, <3>1
    <3>3. \A k \in 1 .. Len(net'[p]) : net'[p][k] = Small(n) => k \in 1 .. Len(net[p]) /\ net[p][k] = Small(n)
      BY <1>3, <3>2
    <3>. QED
      BY <1>4, <3>3 DEF Content, SmallOnce
  <2>. QED
    BY <2>2, <2>3
<1>. QED
  BY <1>6, <1>7, <1>8, <1>9 DEF Content

LEMMA WriteSmallFlow ==
  ASSUME Base, FlowInv, NEW m \in Messages, Write(m), WriteSmall(m)
  PROVE  FlowInv'
<1>. DEFINE q == Other(From[m])
<1>0. From[m] \in Peers /\ q \in Peers
  BY FromPeers
<1>1. /\ ~ Large(m) /\ phase[m] = "new" /\ phase'[m] = "done" /\ Current(m)'
      /\ UNCHANGED chunkAcks
  BY WritesSmall
<1>2. \A n \in Messages \ {m} : phase'[n] = phase[n] /\ Current(n)' = Current(n)
  BY WritesSmall
<1>3. \A p \in Peers : /\ Len(net[p]) \in Nat /\ Len(net'[p]) \in Nat
                       /\ \A k \in 1 .. Len(net[p]) : net'[p][k] = net[p][k]
                       /\ \A k \in 1 .. Len(net'[p]) :
                            \/ k \in 1 .. Len(net[p])
                            \/ net'[p][k] = Small(m)
  BY WritesSmall
<1>4. \A p \in Peers : \A k \in 1 .. Len(net'[p]) : net'[p][k].type # "message" =>
        k \in 1 .. Len(net[p]) /\ net[p][k] = net'[p][k]
  <2>1. Small(m).type = "message"
    BY SmallIs
  <2>. QED
    BY <1>3, <2>1
<1>5. \A n \in Messages : \A k \in 1 .. Len(net'[From[n]]) : AckOf(n, k)' => k \in 1 .. Len(net[From[n]]) /\ AckOf(n, k)
  BY <1>4, FromPeers, KindsOfPackets DEF AckOf
<1>6. Registered'
  <2>1. ASSUME NEW p \in Peers, NEW k \in 1 .. Len(net'[p]), net'[p][k].type = "ack"
        PROVE  \E n \in Messages : AckOf(n, k)' /\ From[n] = p /\ Large(n) /\ Current(n)'
    <3>1. k \in 1 .. Len(net[p]) /\ net[p][k] = net'[p][k]
      BY <1>4, <2>1
    <3>2. PICK n \in Messages : AckOf(n, k) /\ From[n] = p /\ Large(n) /\ Current(n)
      BY <2>1, <3>1 DEF FlowInv, Registered
    <3>3. AckOf(n, k)' /\ Current(n)'
      BY <1>1, <1>2, <2>1, <3>1, <3>2 DEF AckOf
    <3>. QED
      BY <3>2, <3>3
  <2>. QED
    BY <1>1, <2>1 DEF FlowInv, Registered
<1>7. ASSUME NEW n \in Messages, Large(n)
      PROVE  InTurn(n)'
  <2>. DEFINE p == Other(From[n])
  <2>1. p \in Peers /\ From[n] \in Peers /\ InTurn(n) /\ phase'[n] = phase[n]
    BY <1>1, <1>2, <1>7, FromPeers DEF FlowInv
  <2>2. \A k \in 1 .. Len(net'[p]) : ChunkOf(p, k, n)' => k \in 1 .. Len(net[p]) /\ ChunkOf(p, k, n)
    BY <1>4, <2>1 DEF ChunkOf
  <2>. HIDE DEF p
  <2>3. Len(net'[p]) \in Nat /\ Len(net'[From[n]]) \in Nat
    BY <1>3, <2>1
  <2>4. \A k \in 1 .. Len(net'[p]) : k + 0 = k
    BY <2>3
  <2>5. \A k \in 1 .. Len(net'[From[n]]) : k + 0 = k
    BY <2>3
  <2>6. 0 \in {0, 1}
    OBVIOUS
  <2>. QED
    BY <1>5, <2>1, <2>2, <2>3, <2>4, <2>5, <2>6, StillInTurn DEF p
<1>. QED
  BY <1>6, <1>7 DEF FlowInv

-----------------------------------------------------------------------------
(* The writer of a large message comes to its end.                         *)
LEMMA Finishes ==
  ASSUME Base, NEW m \in Messages, phase[m] = "resumed", phase' = [phase EXCEPT ![m] = "done"],
         UNCHANGED <<offset, chunkOf, writtenOn, chunkId, chunkAcks, chunks, net, received, connection, leftover>>
  PROVE  Base' /\ (Content => Content') /\ (FlowInv => FlowInv')
<1>1. phase'[m] = "done" /\ \A n \in Messages \ {m} : phase'[n] = phase[n]
  BY DEF Base, ChunkKinds
<1>2. \A n \in Messages : Current(n)' = Current(n) /\ (phase'[n] = "new" <=> phase[n] = "new")
  BY <1>1 DEF Current
<1>3. Base'
  <2>1. ChunkKinds'
    BY DEF Base, ChunkKinds
  <2>2. Phases'
    BY <1>1 DEF Base, Phases
  <2>3. OwnChunks'
    BY <1>2 DEF Base, OwnChunks
  <2>4. Packets'
    BY <1>2 DEF Base, Packets, ChunkOf, End
  <2>. QED
    BY <2>1, <2>2, <2>3, <2>4 DEF Base
<1>4. ASSUME Content PROVE Content'
  <2>1. \A n \in Messages : Arrived(n)' = Arrived(n)
    BY DEF Arrived
  <2>2. \A n \in Messages : Lined(n)' = Lined(n)
    BY <2>1 DEF Lined, Expected, ChunkOf, Begin, End
  <2>3. KeepsParts'
    BY <1>2, <1>4, <2>1 DEF Content, KeepsParts, Keeps
  <2>4. WholeAndOnce' /\ SmallOnce'
    BY <1>2, <1>4, <2>1 DEF Content, WholeAndOnce, HandsOut, SmallOnce
  <2>. QED
    BY <1>2, <1>4, <2>2, <2>3, <2>4 DEF Content
<1>5. ASSUME FlowInv PROVE FlowInv'
  <2>1. Registered'
    BY <1>2, <1>5 DEF FlowInv, Registered, AckOf
  <2>2. \A n \in Messages : phase'[n] # "waiting" => phase[n] # "waiting"
    BY <1>1
  <2>3. \A n \in Messages : Large(n) => InTurn(n)'
    BY <1>5, <2>2 DEF FlowInv, InTurn, ChunkOf, AckOf
  <2>. QED
    BY <2>1, <2>3 DEF FlowInv
<1>. QED
  BY <1>3, <1>4, <1>5

-----------------------------------------------------------------------------
(* A peer takes the first of the packets on their way to it; what it sends *)
(* to the other one are acks.                                              *)
Takes(p) ==
  /\ net[p] # <<>>
  /\ UNCHANGED <<offset, chunkOf, writtenOn, chunkId, connection, leftover>>
  /\ phase' \in [Messages -> {"new", "waiting", "resumed", "done"}]
  /\ \A m \in Messages : /\ phase'[m] = "new" <=> phase[m] = "new"
                         /\ phase'[m] \in {"waiting", "resumed"} => phase[m] \in {"waiting", "resumed"}
  /\ net' \in [Peers -> Seq(Packet)]
  /\ Len(net'[p]) = Len(net[p]) - 1
  /\ \A k \in 1 .. Len(net'[p]) : net'[p][k] = net[p][k + 1]
  /\ Len(net[Other(p)]) <= Len(net'[Other(p)])
  /\ \A k \in 1 .. Len(net[Other(p)]) : net'[Other(p)][k] = net[Other(p)][k]
  /\ \A k \in 1 .. Len(net'[Other(p)]) : k \in 1 .. Len(net[Other(p)]) \/ net'[Other(p)][k].type = "ack"

LEMMA Heads ==
  ASSUME Base, NEW p \in Peers, net[p] # <<>>
  PROVE  /\ Head(net[p]) = net[p][1] /\ Head(net[p]) \in Packet /\ 1 \in 1 .. Len(net[p])
         /\ Tail(net[p]) \in Seq(Packet) /\ Len(Tail(net[p])) = Len(net[p]) - 1 /\ Len(net[p]) \in Nat \ {0}
         /\ \A k \in 1 .. Len(net[p]) - 1 : Tail(net[p])[k] = net[p][k + 1]
<1>1. net[p] \in Seq(Packet)
  BY DEF Base, ChunkKinds
<1>. QED
  BY <1>1, FirstPacket

LEMMA TakesMessageOrAck ==
  ASSUME Base, NEW p \in Peers, GotPacket(p), ~ GotChunk(p, Head(net[p]))
  PROVE  Takes(p) /\ net' = [net EXCEPT ![p] = Tail(net[p])]
<1>0. Other(p) \in Peers /\ Other(p) # p
  BY PeersAre
<1>1. net[p] # <<>> /\ UNCHANGED <<offset, chunkOf, writtenOn, chunkId, connection, leftover>>
  BY DEF GotPacket
<1>2. net' = [net EXCEPT ![p] = Tail(net[p])] /\ net \in [Peers -> Seq(Packet)]
  BY DEF GotPacket, GotMessage, GotAck, Receive, Base, ChunkKinds
<1>3. net'[p] = Tail(net[p]) /\ net'[Other(p)] = net[Other(p)] /\ \A o \in Peers \ {p} : net'[o] = net[o]
  BY <1>0, <1>2
<1>4. /\ Tail(net[p]) \in Seq(Packet) /\ Len(Tail(net[p])) = Len(net[p]) - 1
      /\ \A k \in 1 .. Len(net[p]) - 1 : Tail(net[p])[k] = net[p][k + 1]
  BY <1>1, Heads
<1>5. Len(net[Other(p)]) \in Nat
  BY <1>0, <1>2
<1>6. /\ phase' \in [Messages -> {"new", "waiting", "resumed", "done"}]
      /\ \A m \in Messages : phase'[m] = phase[m] \/ (phase[m] = "waiting" /\ phase'[m] = "resumed")
  <2>0. phase \in [Messages -> {"new", "waiting", "resumed", "done"}]
    BY DEF Base, ChunkKinds
  <2>1. CASE GotMessage(p, Head(net[p]))
    BY <2>0, <2>1 DEF GotMessage
  <2>2. CASE GotAck(p, Head(net[p]))
    BY <2>0, <2>2 DEF GotAck
  <2>. QED
    BY <2>1, <2>2 DEF GotPacket
<1>7. net' \in [Peers -> Seq(Packet)]
  BY <1>2, <1>4
<1>8. \A m \in Messages : /\ phase'[m] = "new" <=> phase[m] = "new"
                          /\ phase'[m] \in {"waiting", "resumed"} => phase[m] \in {"waiting", "resumed"}
  BY <1>6
<1>9. /\ Len(net'[p]) = Len(net[p]) - 1
      /\ \A k \in 1 .. Len(net'[p]) : net'[p][k] = net[p][k + 1]
  BY <1>3, <1>4
<1>10. /\ Len(net[Other(p)]) <= Len(net'[Other(p)])
       /\ \A k \in 1 .. Len(net[Other(p)]) : net'[Other(p)][k] = net[Other(p)][k]
       /\ \A k \in 1 .. Len(net'[Other(p)]) : k \in 1 .. Len(net[Other(p)]) \/ net'[Other(p)][k].type = "ack"
  BY <1>3, <1>5
<1>. QED
  BY <1>1, <1>2, <1>6, <1>7, <1>8, <1>9, <1>10 DEF Takes

(* With a chunk, one ack is sent.                                          *)
LEMMA TakesChunk ==
  ASSUME Base, NEW p \in Peers, GotPacket(p), GotChunk(p, Head(net[p]))
  PROVE  LET ack == Ack(Head(net[p]).id)
             o == Other(p)
         IN /\ Takes(p) /\ UNCHANGED phase
            /\ Len(net'[o]) = Len(net[o]) + 1 /\ net'[o][Len(net[o]) + 1] = ack
<1>. DEFINE packet == Head(net[p])
            ack == Ack(packet.id)
            o == Other(p)
<1>0. o \in Peers /\ o # p
  BY PeersAre
<1>1. /\ net[p] # <<>> /\ UNCHANGED <<offset, chunkOf, writtenOn, chunkId, connection, leftover>>
      /\ packet.type = "chunk" /\ UNCHANGED phase
  <2>1. net[p] # <<>> /\ UNCHANGED <<offset, chunkOf, writtenOn, chunkId, connection, leftover>>
    BY DEF GotPacket
  <2>2. packet.type = "chunk" /\ UNCHANGED phase
    BY DEF GotChunk
  <2>. QED
    BY <2>1, <2>2
<1>2. net' = [net EXCEPT ![p] = Tail(@), ![o] = Append(@, ack)] /\ net \in [Peers -> Seq(Packet)]
  BY DEF GotChunk, Base, ChunkKinds
<1>3. /\ packet = net[p][1] /\ packet \in Packet
      /\ Tail(net[p]) \in Seq(Packet) /\ Len(Tail(net[p])) = Len(net[p]) - 1
      /\ \A k \in 1 .. Len(net[p]) - 1 : Tail(net[p])[k] = net[p][k + 1]
  BY <1>1, Heads
<1>4. ack \in Packet /\ ack.type = "ack"
  <2>1. packet.id \in Nat
    BY <1>1, <1>3 DEF Packet
  <2>. QED
    BY <2>1 DEF Ack, Packet
<1>. HIDE DEF packet, ack, o
<1>5. /\ net'[p] = Tail(net[p]) /\ net'[o] = Append(net[o], ack)
      /\ \A r \in Peers : r # p /\ r # o => net'[r] = net[r]
  BY <1>0, <1>2
<1>6. /\ Len(net'[o]) = Len(net[o]) + 1 /\ Len(net[o]) \in Nat
      /\ net'[o][Len(net[o]) + 1] = ack
      /\ \A k \in 1 .. Len(net[o]) : net'[o][k] = net[o][k]
      /\ net'[o] \in Seq(Packet)
  <2>1. net[o] \in Seq(Packet)
    BY <1>0, <1>2
  <2>. QED
    BY <1>4, <1>5, <2>1, PacketBehind
<1>7. net' \in [Peers -> Seq(Packet)]
  <2>1. net' = [r \in Peers |-> net'[r]]
    BY <1>2
  <2>2. \A r \in Peers : net'[r] \in Seq(Packet)
    BY <1>2, <1>3, <1>5, <1>6
  <2>. QED
    BY <2>1, <2>2
<1>8. \A k \in 1 .. Len(net'[o]) : k \in 1 .. Len(net[o]) \/ net'[o][k].type = "ack"
  BY <1>4, <1>6
<1>9. /\ Len(net'[p]) = Len(net[p]) - 1
      /\ \A k \in 1 .. Len(net'[p]) : net'[p][k] = net[p][k + 1]
  BY <1>3, <1>5
<1>10. phase' \in [Messages -> {"new", "waiting", "resumed", "done"}]
  BY <1>1 DEF Base, ChunkKinds
<1>11. /\ Len(net[Other(p)]) <= Len(net'[Other(p)])
       /\ \A k \in 1 .. Len(net[Other(p)]) : net'[Other(p)][k] = net[Other(p)][k]
       /\ \A k \in 1 .. Len(net'[Other(p)]) : k \in 1 .. Len(net[Other(p)]) \/ net'[Other(p)][k].type = "ack"
  <2>1. Len(net[o]) <= Len(net'[o])
    BY <1>6
  <2>. QED
    BY <1>6, <1>8, <2>1 DEF o
<1>12. \A m \in Messages : /\ phase'[m] = "new" <=> phase[m] = "new"
                           /\ phase'[m] \in {"waiting", "resumed"} => phase[m] \in {"waiting", "resumed"}
  BY <1>1
<1>13. Takes(p)
  BY <1>1, <1>7, <1>9, <1>10, <1>11, <1>12 DEF Takes
<1>. QED
  BY <1>1, <1>6, <1>13 DEF packet, ack, o

(* Where the packets are: those of p moved up by one.                      *)
LEMMA TakenFrom ==
  ASSUME Base, NEW p \in Peers, Takes(p)
  PROVE  /\ \A o \in Peers : o = p \/ o = Other(p)
         /\ \A o \in Peers : Len(net[o]) \in Nat /\ Len(net'[o]) \in Nat
         /\ \A k \in 1 .. Len(net'[p]) : k + 1 \in 1 .. Len(net[p]) /\ net'[p][k] = net[p][k + 1]
         /\ \A k \in 1 .. Len(net[p]) : k # 1 => k - 1 \in 1 .. Len(net'[p]) /\ net'[p][k - 1] = net[p][k]
         /\ \A k \in 1 .. Len(net[Other(p)]) :
              k \in 1 .. Len(net'[Other(p)]) /\ net'[Other(p)][k] = net[Other(p)][k]
         /\ \A k \in 1 .. Len(net'[Other(p)]) : net'[Other(p)][k].type # "ack" =>
              k \in 1 .. Len(net[Other(p)]) /\ net'[Other(p)][k] = net[Other(p)][k]
         /\ \A m \in Messages : Current(m)' = Current(m)
<1>1. Other(p) \in Peers /\ \A o \in Peers : o = p \/ o = Other(p)
  BY DEF Peers, Other
<1>2. \A o \in Peers : Len(net[o]) \in Nat /\ Len(net'[o]) \in Nat
  BY DEF Base, ChunkKinds, Takes
<1>3. \A k \in 1 .. Len(net'[p]) : k + 1 \in 1 .. Len(net[p]) /\ net'[p][k] = net[p][k + 1]
  BY <1>2 DEF Takes
<1>4. ASSUME NEW k \in 1 .. Len(net[p]), k # 1
      PROVE  k - 1 \in 1 .. Len(net'[p]) /\ net'[p][k - 1] = net[p][k]
  <2>1. k - 1 \in 1 .. Len(net'[p]) /\ (k - 1) + 1 = k
    BY <1>2, <1>4 DEF Takes
  <2>2. net'[p][k - 1] = net[p][(k - 1) + 1]
    BY <1>3, <2>1
  <2>. QED
    BY <2>1, <2>2
<1>5. \A k \in 1 .. Len(net[Other(p)]) :
        k \in 1 .. Len(net'[Other(p)]) /\ net'[Other(p)][k] = net[Other(p)][k]
  BY <1>1, <1>2 DEF Takes
<1>6. \A k \in 1 .. Len(net'[Other(p)]) : net'[Other(p)][k].type # "ack" =>
        k \in 1 .. Len(net[Other(p)]) /\ net'[Other(p)][k] = net[Other(p)][k]
  BY <1>1 DEF Takes
<1>7. \A m \in Messages : Current(m)' = Current(m)
  BY DEF Takes, Current
<1>. QED
  BY <1>1, <1>2, <1>3, <1>4, <1>5, <1>6, <1>7

LEMMA TakesBase ==
  ASSUME Base, NEW p \in Peers, Takes(p),
         DOMAIN chunkAcks' = Peers, DOMAIN chunks' = Peers,
         \A o \in Peers : \A id \in DOMAIN chunkAcks'[o] : chunkAcks'[o][id] \in [msg : Messages, upTo : Nat],
         \A o \in Peers : \A c \in DOMAIN chunks'[o] : chunks'[o][c] \in [buffers : Seq(Piece), loaded : Nat],
         received' \in [Peers -> Seq(Seq(Piece))]
  PROVE  Base'
<1>1. UNCHANGED <<offset, chunkOf, writtenOn, chunkId, connection, leftover>>
  BY DEF Takes
<1>2. ChunkKinds'
  BY <1>1 DEF Base, ChunkKinds, Takes
<1>3. Phases'
  BY <1>1 DEF Base, Phases, Takes
<1>4. OwnChunks'
  <2>1. \A m \in Messages : Current(m)' = Current(m)
    BY TakenFrom
  <2>. QED
    BY <1>1, <2>1 DEF Base, OwnChunks
<1>5. Packets'
  <2>. SUFFICES ASSUME NEW o \in Peers, NEW k \in 1 .. Len(net'[o])
                PROVE  /\ \A n \in Messages : ChunkOf(o, k, n)' =>
                            /\ From[n] = Other(o) /\ Large(n) /\ Current(n)'
                            /\ net'[o][k].id = MsgId[n] /\ net'[o][k].chunk = chunkOf'[n] /\ net'[o][k].total = ByteLength[n]
                            /\ End(o, k)' <= offset'[n]
                       /\ net'[o][k].type = "message" =>
                            \E n \in Messages : net'[o][k] = Small(n) /\ From[n] = Other(o) /\ ~ Large(n) /\ Current(n)'
    BY DEF Packets
  <2>1. \A m \in Messages : Current(m)' = Current(m)
    BY TakenFrom
  <2>2. CASE net'[o][k].type = "ack"
    BY <2>2 DEF ChunkOf
  <2>3. CASE net'[o][k].type # "ack"
    <3>1. PICK j \in 1 .. Len(net[o]) : net'[o][k] = net[o][j]
      <4>1. CASE o = p
        BY <4>1, TakenFrom
      <4>2. CASE o = Other(p)
        BY <2>3, <4>2, TakenFrom
      <4>. QED
        BY <4>1, <4>2, TakenFrom
    <3>2. \A n \in Messages : ChunkOf(o, k, n)' => ChunkOf(o, j, n) /\ End(o, k)' = End(o, j)
      BY <3>1 DEF ChunkOf, End
    <3>3. ASSUME NEW n \in Messages, ChunkOf(o, k, n)'
          PROVE  /\ From[n] = Other(o) /\ Large(n) /\ Current(n)'
                 /\ net'[o][k].id = MsgId[n] /\ net'[o][k].chunk = chunkOf'[n] /\ net'[o][k].total = ByteLength[n]
                 /\ End(o, k)' <= offset'[n]
      BY <1>1, <2>1, <3>1, <3>2, <3>3 DEF Base, Packets
    <3>4. ASSUME net'[o][k].type = "message"
          PROVE  \E n \in Messages : net'[o][k] = Small(n) /\ From[n] = Other(o) /\ ~ Large(n) /\ Current(n)'
      <4>0. Packets /\ net[o][j].type = "message"
        BY <3>1, <3>4 DEF Base
      <4>1. PICK n \in Messages : net[o][j] = Small(n) /\ From[n] = Other(o) /\ ~ Large(n) /\ Current(n)
        BY <4>0 DEF Packets
      <4>. QED
        BY <2>1, <3>1, <4>1
    <3>. QED
      BY <3>3, <3>4
  <2>. QED
    BY <2>2, <2>3
<1>. QED
  BY <1>2, <1>3, <1>4, <1>5 DEF Base

(* A message whose chunk is not the one that is taken stays lined.         *)
LEMMA TakesLined ==
  ASSUME Base, NEW p \in Peers, Takes(p), NEW n \in Messages, Lined(n), Expected(n)' = Expected(n),
         ~ ChunkOf(p, 1, n)
  PROVE  Lined(n)'
<1>1. From[n] \in Peers /\ Other(From[n]) \in Peers /\ offset'[n] = offset[n]
  BY FromPeers DEF Takes
<1>2. \A o \in Peers : Len(net[o]) \in Nat /\ Len(net'[o]) \in Nat
  BY TakenFrom
<1>3. CASE Other(From[n]) = p
  <2>1. \A k \in 1 .. Len(net[p]) : ChunkOf(p, k, n) => k - 1 \in 1 .. Len(net'[p]) /\ net'[p][k - 1] = net[p][k]
    BY TakenFrom
  <2>2. \A k \in 1 .. Len(net'[p]) : ChunkOf(p, k, n)' => k + 1 \in 1 .. Len(net[p]) /\ net'[p][k] = net[p][k + 1]
    BY TakenFrom
  <2>3. 1 \in {0, 1}
    OBVIOUS
  <2>. QED
    BY <1>1, <1>2, <1>3, <2>1, <2>2, <2>3, StillLined
<1>4. CASE Other(From[n]) = Other(p)
  <2>. DEFINE o == Other(p)
  <2>1. \A k \in 1 .. Len(net[o]) : k \in 1 .. Len(net'[o]) /\ net'[o][k] = net[o][k]
    BY TakenFrom
  <2>2. \A k \in 1 .. Len(net'[o]) : ChunkOf(o, k, n)' => k \in 1 .. Len(net[o]) /\ net'[o][k] = net[o][k]
    BY TakenFrom DEF ChunkOf
  <2>3. 0 \in {0, 1}
    OBVIOUS
  <2>. HIDE DEF o
  <2>4. o = Other(From[n]) /\ Len(net[o]) \in Nat /\ Len(net'[o]) \in Nat
    BY <1>1, <1>2, <1>4 DEF o
  <2>5. \A k \in 1 .. Len(net[o]) : k - 0 = k
    BY <2>4
  <2>6. \A k \in 1 .. Len(net'[o]) : k + 0 = k
    BY <2>4
  <2>. QED
    BY <1>1, <2>1, <2>2, <2>3, <2>4, <2>5, <2>6, StillLined
<1>. QED
  BY <1>1, <1>3, <1>4, TakenFrom

(* What the acks and the writers do when a packet is taken that is not a   *)
(* chunk or an ack of n.                                                   *)
LEMMA TakesInTurn ==
  ASSUME Base, NEW p \in Peers, Takes(p), NEW n \in Messages, InTurn(n),
         phase'[n] = phase[n],
         \A k \in 1 .. Len(net'[Other(p)]) : k \in 1 .. Len(net[Other(p)]) \/ net'[Other(p)][k] # Ack(MsgId[n])
  PROVE  InTurn(n)'
<1>. DEFINE q == Other(p)
            r == Other(From[n])
<1>1. /\ From[n] \in Peers /\ r \in Peers /\ r # From[n] /\ q \in Peers /\ q # p /\ \A o \in Peers : o = p \/ o = q
      /\ \A o \in Peers : Len(net[o]) \in Nat /\ Len(net'[o]) \in Nat
  BY FromPeers, PeersAre, TakenFrom
<1>2. \A k \in 1 .. Len(net'[p]) : k + 1 \in 1 .. Len(net[p]) /\ net'[p][k] = net[p][k + 1]
  BY TakenFrom
<1>3. \A k \in 1 .. Len(net'[q]) : net'[q][k].type = "chunk" => k \in 1 .. Len(net[q]) /\ net'[q][k] = net[q][k]
  BY TakenFrom
<1>4. \A k \in 1 .. Len(net'[q]) : net'[q][k] = Ack(MsgId[n]) => k \in 1 .. Len(net[q]) /\ net'[q][k] = net[q][k]
  BY TakenFrom
<1>5. 0 \in {0, 1} /\ 1 \in {0, 1} /\ \A o \in Peers : \A k \in 1 .. Len(net'[o]) : k + 0 = k
  BY <1>1
<1>. HIDE DEF q, r
<1>6. CASE From[n] = p
  <2>1. \A k \in 1 .. Len(net'[From[n]]) : AckOf(n, k)' => k + 1 \in 1 .. Len(net[From[n]]) /\ AckOf(n, k + 1)
    BY <1>2, <1>6 DEF AckOf
  <2>2. r = q
    BY <1>1, <1>6
  <2>3. \A k \in 1 .. Len(net'[r]) : ChunkOf(r, k, n)' => k + 0 \in 1 .. Len(net[r]) /\ ChunkOf(r, k + 0, n)
    BY <1>1, <1>3, <1>5, <2>2 DEF ChunkOf
  <2>. QED
    BY <1>1, <1>5, <2>1, <2>3, StillInTurn DEF r
<1>7. CASE From[n] = q
  <2>1. \A k \in 1 .. Len(net'[From[n]]) : AckOf(n, k)' => k + 0 \in 1 .. Len(net[From[n]]) /\ AckOf(n, k + 0)
    BY <1>1, <1>4, <1>5, <1>7 DEF AckOf
  <2>2. r = p
    BY <1>1, <1>7
  <2>3. \A k \in 1 .. Len(net'[r]) : ChunkOf(r, k, n)' => k + 1 \in 1 .. Len(net[r]) /\ ChunkOf(r, k + 1, n)
    BY <1>2, <2>2 DEF ChunkOf
  <2>. QED
    BY <1>1, <1>5, <2>1, <2>3, StillInTurn DEF r
<1>. QED
  BY <1>1, <1>6, <1>7

LEMMA TakesRegistered ==
  ASSUME Base, NEW p \in Peers, Takes(p), Registered,
         \A o \in Peers : \A id \in DOMAIN chunkAcks'[o] : id \in DOMAIN chunkAcks[o] /\ chunkAcks'[o][id] = chunkAcks[o][id],
         \A k \in 1 .. Len(net'[Other(p)]) : k \in 1 .. Len(net[Other(p)])
           \/ \E m \in Messages : AckOf(m, k)' /\ From[m] = Other(p) /\ Large(m) /\ Current(m)'
  PROVE  Registered'
<1>1. \A o \in Peers : o = p \/ o = Other(p)
  BY TakenFrom
<1>2. ASSUME NEW o \in Peers, NEW k \in 1 .. Len(net'[o]), net'[o][k].type = "ack"
      PROVE  \E m \in Messages : AckOf(m, k)' /\ From[m] = o /\ Large(m) /\ Current(m)'
  <2>1. ASSUME NEW j \in 1 .. Len(net[o]), net'[o][k] = net[o][j]
        PROVE  \E m \in Messages : AckOf(m, k)' /\ From[m] = o /\ Large(m) /\ Current(m)'
    <3>1. PICK m \in Messages : AckOf(m, j) /\ From[m] = o /\ Large(m) /\ Current(m)
      BY <1>2, <2>1 DEF Registered
    <3>2. Current(m)'
      BY <3>1, TakenFrom
    <3>3. AckOf(m, k)'
      BY <1>2, <2>1, <3>1 DEF AckOf
    <3>. QED
      BY <3>1, <3>2, <3>3
  <2>2. CASE o = p
    BY <2>1, <2>2, TakenFrom
  <2>3. CASE o = Other(p) /\ k \in 1 .. Len(net[o])
    BY <2>1, <2>3, TakenFrom
  <2>. QED
    BY <1>1, <2>2, <2>3
<1>. QED
  BY <1>2 DEF Registered

-----------------------------------------------------------------------------
(* A small message arrives.                                                *)
LEMMA ArrivesSmall ==
  ASSUME Base, NEW p \in Peers, GotPacket(p), GotMessage(p, Head(net[p]))
  PROVE  \E m \in Messages :
           /\ net[p] # <<>> /\ net[p][1] = Small(m) /\ 1 \in 1 .. Len(net[p])
           /\ From[m] = Other(p) /\ ~ Large(m) /\ Current(m) /\ Takes(p) /\ net'[Other(p)] = net[Other(p)]
           /\ Small(m).buffer \in Seq(Piece)
           /\ received' = [received EXCEPT ![p] = Append(received[p], Small(m).buffer)]
           /\ UNCHANGED <<phase, chunkAcks, chunks>>
<1>1. net[p] # <<>> /\ Head(net[p]).type = "message"
  BY DEF GotPacket, GotMessage
<1>2. Head(net[p]) = net[p][1] /\ 1 \in 1 .. Len(net[p])
  BY <1>1, Heads
<1>3. PICK m \in Messages : net[p][1] = Small(m) /\ From[m] = Other(p) /\ ~ Large(m) /\ Current(m)
  BY <1>1, <1>2 DEF Base, Packets
<1>4. ~ GotChunk(p, Head(net[p]))
  BY <1>1 DEF GotChunk
<1>5. Takes(p) /\ net' = [net EXCEPT ![p] = Tail(net[p])]
  BY <1>4, TakesMessageOrAck
<1>6. net'[Other(p)] = net[Other(p)]
  BY <1>5, PeersAre DEF Base, ChunkKinds
<1>7. Small(m).buffer \in Seq(Piece)
  <2>1. [msg |-> m, at |-> 0, len |-> ByteLength[m]] \in Piece
    BY ChunksAssumption DEF Piece
  <2>2. <<[msg |-> m, at |-> 0, len |-> ByteLength[m]]>> \in Seq(Piece)
    BY <2>1
  <2>. QED
    BY <2>2 DEF Small
<1>8. received' = [received EXCEPT ![p] = Append(received[p], Small(m).buffer)] /\ UNCHANGED <<phase, chunkAcks, chunks>>
  BY <1>2, <1>3 DEF GotMessage
<1>. QED
  BY <1>1, <1>2, <1>3, <1>5, <1>6, <1>7, <1>8

(* A buffer handed out in addition to those before.                        *)
LEMMA HandedOut ==
  ASSUME Base, NEW p \in Peers, NEW buffer \in Seq(Piece),
         received' = [received EXCEPT ![p] = Append(received[p], buffer)]
  PROVE  /\ received' \in [Peers -> Seq(Seq(Piece))]
         /\ \A o \in Peers \ {p} : received'[o] = received[o]
         /\ Len(received[p]) \in Nat /\ Len(received'[p]) = Len(received[p]) + 1
         /\ received'[p][Len(received[p]) + 1] = buffer
         /\ \A k \in 1 .. Len(received[p]) : received'[p][k] = received[p][k]
<1>1. received \in [Peers -> Seq(Seq(Piece))] /\ received[p] \in Seq(Seq(Piece))
  BY DEF Base, ChunkKinds
<1>2. /\ received'[p] = Append(received[p], buffer)
      /\ \A o \in Peers \ {p} : received'[o] = received[o]
  BY <1>1
<1>3. /\ Len(received[p]) \in Nat /\ Len(received'[p]) = Len(received[p]) + 1
      /\ received'[p][Len(received[p]) + 1] = buffer
      /\ \A k \in 1 .. Len(received[p]) : received'[p][k] = received[p][k]
      /\ received'[p] \in Seq(Seq(Piece))
  BY <1>1, <1>2, PacketBehind
<1>4. received' \in [Peers -> Seq(Seq(Piece))]
  BY <1>1, <1>2, <1>3
<1>. QED
  BY <1>2, <1>3, <1>4

(* A whole message that was not handed out yet.                            *)
LEMMA HandedOutWhole ==
  ASSUME Base, WholeAndOnce, NEW p \in Peers, NEW buffer \in Seq(Piece),
         received' = [received EXCEPT ![p] = Append(received[p], buffer)],
         NEW m \in Messages, From[m] = Other(p), phase[m] # "new", IsWhole(m, buffer), ~ Arrived(m),
         \A n \in Messages : phase[n] # "new" => phase'[n] # "new"
  PROVE  /\ WholeAndOnce'
         /\ Arrived(m)'
         /\ \A n \in Messages \ {m} : Arrived(n)' = Arrived(n)
<1>0. Other(From[m]) = p
  BY PeersAre
<1>1. /\ \A o \in Peers \ {p} : received'[o] = received[o]
      /\ Len(received[p]) \in Nat /\ Len(received'[p]) = Len(received[p]) + 1
      /\ received'[p][Len(received[p]) + 1] = buffer
      /\ \A k \in 1 .. Len(received[p]) : received'[p][k] = received[p][k]
  BY HandedOut
<1>2. buffer[1].msg = m
  BY DEF IsWhole, PartOf
<1>. PICK last : last = Len(received[p]) + 1
  OBVIOUS
<1>3. \A k \in 1 .. Len(received'[p]) : k = last \/ k \in 1 .. Len(received[p])
  BY <1>1
<1>4. last \in 1 .. Len(received'[p]) /\ received'[p][last] = buffer /\ last \notin 1 .. Len(received[p])
  BY <1>1
<1>5. \A k \in 1 .. Len(received[p]) : k \in 1 .. Len(received'[p]) /\ received[p][k][1].msg # m
  BY <1>0, <1>1 DEF Arrived
<1>6. Arrived(m)'
  BY <1>0, <1>2, <1>4 DEF Arrived
<1>7. ASSUME NEW n \in Messages \ {m}
      PROVE  Arrived(n)' = Arrived(n)
  <2>1. CASE Other(From[n]) = p
    BY <1>1, <1>2, <1>3, <1>4, <1>5, <2>1 DEF Arrived
  <2>2. CASE Other(From[n]) # p
    <3>1. received'[Other(From[n])] = received[Other(From[n])]
      BY <1>1, <2>2, FromPeers
    <3>. QED
      BY <3>1 DEF Arrived
  <2>. QED
    BY <2>1, <2>2
<1>8. WholeAndOnce'
  <2>1. ASSUME NEW o \in Peers, NEW k \in 1 .. Len(received'[o])
        PROVE  \E n \in Messages : HandsOut(o, k, n)'
    <3>1. CASE o = p /\ k = last
      <4>1. HandsOut(o, k, m)'
        BY <1>4, <3>1 DEF HandsOut
      <4>. QED
        BY <4>1
    <3>2. CASE received'[o][k] = received[o][k] /\ k \in 1 .. Len(received[o])
      <4>1. PICK n \in Messages : HandsOut(o, k, n)
        BY <3>2 DEF WholeAndOnce
      <4>2. HandsOut(o, k, n)'
        BY <3>2, <4>1 DEF HandsOut
      <4>. QED
        BY <4>2
    <3>. QED
      BY <1>1, <1>3, <3>1, <3>2
  <2>2. ASSUME NEW o \in Peers, NEW j \in 1 .. Len(received'[o]), NEW k \in 1 .. Len(received'[o]),
               received'[o][j][1].msg = received'[o][k][1].msg
        PROVE  j = k
    <3>1. CASE o # p
      BY <1>1, <2>2, <3>1 DEF WholeAndOnce
    <3>2. CASE o = p /\ j # last /\ k # last
      BY <1>1, <1>3, <2>2, <3>2 DEF WholeAndOnce
    <3>3. CASE o = p /\ (j = last \/ k = last)
      BY <1>1, <1>2, <1>3, <1>4, <1>5, <2>2, <3>3
    <3>. QED
      BY <3>1, <3>2, <3>3
  <2>. QED
    BY <2>1, <2>2 DEF WholeAndOnce
<1>. QED
  BY <1>6, <1>7, <1>8

LEMMA GetsSmall ==
  ASSUME Base, NEW p \in Peers, GotPacket(p), GotMessage(p, Head(net[p]))
  PROVE  Base' /\ (Content => Content') /\ (FlowInv => FlowInv')
<1>1. PICK m \in Messages :
           /\ net[p] # <<>> /\ net[p][1] = Small(m) /\ 1 \in 1 .. Len(net[p])
           /\ From[m] = Other(p) /\ ~ Large(m) /\ Current(m) /\ Takes(p) /\ net'[Other(p)] = net[Other(p)]
           /\ Small(m).buffer \in Seq(Piece)
           /\ received' = [received EXCEPT ![p] = Append(received[p], Small(m).buffer)]
           /\ UNCHANGED <<phase, chunkAcks, chunks>>
  BY ArrivesSmall
<1>2. Small(m).type = "message" /\ Small(m).buffer = <<[msg |-> m, at |-> 0, len |-> ByteLength[m]]>>
  BY SmallIs
<1>3. Other(From[m]) = p /\ Other(p) \in Peers /\ phase[m] # "new"
  BY <1>1, PeersAre DEF Current
<1>4. UNCHANGED <<offset, chunkOf, writtenOn, chunkId, connection, leftover>>
  BY <1>1 DEF Takes
<1>5. Base'
  <2>1. received' \in [Peers -> Seq(Seq(Piece))]
    BY <1>1, HandedOut
  <2>2. /\ DOMAIN chunkAcks = Peers /\ DOMAIN chunks = Peers
        /\ \A o \in Peers : \A id \in DOMAIN chunkAcks[o] : chunkAcks[o][id] \in [msg : Messages, upTo : Nat]
        /\ \A o \in Peers : \A c \in DOMAIN chunks[o] : chunks[o][c] \in [buffers : Seq(Piece), loaded : Nat]
    BY DEF Base, ChunkKinds
  <2>. QED
    BY <1>1, <2>1, <2>2, TakesBase
<1>6. ASSUME Content PROVE Content'
  <2>1. IsWhole(m, Small(m).buffer)
    BY <1>2, ChunksAssumption DEF IsWhole, PartOf
  <2>2. ~ Arrived(m) /\ \A k \in 1 .. Len(net[p]) : net[p][k] = Small(m) => k = 1
    BY <1>1, <1>3, <1>6 DEF Content, SmallOnce
  <2>3. WholeAndOnce' /\ \A n \in Messages \ {m} : Arrived(n)' = Arrived(n)
    BY <1>1, <1>3, <1>6, <2>1, <2>2, HandedOutWhole DEF Content
  <2>4. \A n \in Messages : Large(n) => Arrived(n)' = Arrived(n) /\ Expected(n)' = Expected(n)
    BY <1>1, <1>4, <2>3 DEF Expected
  <2>5. \A n \in Messages : Current(n)' = Current(n)
    BY <1>1, TakenFrom
  <2>6. ASSUME NEW n \in Messages, Large(n), Current(n)'
        PROVE  Lined(n)'
    <3>1. Lined(n) /\ ~ ChunkOf(p, 1, n)
      BY <1>1, <1>2, <1>6, <2>5, <2>6 DEF Content, ChunkOf
    <3>. QED
      BY <1>1, <2>4, <2>6, <3>1, TakesLined
  <2>7. KeepsParts'
    <3>. SUFFICES ASSUME NEW o \in Peers, NEW c \in DOMAIN chunks[o]
                  PROVE  \E n \in Messages : Keeps(o, c, n)'
      BY <1>1 DEF KeepsParts
    <3>1. PICK n \in Messages : Keeps(o, c, n)
      BY <1>6 DEF Content, KeepsParts
    <3>2. Large(n) /\ Current(n)' /\ ~ Arrived(n)'
      BY <2>4, <2>5, <3>1 DEF Keeps
    <3>. QED
      BY <1>1, <1>4, <3>1, <3>2 DEF Keeps
  <2>8. SmallOnce'
    <3>. SUFFICES ASSUME NEW n \in Messages, NEW o \in Peers, o = Other(From[n])
                  PROVE  /\ \A k \in 1 .. Len(net'[o]) : net'[o][k] = Small(n) => ~ Arrived(n)'
                         /\ \A j, k \in 1 .. Len(net'[o]) : net'[o][j] = Small(n) /\ net'[o][k] = Small(n) => j = k
      BY FromPeers DEF SmallOnce
    <3>1. /\ \A k \in 1 .. Len(net[o]) : net[o][k] = Small(n) => ~ Arrived(n)
          /\ \A j, k \in 1 .. Len(net[o]) : net[o][j] = Small(n) /\ net[o][k] = Small(n) => j = k
      BY <1>6 DEF Content, SmallOnce
    <3>2. CASE o = p
      <4>1. /\ \A k \in 1 .. Len(net'[p]) : k + 1 \in 1 .. Len(net[p]) /\ net'[p][k] = net[p][k + 1]
            /\ Len(net'[p]) \in Nat
        BY <1>1, TakenFrom
      <4>2. CASE n = m
        <5>1. \A k \in 1 .. Len(net'[p]) : k + 1 # 1
          BY <4>1
        <5>2. \A k \in 1 .. Len(net'[p]) : net'[p][k] # Small(m)
          BY <2>2, <4>1, <5>1
        <5>. QED
          BY <3>2, <4>2, <5>2
      <4>3. CASE n # m
        <5>1. \A k \in 1 .. Len(net'[p]) : net'[p][k] = Small(n) => ~ Arrived(n)'
          BY <2>3, <3>1, <3>2, <4>1, <4>3
        <5>2. ASSUME NEW j \in 1 .. Len(net'[p]), NEW k \in 1 .. Len(net'[p]), net'[p][j] = Small(n), net'[p][k] = Small(n)
              PROVE  j = k
          <6>1. j + 1 = k + 1
            BY <3>1, <3>2, <4>1, <5>2
          <6>. QED
            BY <4>1, <6>1
        <5>. QED
          BY <3>2, <5>1, <5>2
      <4>. QED
        BY <4>2, <4>3
    <3>3. CASE o = Other(p)
      <4>1. n # m
        BY <1>3, <3>3, PeersAre
      <4>. QED
        BY <1>1, <2>3, <3>1, <3>3, <4>1
    <3>. QED
      BY <1>1, <3>2, <3>3, TakenFrom
  <2>. QED
    BY <2>3, <2>6, <2>7, <2>8 DEF Content
<1>7. ASSUME FlowInv PROVE FlowInv'
  <2>1. Registered'
    BY <1>1, <1>7, TakesRegistered DEF FlowInv
  <2>2. \A n \in Messages : Large(n) => InTurn(n)'
    BY <1>1, <1>7, TakesInTurn DEF FlowInv
  <2>. QED
    BY <2>1, <2>2 DEF FlowInv
<1>. QED
  BY <1>5, <1>6, <1>7

-----------------------------------------------------------------------------
(* An ack arrives.                                                         *)
LEMMA GetsAck ==
  ASSUME Base, NEW p \in Peers, GotPacket(p), GotAck(p, Head(net[p]))
  PROVE  Base' /\ (Content => Content') /\ (OwnIds /\ FlowInv => FlowInv')
<1>. DEFINE packet == Head(net[p])
<1>1. /\ net[p] # <<>> /\ packet.type = "ack" /\ UNCHANGED <<chunkAcks, chunks, received>>
      /\ phase' = [m \in Messages |->
          IF /\ packet.id \in DOMAIN chunkAcks[p]
             /\ chunkAcks[p][packet.id] = [msg |-> m, upTo |-> offset[m]]
             /\ phase[m] = "waiting"
          THEN "resumed" ELSE phase[m]]
  BY DEF GotPacket, GotAck
<1>2. packet = net[p][1] /\ 1 \in 1 .. Len(net[p]) /\ packet \in Packet
  BY <1>1, Heads
<1>3. ~ GotChunk(p, packet)
  BY <1>1 DEF GotChunk
<1>4. Takes(p) /\ net' = [net EXCEPT ![p] = Tail(net[p])]
  BY <1>3, TakesMessageOrAck
<1>5. net'[Other(p)] = net[Other(p)] /\ Other(p) \in Peers
  BY <1>4, PeersAre DEF Base, ChunkKinds
<1>6. UNCHANGED <<offset, chunkOf, writtenOn, chunkId, connection, leftover>>
  BY <1>4 DEF Takes
<1>. HIDE DEF packet
<1>7. Base'
  <2>1. /\ DOMAIN chunkAcks = Peers /\ DOMAIN chunks = Peers
        /\ \A o \in Peers : \A id \in DOMAIN chunkAcks[o] : chunkAcks[o][id] \in [msg : Messages, upTo : Nat]
        /\ \A o \in Peers : \A c \in DOMAIN chunks[o] : chunks[o][c] \in [buffers : Seq(Piece), loaded : Nat]
        /\ received \in [Peers -> Seq(Seq(Piece))]
    BY DEF Base, ChunkKinds
  <2>. QED
    BY <1>1, <1>4, <2>1, TakesBase
<1>8. ASSUME Content PROVE Content'
  <2>1. \A n \in Messages : Arrived(n)' = Arrived(n) /\ Expected(n)' = Expected(n)
    BY <1>1, <1>6 DEF Arrived, Expected
  <2>2. \A n \in Messages : Current(n)' = Current(n)
    BY <1>4, TakenFrom
  <2>3. ASSUME NEW n \in Messages, Large(n), Current(n)'
        PROVE  Lined(n)'
    <3>1. Lined(n) /\ ~ ChunkOf(p, 1, n)
      BY <1>1, <1>2, <1>8, <2>2, <2>3 DEF Content, ChunkOf
    <3>. QED
      BY <1>4, <2>1, <3>1, TakesLined
  <2>4. KeepsParts'
    <3>. SUFFICES ASSUME NEW o \in Peers, NEW c \in DOMAIN chunks[o]
                  PROVE  \E n \in Messages : Keeps(o, c, n)'
      BY <1>1 DEF KeepsParts
    <3>1. PICK n \in Messages : Keeps(o, c, n)
      BY <1>8 DEF Content, KeepsParts
    <3>. QED
      BY <1>1, <1>6, <2>1, <2>2, <3>1 DEF Keeps
  <2>5. WholeAndOnce'
    <3>1. \A n \in Messages : phase[n] # "new" => phase'[n] # "new"
      BY <1>4 DEF Takes
    <3>. QED
      BY <1>1, <1>8, <3>1 DEF Content, WholeAndOnce, HandsOut
  <2>6. SmallOnce'
    <3>. SUFFICES ASSUME NEW n \in Messages, NEW o \in Peers, o = Other(From[n])
                  PROVE  /\ \A k \in 1 .. Len(net'[o]) : net'[o][k] = Small(n) => ~ Arrived(n)'
                         /\ \A j, k \in 1 .. Len(net'[o]) : net'[o][j] = Small(n) /\ net'[o][k] = Small(n) => j = k
      BY FromPeers DEF SmallOnce
    <3>1. /\ \A k \in 1 .. Len(net[o]) : net[o][k] = Small(n) => ~ Arrived(n)
          /\ \A j, k \in 1 .. Len(net[o]) : net[o][j] = Small(n) /\ net[o][k] = Small(n) => j = k
      BY <1>8 DEF Content, SmallOnce
    <3>2. CASE o = p
      <4>1. /\ \A k \in 1 .. Len(net'[p]) : k + 1 \in 1 .. Len(net[p]) /\ net'[p][k] = net[p][k + 1]
            /\ Len(net'[p]) \in Nat
        BY <1>4, TakenFrom
      <4>2. \A k \in 1 .. Len(net'[p]) : net'[p][k] = Small(n) => ~ Arrived(n)'
        BY <2>1, <3>1, <3>2, <4>1
      <4>3. ASSUME NEW j \in 1 .. Len(net'[p]), NEW k \in 1 .. Len(net'[p]), net'[p][j] = Small(n), net'[p][k] = Small(n)
            PROVE  j = k
        <5>1. j + 1 = k + 1
          BY <3>1, <3>2, <4>1, <4>3
        <5>. QED
          BY <4>1, <5>1
      <4>. QED
        BY <3>2, <4>2, <4>3
    <3>3. CASE o = Other(p)
      BY <1>5, <2>1, <3>1, <3>3
    <3>. QED
      BY <1>4, <3>2, <3>3, TakenFrom
  <2>. QED
    BY <2>3, <2>4, <2>5, <2>6 DEF Content
<1>9. ASSUME OwnIds, FlowInv PROVE FlowInv'
  <2>1. Registered'
    BY <1>1, <1>4, <1>5, <1>9, TakesRegistered DEF FlowInv
  <2>2. PICK m \in Messages : AckOf(m, 1) /\ From[m] = p /\ Large(m)
    BY <1>1, <1>2, <1>9 DEF FlowInv, Registered
  <2>3. packet = Ack(MsgId[m]) /\ packet.id = MsgId[m]
    BY <1>2, <2>2, KindsOfPackets DEF AckOf
  <2>4. \A n \in Messages \ {m} : phase'[n] = phase[n]
    <3>. SUFFICES ASSUME NEW n \in Messages \ {m}, phase'[n] # phase[n] PROVE FALSE
      OBVIOUS
    <3>1. packet.id \in DOMAIN chunkAcks[p] /\ chunkAcks[p][packet.id] = [msg |-> n, upTo |-> offset[n]]
      BY <1>1
    <3>2. [msg |-> n, upTo |-> offset[n]].msg = n
      OBVIOUS
    <3>3. From[n] = p /\ MsgId[n] = packet.id
      BY <1>9, <3>1, <3>2 DEF FlowInv, Registered
    <3>. QED
      BY <1>9, <2>2, <2>3, <3>3 DEF OwnIds
  <2>5. ASSUME NEW n \in Messages \ {m}, Large(n)
        PROVE  InTurn(n)'
    BY <1>4, <1>5, <1>9, <2>4, <2>5, TakesInTurn DEF FlowInv
  <2>6. InTurn(m)'
    <3>. DEFINE q == Other(p)
    <3>1. InTurn(m) /\ Other(From[m]) = q
      BY <1>9, <2>2 DEF FlowInv
    <3>2. \A k \in 1 .. Len(net[p]) : AckOf(m, k) => k = 1
      BY <1>2, <2>2, <3>1 DEF InTurn
    <3>3. \A k \in 1 .. Len(net[q]) : ~ ChunkOf(q, k, m)
      BY <1>2, <2>2, <3>1 DEF InTurn
    <3>4. \A k \in 1 .. Len(net'[q]) : ~ ChunkOf(q, k, m)'
      BY <1>5, <3>3 DEF ChunkOf
    <3>5. \A k \in 1 .. Len(net'[p]) : ~ AckOf(m, k)'
      <4>. SUFFICES ASSUME NEW k \in 1 .. Len(net'[p]), AckOf(m, k)' PROVE FALSE
        OBVIOUS
      <4>1. k + 1 \in 1 .. Len(net[p]) /\ net'[p][k] = net[p][k + 1] /\ Len(net'[p]) \in Nat
        BY <1>4, TakenFrom
      <4>2. AckOf(m, k + 1) /\ k + 1 # 1
        BY <2>2, <4>1 DEF AckOf
      <4>. QED
        BY <3>2, <4>1, <4>2
    <3>. QED
      BY <2>2, <3>1, <3>4, <3>5 DEF InTurn
  <2>. QED
    BY <2>1, <2>5, <2>6 DEF FlowInv
<1>. QED
  BY <1>7, <1>8, <1>9

-----------------------------------------------------------------------------
(* A chunk arrives.                                                        *)
LEMMA ArrivesChunk ==
  ASSUME Base, NEW p \in Peers, GotPacket(p), GotChunk(p, Head(net[p]))
  PROVE  \E m \in Messages :
           /\ net[p] # <<>> /\ Head(net[p]) = net[p][1] /\ 1 \in 1 .. Len(net[p])
           /\ ChunkOf(p, 1, m) /\ From[m] = Other(p) /\ Large(m) /\ Current(m)
           /\ net[p][1].id = MsgId[m] /\ net[p][1].chunk = chunkOf[m] /\ net[p][1].total = ByteLength[m]
           /\ net[p][1].v \in Piece /\ net[p][1].v.msg = m /\ chunkOf[m] \in Nat /\ ByteLength[m] \in Nat
           /\ Begin(p, 1) \in Nat /\ End(p, 1) \in Nat /\ Begin(p, 1) < End(p, 1)
           /\ End(p, 1) = Begin(p, 1) + net[p][1].v.len
           /\ End(p, 1) <= offset[m] /\ offset[m] <= ByteLength[m] /\ offset[m] \in Nat
<1>1. net[p] # <<>> /\ Head(net[p]).type = "chunk"
  <2>1. net[p] # <<>>
    BY DEF GotPacket
  <2>2. Head(net[p]).type = "chunk"
    BY DEF GotChunk
  <2>. QED
    BY <2>1, <2>2
<1>2. Head(net[p]) = net[p][1] /\ 1 \in 1 .. Len(net[p]) /\ Head(net[p]) \in Packet
  BY <1>1, Heads
<1>3. net[p][1].v \in Piece
  BY <1>1, <1>2 DEF Packet
<1>. DEFINE m == net[p][1].v.msg
<1>4. m \in Messages /\ net[p][1].v.at \in Nat /\ net[p][1].v.len \in Nat \ {0}
  BY <1>3 DEF Piece
<1>5. ChunkOf(p, 1, m)
  BY <1>1, <1>2 DEF ChunkOf
<1>. HIDE DEF m
<1>6. /\ From[m] = Other(p) /\ Large(m) /\ Current(m)
      /\ net[p][1].id = MsgId[m] /\ net[p][1].chunk = chunkOf[m] /\ net[p][1].total = ByteLength[m]
      /\ End(p, 1) <= offset[m]
  BY <1>2, <1>4, <1>5 DEF Base, Packets
<1>7. /\ Begin(p, 1) \in Nat /\ End(p, 1) \in Nat /\ Begin(p, 1) < End(p, 1)
      /\ End(p, 1) = Begin(p, 1) + net[p][1].v.len
  BY <1>4 DEF Begin, End
<1>8. offset[m] <= ByteLength[m] /\ offset[m] \in Nat /\ chunkOf[m] \in Nat /\ ByteLength[m] \in Nat
  BY <1>4, ChunksAssumption DEF Base, ChunkKinds
<1>9. net[p][1].v.msg = m
  BY DEF m
<1>. QED
  BY <1>1, <1>2, <1>3, <1>4, <1>5, <1>6, <1>7, <1>8, <1>9

(* What the reader has of it then.                                         *)
Now(p, c) == [buffers |-> Append(Loaded(p, c).buffers, net[p][1].v), loaded |-> Loaded(p, c).loaded + net[p][1].v.len]

LEMMA Loads ==
  ASSUME Base, NEW p \in Peers, GotPacket(p), GotChunk(p, Head(net[p])),
         NEW c \in Nat, c = net[p][1].chunk, net[p][1].v \in Piece, Head(net[p]) = net[p][1]
  PROVE  /\ Now(p, c) \in [buffers : Seq(Piece), loaded : Nat]
         /\ Loaded(p, c) \in [buffers : Seq(Piece), loaded : Nat]
         /\ \/ /\ Now(p, c).loaded = net[p][1].total
               /\ chunks' = [chunks EXCEPT ![p] = DeleteEntry(chunks[p], c)]
               /\ chunkAcks' = [chunkAcks EXCEPT ![p] = DeleteEntry(chunkAcks[p], c)]
               /\ received' = [received EXCEPT ![p] = Append(received[p], Now(p, c).buffers)]
            \/ /\ Now(p, c).loaded # net[p][1].total
               /\ chunks' = [chunks EXCEPT ![p] = SetEntry(chunks[p], c, Now(p, c))]
               /\ UNCHANGED <<chunkAcks, received>>
<1>1. Loaded(p, c) \in [buffers : Seq(Piece), loaded : Nat]
  <2>1. CASE c \in DOMAIN chunks[p]
    BY <2>1 DEF Loaded, Base, ChunkKinds
  <2>2. CASE c \notin DOMAIN chunks[p]
    <3>1. <<>> \in Seq(Piece)
      OBVIOUS
    <3>. QED
      BY <2>2, <3>1 DEF Loaded
  <2>. QED
    BY <2>1, <2>2
<1>2. Now(p, c) \in [buffers : Seq(Piece), loaded : Nat]
  <2>0. Loaded(p, c).buffers \in Seq(Piece)
    BY <1>1
  <2>1. Append(Loaded(p, c).buffers, net[p][1].v) \in Seq(Piece)
    BY <2>0
  <2>2. Loaded(p, c).loaded + net[p][1].v.len \in Nat
    BY <1>1 DEF Piece
  <2>. QED
    BY <2>1, <2>2 DEF Now
<1>3. \/ /\ Now(p, c).loaded = net[p][1].total
         /\ chunks' = [chunks EXCEPT ![p] = DeleteEntry(chunks[p], c)]
         /\ chunkAcks' = [chunkAcks EXCEPT ![p] = DeleteEntry(chunkAcks[p], c)]
         /\ received' = [received EXCEPT ![p] = Append(received[p], Now(p, c).buffers)]
      \/ /\ Now(p, c).loaded # net[p][1].total
         /\ chunks' = [chunks EXCEPT ![p] = SetEntry(chunks[p], c, Now(p, c))]
         /\ UNCHANGED <<chunkAcks, received>>
  <2>1. GotChunk(p, net[p][1])
    OBVIOUS
  <2>. QED
    BY <2>1 DEF GotChunk, Now
<1>. QED
  BY <1>1, <1>2, <1>3

(* The entries of a reader without that of c, and with another.            *)
LEMMA ChunksWithout ==
  ASSUME Base, NEW p \in Peers, NEW c, chunks' = [chunks EXCEPT ![p] = DeleteEntry(chunks[p], c)]
  PROVE  /\ DOMAIN chunks' = Peers
         /\ \A o \in Peers \ {p} : chunks'[o] = chunks[o]
         /\ DOMAIN chunks'[p] = DOMAIN chunks[p] \ {c}
         /\ \A x \in DOMAIN chunks[p] \ {c} : chunks'[p][x] = chunks[p][x]
<1>1. DOMAIN chunks = Peers
  BY DEF Base, ChunkKinds
<1>2. DOMAIN chunks' = Peers /\ chunks'[p] = DeleteEntry(chunks[p], c) /\ \A o \in Peers \ {p} : chunks'[o] = chunks[o]
  BY <1>1
<1>3. /\ DOMAIN DeleteEntry(chunks[p], c) = DOMAIN chunks[p] \ {c}
      /\ \A x \in DOMAIN chunks[p] \ {c} : DeleteEntry(chunks[p], c)[x] = chunks[p][x]
  BY DEF DeleteEntry, Restrict
<1>. QED
  BY <1>2, <1>3

LEMMA ChunksWith ==
  ASSUME Base, NEW p \in Peers, NEW c, chunks' = [chunks EXCEPT ![p] = SetEntry(chunks[p], c, Now(p, c))]
  PROVE  /\ DOMAIN chunks' = Peers
         /\ \A o \in Peers \ {p} : chunks'[o] = chunks[o]
         /\ DOMAIN chunks'[p] = DOMAIN chunks[p] \cup {c}
         /\ chunks'[p][c] = Now(p, c)
         /\ \A x \in DOMAIN chunks[p] \ {c} : chunks'[p][x] = chunks[p][x]
<1>1. DOMAIN chunks = Peers
  BY DEF Base, ChunkKinds
<1>2. DOMAIN chunks' = Peers /\ chunks'[p] = SetEntry(chunks[p], c, Now(p, c)) /\ \A o \in Peers \ {p} : chunks'[o] = chunks[o]
  BY <1>1
<1>3. /\ DOMAIN SetEntry(chunks[p], c, Now(p, c)) = DOMAIN chunks[p] \cup {c}
      /\ SetEntry(chunks[p], c, Now(p, c))[c] = Now(p, c)
      /\ \A x \in DOMAIN chunks[p] \ {c} : SetEntry(chunks[p], c, Now(p, c))[x] = chunks[p][x]
  BY DEF SetEntry
<1>. QED
  BY <1>2, <1>3

LEMMA GetsChunkBase ==
  ASSUME Base, NEW p \in Peers, GotPacket(p), GotChunk(p, Head(net[p]))
  PROVE  /\ Base'
         /\ \A o \in Peers : \A id \in DOMAIN chunkAcks'[o] : id \in DOMAIN chunkAcks[o] /\ chunkAcks'[o][id] = chunkAcks[o][id]
<1>. PICK m \in Messages :
           /\ net[p] # <<>> /\ Head(net[p]) = net[p][1]
           /\ net[p][1].chunk = chunkOf[m] /\ net[p][1].v \in Piece /\ chunkOf[m] \in Nat
  BY ArrivesChunk
<1>. PICK c : c = chunkOf[m]
  OBVIOUS
<1>1. /\ Now(p, c) \in [buffers : Seq(Piece), loaded : Nat]
      /\ \/ /\ chunks' = [chunks EXCEPT ![p] = DeleteEntry(chunks[p], c)]
            /\ chunkAcks' = [chunkAcks EXCEPT ![p] = DeleteEntry(chunkAcks[p], c)]
            /\ received' = [received EXCEPT ![p] = Append(received[p], Now(p, c).buffers)]
         \/ /\ chunks' = [chunks EXCEPT ![p] = SetEntry(chunks[p], c, Now(p, c))]
            /\ UNCHANGED <<chunkAcks, received>>
  BY Loads
<1>2. /\ DOMAIN chunkAcks = Peers
      /\ \A o \in Peers : \A id \in DOMAIN chunkAcks[o] : chunkAcks[o][id] \in [msg : Messages, upTo : Nat]
      /\ \A o \in Peers : \A x \in DOMAIN chunks[o] : chunks[o][x] \in [buffers : Seq(Piece), loaded : Nat]
      /\ received \in [Peers -> Seq(Seq(Piece))]
  BY DEF Base, ChunkKinds
<1>3. DOMAIN chunks' = Peers /\ \A o \in Peers : \A x \in DOMAIN chunks'[o] : chunks'[o][x] \in [buffers : Seq(Piece), loaded : Nat]
  <2>1. CASE chunks' = [chunks EXCEPT ![p] = DeleteEntry(chunks[p], c)]
    <3>1. /\ DOMAIN chunks' = Peers
          /\ \A o \in Peers \ {p} : chunks'[o] = chunks[o]
          /\ DOMAIN chunks'[p] = DOMAIN chunks[p] \ {c}
          /\ \A x \in DOMAIN chunks[p] \ {c} : chunks'[p][x] = chunks[p][x]
      BY <2>1, ChunksWithout
    <3>. QED
      BY <1>2, <3>1
  <2>2. CASE chunks' = [chunks EXCEPT ![p] = SetEntry(chunks[p], c, Now(p, c))]
    <3>2. /\ DOMAIN chunks' = Peers
          /\ \A o \in Peers \ {p} : chunks'[o] = chunks[o]
          /\ DOMAIN chunks'[p] = DOMAIN chunks[p] \cup {c}
          /\ chunks'[p][c] = Now(p, c)
          /\ \A x \in DOMAIN chunks[p] \ {c} : chunks'[p][x] = chunks[p][x]
      BY <2>2, ChunksWith
    <3>3. \A x \in DOMAIN chunks'[p] : chunks'[p][x] \in [buffers : Seq(Piece), loaded : Nat]
      BY <1>1, <1>2, <3>2
    <3>. QED
      BY <1>2, <3>2, <3>3
  <2>. QED
    BY <1>1, <2>1, <2>2
<1>4. DOMAIN chunkAcks' = Peers /\ \A o \in Peers : \A id \in DOMAIN chunkAcks'[o] : id \in DOMAIN chunkAcks[o] /\ chunkAcks'[o][id] = chunkAcks[o][id]
  <2>1. CASE chunkAcks' = [chunkAcks EXCEPT ![p] = DeleteEntry(chunkAcks[p], c)]
    <3>1. /\ DOMAIN chunkAcks' = Peers /\ chunkAcks'[p] = DeleteEntry(chunkAcks[p], c)
          /\ \A o \in Peers \ {p} : chunkAcks'[o] = chunkAcks[o]
      BY <1>2, <2>1
    <3>2. /\ DOMAIN DeleteEntry(chunkAcks[p], c) = DOMAIN chunkAcks[p] \ {c}
          /\ \A x \in DOMAIN chunkAcks[p] \ {c} : DeleteEntry(chunkAcks[p], c)[x] = chunkAcks[p][x]
      BY DEF DeleteEntry, Restrict
    <3>. QED
      BY <3>1, <3>2
  <2>2. CASE UNCHANGED chunkAcks
    BY <1>2, <2>2
  <2>. QED
    BY <1>1, <2>1, <2>2
<1>5. received' \in [Peers -> Seq(Seq(Piece))]
  <2>1. Now(p, c).buffers \in Seq(Piece)
    BY <1>1
  <2>2. CASE UNCHANGED received
    BY <1>2, <2>2
  <2>3. CASE received' = [received EXCEPT ![p] = Append(received[p], Now(p, c).buffers)]
    <3>. PICK buffer : buffer = Now(p, c).buffers
      OBVIOUS
    <3>. QED
      BY <2>1, <2>3, HandedOut
  <2>. QED
    BY <1>1, <2>2, <2>3
<1>6. Base'
  <2>1. \A o \in Peers : \A id \in DOMAIN chunkAcks'[o] : chunkAcks'[o][id] \in [msg : Messages, upTo : Nat]
    BY <1>2, <1>4
  <2>. QED
    BY <1>3, <1>4, <1>5, <2>1, TakesChunk, TakesBase
<1>. QED
  BY <1>4, <1>6

LEMMA GetsChunkFlow ==
  ASSUME Base, OwnIds, FlowInv, NEW p \in Peers, GotPacket(p), GotChunk(p, Head(net[p]))
  PROVE  FlowInv'
<1>. DEFINE o == Other(p)
<1>0. o \in Peers /\ o # p /\ Other(o) = p
  BY PeersAre
<1>1. PICK m \in Messages :
           /\ Head(net[p]) = net[p][1] /\ 1 \in 1 .. Len(net[p])
           /\ ChunkOf(p, 1, m) /\ From[m] = o /\ Large(m) /\ Current(m) /\ net[p][1].id = MsgId[m]
  BY ArrivesChunk
<1>2. /\ Takes(p) /\ UNCHANGED phase
      /\ Len(net'[o]) = Len(net[o]) + 1 /\ net'[o][Len(net[o]) + 1] = Ack(MsgId[m])
  BY <1>1, TakesChunk
<1>3. /\ Len(net[o]) \in Nat /\ Len(net'[p]) \in Nat /\ Current(m)'
      /\ \A k \in 1 .. Len(net'[p]) : k + 1 \in 1 .. Len(net[p]) /\ net'[p][k] = net[p][k + 1]
      /\ \A k \in 1 .. Len(net[o]) : k \in 1 .. Len(net'[o]) /\ net'[o][k] = net[o][k]
  BY <1>0, <1>1, <1>2, TakenFrom
<1>. HIDE DEF o
<1>. PICK last : last = Len(net[o]) + 1
  OBVIOUS
<1>4. /\ last \in 1 .. Len(net'[o]) /\ net'[o][last] = Ack(MsgId[m])
      /\ \A k \in 1 .. Len(net'[o]) : k = last \/ k \in 1 .. Len(net[o])
  BY <1>2, <1>3
<1>5. AckOf(m, last)'
  BY <1>1, <1>4 DEF AckOf
<1>6. Registered'
  <2>1. \A x \in Peers : \A id \in DOMAIN chunkAcks'[x] : id \in DOMAIN chunkAcks[x] /\ chunkAcks'[x][id] = chunkAcks[x][id]
    BY GetsChunkBase
  <2>2. \A k \in 1 .. Len(net'[o]) : k \in 1 .. Len(net[o])
           \/ \E n \in Messages : AckOf(n, k)' /\ From[n] = o /\ Large(n) /\ Current(n)'
    BY <1>1, <1>3, <1>4, <1>5
  <2>. QED
    BY <1>2, <2>1, <2>2, TakesRegistered DEF FlowInv, o
<1>7. ASSUME NEW n \in Messages \ {m}, Large(n)
      PROVE  InTurn(n)'
  <2>1. CASE From[n] = o
    <3>1. MsgId[n] # MsgId[m]
      BY <1>1, <2>1 DEF OwnIds
    <3>2. Ack(MsgId[n]) # Ack(MsgId[m])
      BY <3>1, KindsOfPackets
    <3>3. \A k \in 1 .. Len(net'[o]) : k \in 1 .. Len(net[o]) \/ net'[o][k] # Ack(MsgId[n])
      BY <1>4, <3>2
    <3>. QED
      BY <1>2, <1>7, <3>3, TakesInTurn DEF FlowInv, o
  <2>2. CASE From[n] # o
    <3>1. From[n] = p /\ Other(From[n]) = o
      BY <1>0, <2>2, FromPeers, PeersAre DEF Peers, Other, o
    <3>2. InTurn(n) /\ phase'[n] = phase[n]
      BY <1>2, <1>7 DEF FlowInv
    <3>3. \A k \in 1 .. Len(net'[o]) : ChunkOf(o, k, n)' => k + 0 \in 1 .. Len(net[o]) /\ ChunkOf(o, k + 0, n)
      <4>1. ASSUME NEW k \in 1 .. Len(net'[o]), ChunkOf(o, k, n)' PROVE k \in 1 .. Len(net[o]) /\ ChunkOf(o, k, n) /\ k + 0 = k
        <5>1. k # last
          BY <1>4, <4>1, KindsOfPackets DEF ChunkOf
        <5>. QED
          BY <1>3, <1>4, <4>1, <5>1 DEF ChunkOf
      <4>. QED
        BY <4>1
    <3>4. \A k \in 1 .. Len(net'[From[n]]) : AckOf(n, k)' => k + 1 \in 1 .. Len(net[From[n]]) /\ AckOf(n, k + 1)
      BY <1>3, <3>1 DEF AckOf
    <3>5. 0 \in {0, 1} /\ 1 \in {0, 1} /\ Len(net'[o]) \in Nat
      BY <1>2, <1>3
    <3>. QED
      BY <1>3, <3>1, <3>2, <3>3, <3>4, <3>5, StillInTurn
  <2>. QED
    BY <2>1, <2>2
<1>8. InTurn(m)'
  <2>1. InTurn(m) /\ Other(From[m]) = p
    BY <1>0, <1>1 DEF FlowInv
  <2>2. /\ \A k \in 1 .. Len(net[p]) : ChunkOf(p, k, m) => k = 1
        /\ \A k \in 1 .. Len(net[o]) : ~ AckOf(m, k)
        /\ phase[m] = "waiting"
    BY <1>1, <2>1 DEF InTurn
  <2>3. \A k \in 1 .. Len(net'[p]) : ~ ChunkOf(p, k, m)'
    <3>. SUFFICES ASSUME NEW k \in 1 .. Len(net'[p]), ChunkOf(p, k, m)' PROVE FALSE
      OBVIOUS
    <3>0. k + 1 \in 1 .. Len(net[p]) /\ net'[p][k] = net[p][k + 1] /\ k + 1 # 1
      BY <1>3
    <3>1. k + 1 \in 1 .. Len(net[p]) /\ ChunkOf(p, k + 1, m) /\ k + 1 # 1
      BY <3>0 DEF ChunkOf
    <3>. QED
      BY <2>2, <3>1
  <2>4. \A k \in 1 .. Len(net'[o]) : AckOf(m, k)' => k = last
    BY <1>1, <1>3, <1>4, <2>2 DEF AckOf
  <2>. QED
    BY <1>1, <1>2, <2>1, <2>2, <2>3, <2>4 DEF InTurn
<1>. QED
  BY <1>6, <1>7, <1>8 DEF FlowInv

(* The chunk that arrives goes on where the reader is.                     *)
LEMMA ChunkFits ==
  ASSUME Base, Content, NEW p \in Peers, GotPacket(p), GotChunk(p, Head(net[p])),
         NEW m \in Messages, ChunkOf(p, 1, m)
  PROVE  LET c == chunkOf[m]
         IN /\ Lined(m) /\ Begin(p, 1) = Expected(m) /\ ~ Arrived(m)
            /\ PartOf(m, Now(p, c).buffers) /\ Now(p, c).loaded = End(p, 1)
            /\ Now(p, c).buffers # <<>>
            /\ Now(p, c).buffers[Len(Now(p, c).buffers)] = net[p][1].v
<1>1. /\ Head(net[p]) = net[p][1] /\ 1 \in 1 .. Len(net[p])
      /\ From[m] = Other(p) /\ Large(m) /\ Current(m)
      /\ net[p][1].chunk = chunkOf[m]
      /\ net[p][1].v \in Piece /\ net[p][1].v.msg = m /\ chunkOf[m] \in Nat /\ ByteLength[m] \in Nat
      /\ Begin(p, 1) \in Nat /\ End(p, 1) \in Nat /\ Begin(p, 1) < End(p, 1)
      /\ End(p, 1) = Begin(p, 1) + net[p][1].v.len
      /\ End(p, 1) <= offset[m] /\ offset[m] <= ByteLength[m] /\ offset[m] \in Nat
  <2>1. PICK n \in Messages :
           /\ Head(net[p]) = net[p][1] /\ 1 \in 1 .. Len(net[p])
           /\ From[n] = Other(p) /\ Large(n) /\ Current(n)
           /\ net[p][1].chunk = chunkOf[n]
           /\ net[p][1].v \in Piece /\ net[p][1].v.msg = n /\ chunkOf[n] \in Nat /\ ByteLength[n] \in Nat
           /\ Begin(p, 1) \in Nat /\ End(p, 1) \in Nat /\ Begin(p, 1) < End(p, 1)
           /\ End(p, 1) = Begin(p, 1) + net[p][1].v.len
           /\ End(p, 1) <= offset[n] /\ offset[n] <= ByteLength[n] /\ offset[n] \in Nat
    BY ArrivesChunk
  <2>2. n = m
    BY <2>1 DEF ChunkOf
  <2>. QED
    BY <2>1, <2>2
<1>2. Other(From[m]) = p /\ Len(net[p]) \in Nat
  BY <1>1, PeersAre DEF Base, ChunkKinds
<1>3. Lined(m)
  BY <1>1 DEF Content
<1>4. Begin(p, 1) = Expected(m)
  <2>1. ~ \E j \in 1 .. Len(net[p]) : j < 1
    BY <1>2
  <2>. QED
    BY <1>1, <1>2, <1>3, <2>1 DEF Lined
<1>5. ~ Arrived(m)
  <2>1. Arrived(m) => Expected(m) = ByteLength[m]
    BY DEF Expected
  <2>. QED
    BY <1>1, <1>4, <2>1
<1>. PICK c : c = chunkOf[m]
  OBVIOUS
<1>6. /\ Loaded(p, c) \in [buffers : Seq(Piece), loaded : Nat]
      /\ Now(p, c) \in [buffers : Seq(Piece), loaded : Nat]
  BY <1>1, Loads
<1>7. /\ Loaded(p, c).loaded = Begin(p, 1)
      /\ IF Loaded(p, c).buffers = <<>> THEN net[p][1].v.at = 0
         ELSE /\ PartOf(m, Loaded(p, c).buffers)
              /\ net[p][1].v.at = Loaded(p, c).buffers[Len(Loaded(p, c).buffers)].at + Loaded(p, c).buffers[Len(Loaded(p, c).buffers)].len
  <2>0. net[p][1].v.at = Begin(p, 1)
    BY DEF Begin
  <2>1. CASE c \in DOMAIN chunks[p]
    <3>1. PICK n \in Messages : Keeps(p, c, n)
      BY <2>1 DEF Content, KeepsParts
    <3>2. From[n] = From[m] /\ Large(n) /\ Current(n) /\ chunkOf[n] = chunkOf[m]
      BY <1>1, <3>1 DEF Keeps
    <3>3. n = m
      BY <1>1, <3>2 DEF Base, OwnChunks
    <3>4. Loaded(p, c) = chunks[p][c] /\ Expected(m) = chunks[p][c].loaded
      BY <1>2, <1>5, <2>1 DEF Loaded, Expected
    <3>5. /\ PartOf(m, Loaded(p, c).buffers)
          /\ Loaded(p, c).loaded = Loaded(p, c).buffers[Len(Loaded(p, c).buffers)].at + Loaded(p, c).buffers[Len(Loaded(p, c).buffers)].len
      BY <3>1, <3>3, <3>4 DEF Keeps
    <3>6. Loaded(p, c).buffers # <<>>
      BY <3>5 DEF PartOf
    <3>. QED
      BY <1>4, <2>0, <3>4, <3>5, <3>6
  <2>2. CASE c \notin DOMAIN chunks[p]
    <3>1. Loaded(p, c) = [buffers |-> <<>>, loaded |-> 0] /\ Expected(m) = 0
      BY <1>2, <1>5, <2>2 DEF Loaded, Expected
    <3>. QED
      BY <1>4, <2>0, <3>1
  <2>. QED
    BY <2>1, <2>2
<1>8. /\ PartOf(m, Now(p, c).buffers) /\ Now(p, c).buffers[Len(Now(p, c).buffers)] = net[p][1].v
      /\ Now(p, c).loaded = End(p, 1)
  <2>1. Now(p, c).buffers = Append(Loaded(p, c).buffers, net[p][1].v) /\ Now(p, c).loaded = Loaded(p, c).loaded + net[p][1].v.len
    BY DEF Now
  <2>. PICK buffers, v : buffers = Loaded(p, c).buffers /\ v = net[p][1].v
    OBVIOUS
  <2>2. buffers \in Seq(Piece) /\ v \in Piece /\ v.msg = m
    BY <1>1, <1>6
  <2>3. /\ buffers = <<>> => v.at = 0
        /\ buffers # <<>> => PartOf(m, buffers) /\ v.at = buffers[Len(buffers)].at + buffers[Len(buffers)].len
    BY <1>7
  <2>4. PartOf(m, Append(buffers, v)) /\ Append(buffers, v)[Len(Append(buffers, v))] = v
    BY <2>2, <2>3, PartGrows
  <2>. QED
    BY <1>1, <1>7, <2>1, <2>4
<1>9. Now(p, c).buffers # <<>>
  BY <1>8 DEF PartOf
<1>. QED
  BY <1>3, <1>4, <1>5, <1>8, <1>9

(* What the reader has, and has handed out, once it arrived.               *)
LEMMA ChunkLoads ==
  ASSUME Base, Content, NEW p \in Peers, GotPacket(p), GotChunk(p, Head(net[p])),
         NEW m \in Messages, ChunkOf(p, 1, m), NEW c, c = chunkOf[m]
  PROVE  /\ WholeAndOnce'
         /\ \A n \in Messages \ {m} : Arrived(n)' = Arrived(n)
         /\ Expected(m)' = End(p, 1)
         /\ DOMAIN chunks' = Peers
         /\ \A o \in Peers : \A x : o # p \/ x # c =>
              /\ x \in DOMAIN chunks'[o] <=> x \in DOMAIN chunks[o]
              /\ x \in DOMAIN chunks[o] => chunks'[o][x] = chunks[o][x]
         /\ c \in DOMAIN chunks'[p] => Keeps(p, c, m)'
<1>1. /\ Head(net[p]) = net[p][1] /\ From[m] = Other(p) /\ Large(m) /\ Current(m)
      /\ net[p][1].chunk = c /\ net[p][1].total = ByteLength[m]
      /\ net[p][1].v \in Piece /\ c \in Nat /\ ByteLength[m] \in Nat
      /\ End(p, 1) \in Nat /\ End(p, 1) <= ByteLength[m] /\ net[p] # <<>>
  <2>1. PICK n \in Messages :
           /\ Head(net[p]) = net[p][1] /\ From[n] = Other(p) /\ Large(n) /\ Current(n)
           /\ net[p][1].chunk = chunkOf[n] /\ net[p][1].total = ByteLength[n]
           /\ net[p][1].v \in Piece /\ net[p][1].v.msg = n /\ chunkOf[n] \in Nat /\ ByteLength[n] \in Nat
           /\ End(p, 1) \in Nat /\ End(p, 1) <= offset[n] /\ offset[n] <= ByteLength[n] /\ offset[n] \in Nat
           /\ net[p] # <<>>
    BY ArrivesChunk
  <2>2. n = m
    BY <2>1 DEF ChunkOf
  <2>3. End(p, 1) <= ByteLength[m]
    BY <2>1, <2>2
  <2>. QED
    BY <2>1, <2>2, <2>3
<1>2. /\ ~ Arrived(m) /\ PartOf(m, Now(p, c).buffers) /\ Now(p, c).loaded = End(p, 1)
      /\ Now(p, c).buffers[Len(Now(p, c).buffers)] = net[p][1].v
  BY ChunkFits
<1>3. /\ Now(p, c) \in [buffers : Seq(Piece), loaded : Nat]
      /\ \/ /\ Now(p, c).loaded = ByteLength[m]
            /\ chunks' = [chunks EXCEPT ![p] = DeleteEntry(chunks[p], c)]
            /\ received' = [received EXCEPT ![p] = Append(received[p], Now(p, c).buffers)]
         \/ /\ Now(p, c).loaded # ByteLength[m]
            /\ chunks' = [chunks EXCEPT ![p] = SetEntry(chunks[p], c, Now(p, c))]
            /\ UNCHANGED received
  BY <1>1, Loads
<1>4. Takes(p) /\ UNCHANGED phase
  BY TakesChunk
<1>5. /\ UNCHANGED <<chunkOf, connection, writtenOn>> /\ Other(From[m]) = p /\ phase[m] # "new" /\ Current(m)'
  BY <1>1, <1>4, PeersAre DEF Takes, Current
<1>6. net[p][1].v.at + net[p][1].v.len = End(p, 1)
  BY DEF End
<1>7. CASE /\ Now(p, c).loaded = ByteLength[m]
           /\ chunks' = [chunks EXCEPT ![p] = DeleteEntry(chunks[p], c)]
           /\ received' = [received EXCEPT ![p] = Append(received[p], Now(p, c).buffers)]
  <2>1. IsWhole(m, Now(p, c).buffers)
    BY <1>2, <1>6, <1>7 DEF IsWhole
  <2>. PICK buffer : buffer = Now(p, c).buffers
    OBVIOUS
  <2>2. buffer \in Seq(Piece) /\ IsWhole(m, buffer) /\ received' = [received EXCEPT ![p] = Append(received[p], buffer)]
    BY <1>3, <1>7, <2>1
  <2>3. WholeAndOnce
    BY DEF Content
  <2>4. WholeAndOnce' /\ Arrived(m)' /\ \A n \in Messages \ {m} : Arrived(n)' = Arrived(n)
    BY <1>1, <1>2, <1>4, <1>5, <2>2, <2>3, HandedOutWhole
  <2>5. Expected(m)' = End(p, 1)
    BY <1>2, <1>7, <2>4 DEF Expected
  <2>6. /\ DOMAIN chunks' = Peers
        /\ \A o \in Peers \ {p} : chunks'[o] = chunks[o]
        /\ DOMAIN chunks'[p] = DOMAIN chunks[p] \ {c}
        /\ \A x \in DOMAIN chunks[p] \ {c} : chunks'[p][x] = chunks[p][x]
    BY <1>7, ChunksWithout
  <2>. QED
    BY <2>4, <2>5, <2>6
<1>8. CASE /\ Now(p, c).loaded # ByteLength[m]
           /\ chunks' = [chunks EXCEPT ![p] = SetEntry(chunks[p], c, Now(p, c))]
           /\ UNCHANGED received
  <2>1. /\ DOMAIN chunks' = Peers
        /\ \A o \in Peers \ {p} : chunks'[o] = chunks[o]
        /\ DOMAIN chunks'[p] = DOMAIN chunks[p] \cup {c}
        /\ chunks'[p][c] = Now(p, c)
        /\ \A x \in DOMAIN chunks[p] \ {c} : chunks'[p][x] = chunks[p][x]
    BY <1>8, ChunksWith
  <2>2. \A n \in Messages : Arrived(n)' = Arrived(n)
    BY <1>8 DEF Arrived
  <2>3. WholeAndOnce'
    BY <1>4, <1>8 DEF Content, WholeAndOnce, HandsOut
  <2>4. Expected(m)' = End(p, 1)
    BY <1>2, <1>5, <2>1, <2>2 DEF Expected
  <2>5. End(p, 1) < ByteLength[m]
    BY <1>1, <1>2, <1>8
  <2>6. Keeps(p, c, m)'
    BY <1>1, <1>2, <1>5, <1>6, <2>1, <2>2, <2>5 DEF Keeps
  <2>. QED
    BY <2>1, <2>2, <2>3, <2>4, <2>6
<1>. QED
  BY <1>3, <1>7, <1>8

LEMMA GetsChunkContent ==
  ASSUME Base, Content, NEW p \in Peers, GotPacket(p), GotChunk(p, Head(net[p]))
  PROVE  Content'
<1>1. PICK m \in Messages :
           /\ Head(net[p]) = net[p][1] /\ 1 \in 1 .. Len(net[p])
           /\ ChunkOf(p, 1, m) /\ From[m] = Other(p) /\ Large(m) /\ Current(m)
           /\ Begin(p, 1) \in Nat /\ End(p, 1) \in Nat /\ Begin(p, 1) < End(p, 1)
           /\ End(p, 1) <= offset[m] /\ offset[m] \in Nat
  BY ArrivesChunk
<1>. PICK c : c = chunkOf[m]
  OBVIOUS
<1>2. /\ WholeAndOnce'
      /\ \A n \in Messages \ {m} : Arrived(n)' = Arrived(n)
      /\ Expected(m)' = End(p, 1)
      /\ DOMAIN chunks' = Peers
      /\ \A o \in Peers : \A x : o # p \/ x # c =>
           /\ x \in DOMAIN chunks'[o] <=> x \in DOMAIN chunks[o]
           /\ x \in DOMAIN chunks[o] => chunks'[o][x] = chunks[o][x]
      /\ c \in DOMAIN chunks'[p] => Keeps(p, c, m)'
  BY <1>1, ChunkLoads
<1>3. Lined(m) /\ Begin(p, 1) = Expected(m) /\ ~ Arrived(m)
  BY <1>1, ChunkFits
<1>4. /\ Takes(p) /\ UNCHANGED <<phase, offset, chunkOf, writtenOn, connection>>
      /\ \A n \in Messages : Current(n)' = Current(n)
  BY TakesChunk, TakenFrom DEF Takes
<1>5. /\ Other(From[m]) = p /\ Len(net[p]) \in Nat /\ Len(net'[p]) \in Nat
      /\ \A k \in 1 .. Len(net'[p]) : k + 1 \in 1 .. Len(net[p]) /\ net'[p][k] = net[p][k + 1]
      /\ \A k \in 1 .. Len(net[p]) : k # 1 => k - 1 \in 1 .. Len(net'[p]) /\ net'[p][k - 1] = net[p][k]
  BY <1>1, <1>4, PeersAre, TakenFrom
<1>6. ASSUME NEW n \in Messages \ {m}, Large(n), Current(n)
      PROVE  Other(From[n]) # p \/ chunkOf[n] # c
  <2>1. Other(From[n]) = p => From[n] = From[m]
    BY <1>1, FromPeers, PeersAre
  <2>. QED
    BY <1>1, <1>6, <2>1 DEF Base, OwnChunks
<1>7. ASSUME NEW n \in Messages \ {m}, Large(n), Current(n)'
      PROVE  Lined(n)'
  <2>1. Current(n) /\ Lined(n) /\ ~ ChunkOf(p, 1, n)
    BY <1>1, <1>4, <1>7 DEF Content, ChunkOf
  <2>2. Other(From[n]) \in Peers /\ (Other(From[n]) # p \/ chunkOf[n] # c)
    BY <1>6, <1>7, <2>1, FromPeers
  <2>3. Expected(n)' = Expected(n)
    BY <1>2, <1>4, <1>7, <2>2 DEF Expected
  <2>. QED
    BY <1>4, <2>1, <2>3, TakesLined
<1>8. Lined(m)'
  <2>1. /\ \A j, k \in 1 .. Len(net[p]) : j < k /\ ChunkOf(p, j, m) /\ ChunkOf(p, k, m) => End(p, j) <= Begin(p, k)
        /\ \A k \in 1 .. Len(net[p]) : ChunkOf(p, k, m) =>
             \/ Begin(p, k) = Expected(m)
             \/ \E j \in 1 .. Len(net[p]) : j < k /\ ChunkOf(p, j, m) /\ End(p, j) = Begin(p, k)
        /\ \/ offset[m] = Expected(m)
           \/ \E k \in 1 .. Len(net[p]) : ChunkOf(p, k, m) /\ End(p, k) = offset[m]
    BY <1>3, <1>5 DEF Lined
  <2>2. \A k \in 1 .. Len(net'[p]) : ChunkOf(p, k, m)' =>
          /\ k + 1 \in 1 .. Len(net[p]) /\ ChunkOf(p, k + 1, m) /\ 1 < k + 1
          /\ Begin(p, k)' = Begin(p, k + 1) /\ End(p, k)' = End(p, k + 1)
    BY <1>5 DEF ChunkOf, Begin, End
  <2>3. \A k \in 1 .. Len(net[p]) : ChunkOf(p, k, m) /\ k # 1 =>
          k - 1 \in 1 .. Len(net'[p]) /\ ChunkOf(p, k - 1, m)' /\ End(p, k - 1)' = End(p, k)
    BY <1>5 DEF ChunkOf, End
  <2>4. \A j, k \in 1 .. Len(net'[p]) : j < k /\ ChunkOf(p, j, m)' /\ ChunkOf(p, k, m)' => End(p, j)' <= Begin(p, k)'
    <3>. SUFFICES ASSUME NEW j \in 1 .. Len(net'[p]), NEW k \in 1 .. Len(net'[p]), j < k, ChunkOf(p, j, m)', ChunkOf(p, k, m)'
                  PROVE  End(p, j)' <= Begin(p, k)'
      OBVIOUS
    <3>1. j + 1 < k + 1
      OBVIOUS
    <3>. QED
      BY <2>1, <2>2, <3>1
  <2>5. ASSUME NEW k \in 1 .. Len(net'[p]), ChunkOf(p, k, m)', Begin(p, k)' # End(p, 1)
        PROVE  \E j \in 1 .. Len(net'[p]) : j < k /\ ChunkOf(p, j, m)' /\ End(p, j)' = Begin(p, k)'
    <3>1. k + 1 \in 1 .. Len(net[p]) /\ ChunkOf(p, k + 1, m) /\ 1 < k + 1 /\ Begin(p, k)' = Begin(p, k + 1)
      BY <2>2, <2>5
    <3>2. End(p, 1) <= Begin(p, k + 1)
      BY <1>1, <2>1, <3>1
    <3>3. Begin(p, k + 1) # Expected(m)
      BY <1>1, <1>3, <3>2
    <3>4. PICK j \in 1 .. Len(net[p]) : j < k + 1 /\ ChunkOf(p, j, m) /\ End(p, j) = Begin(p, k + 1)
      BY <2>1, <3>1, <3>3
    <3>5. j # 1
      BY <2>5, <3>1, <3>4
    <3>6. j - 1 \in 1 .. Len(net'[p]) /\ ChunkOf(p, j - 1, m)' /\ End(p, j - 1)' = End(p, j) /\ j - 1 < k
      BY <2>3, <3>4, <3>5
    <3>. QED
      BY <3>1, <3>4, <3>6
  <2>6. \/ offset[m] = End(p, 1)
        \/ \E k \in 1 .. Len(net'[p]) : ChunkOf(p, k, m)' /\ End(p, k)' = offset[m]
    <3>1. offset[m] # Expected(m)
      BY <1>1, <1>3
    <3>2. PICK k \in 1 .. Len(net[p]) : ChunkOf(p, k, m) /\ End(p, k) = offset[m]
      BY <2>1, <3>1
    <3>3. CASE k = 1
      BY <3>2, <3>3
    <3>4. CASE k # 1
      BY <2>3, <3>2, <3>4
    <3>. QED
      BY <3>3, <3>4
  <2>. QED
    BY <1>2, <1>4, <1>5, <2>4, <2>5, <2>6 DEF Lined
<1>9. KeepsParts'
  <2>. SUFFICES ASSUME NEW o \in Peers, NEW x \in DOMAIN chunks'[o]
                PROVE  \E n \in Messages : Keeps(o, x, n)'
    BY DEF KeepsParts
  <2>1. CASE o = p /\ x = c
    <3>1. Keeps(o, x, m)'
      BY <1>2, <2>1
    <3>. QED
      BY <3>1
  <2>2. CASE o # p \/ x # c
    <3>1. x \in DOMAIN chunks[o] /\ chunks'[o][x] = chunks[o][x]
      BY <1>2, <2>2
    <3>2. PICK n \in Messages : Keeps(o, x, n)
      BY <3>1 DEF Content, KeepsParts
    <3>3. n # m
      BY <1>5, <2>2, <3>2, PeersAre DEF Keeps
    <3>4. ~ Arrived(n)'
      BY <1>2, <3>2, <3>3 DEF Keeps
    <3>5. Keeps(o, x, n)'
      BY <1>4, <3>1, <3>2, <3>4 DEF Keeps
    <3>. QED
      BY <3>5
  <2>. QED
    BY <2>1, <2>2
<1>10. SmallOnce'
  <2>. SUFFICES ASSUME NEW n \in Messages, NEW o \in Peers, o = Other(From[n])
                PROVE  /\ \A k \in 1 .. Len(net'[o]) : net'[o][k] = Small(n) => ~ Arrived(n)'
                       /\ \A j, k \in 1 .. Len(net'[o]) : net'[o][j] = Small(n) /\ net'[o][k] = Small(n) => j = k
    BY FromPeers DEF SmallOnce
  <2>1. /\ \A k \in 1 .. Len(net[o]) : net[o][k] = Small(n) => ~ Arrived(n)
        /\ \A j, k \in 1 .. Len(net[o]) : net[o][j] = Small(n) /\ net[o][k] = Small(n) => j = k
    BY DEF Content, SmallOnce
  <2>2. Small(n).type = "message" /\ Small(n).buffer[1].msg = n
    BY SmallIs
  <2>3. \A k \in 1 .. Len(net[o]) : net[o][k] = Small(n) => n # m
    <3>. SUFFICES ASSUME NEW k \in 1 .. Len(net[o]), net[o][k] = Small(n) PROVE n # m
      OBVIOUS
    <3>1. net[o][k].type = "message"
      BY <2>2
    <3>2. PICK r \in Messages : net[o][k] = Small(r) /\ ~ Large(r)
      BY <3>1 DEF Base, Packets
    <3>3. Small(r).buffer[1].msg = r
      BY SmallIs
    <3>. QED
      BY <1>1, <2>2, <3>2, <3>3
  <2>4. CASE o = p
    <3>0. /\ \A k \in 1 .. Len(net[p]) : net[p][k] = Small(n) => ~ Arrived(n) /\ n # m
          /\ \A j, k \in 1 .. Len(net[p]) : net[p][j] = Small(n) /\ net[p][k] = Small(n) => j = k
      BY <2>1, <2>3, <2>4
    <3>1. \A k \in 1 .. Len(net'[p]) : net'[p][k] = Small(n) => ~ Arrived(n)'
      <4>. SUFFICES ASSUME NEW k \in 1 .. Len(net'[p]), net'[p][k] = Small(n) PROVE ~ Arrived(n)'
        OBVIOUS
      <4>1. k + 1 \in 1 .. Len(net[p]) /\ net[p][k + 1] = Small(n)
        BY <1>5
      <4>2. ~ Arrived(n) /\ n # m
        BY <3>0, <4>1
      <4>. QED
        BY <1>2, <4>2
    <3>2. ASSUME NEW j \in 1 .. Len(net'[p]), NEW k \in 1 .. Len(net'[p]), net'[p][j] = Small(n), net'[p][k] = Small(n)
          PROVE  j = k
      <4>1. j + 1 = k + 1
        <5>1. /\ j + 1 \in 1 .. Len(net[p]) /\ net[p][j + 1] = Small(n)
              /\ k + 1 \in 1 .. Len(net[p]) /\ net[p][k + 1] = Small(n)
          BY <1>5, <3>2
        <5>. QED
          BY <3>0, <5>1
      <4>. QED
        BY <1>5, <4>1
    <3>. QED
      BY <2>4, <3>1, <3>2
  <2>5. CASE o = Other(p)
    <3>1. \A k \in 1 .. Len(net'[o]) : net'[o][k] = Small(n) => k \in 1 .. Len(net[o]) /\ net[o][k] = Small(n)
      BY <1>4, <2>2, <2>5, TakenFrom
    <3>. QED
      BY <1>2, <2>1, <2>3, <3>1
  <2>. QED
    BY <1>4, <2>4, <2>5, TakenFrom
<1>. QED
  BY <1>2, <1>7, <1>8, <1>9, <1>10 DEF Content

-----------------------------------------------------------------------------
(* The connection breaks: nothing is on its way any more, and no message   *)
(* is of the connection of now.                                            *)
LEMMA Reconnects ==
  ASSUME Base, Reconnect
  PROVE  Base' /\ (leftover' \/ (Content => Content')) /\ (FlowInv => FlowInv') /\ (leftover => leftover')
<1>1. /\ connection < MaxDisconnects /\ connection' = connection + 1
      /\ leftover' = (leftover \/ chunks["client"] # NoEntries)
      /\ net' = [p \in Peers |-> <<>>] /\ chunkId' = [p \in Peers |-> 0]
      /\ chunkAcks' = [chunkAcks EXCEPT !["server"] = NoEntries]
      /\ chunks' = [chunks EXCEPT !["server"] = NoEntries]
      /\ UNCHANGED <<phase, offset, chunkOf, writtenOn, received>>
  BY DEF Reconnect
<1>2. /\ connection \in 0 .. MaxDisconnects /\ MaxDisconnects \in Nat /\ connection \in Nat /\ leftover \in BOOLEAN
      /\ \A m \in Messages : writtenOn[m] \in Nat /\ writtenOn[m] <= connection
  BY ChunksAssumption DEF Base, ChunkKinds
<1>3. \A p \in Peers : net'[p] = <<>> /\ Len(net'[p]) = 0
  BY <1>1
<1>4. \A m \in Messages : ~ Current(m)'
  BY <1>1, <1>2 DEF Current
<1>5. /\ DOMAIN chunkAcks = Peers /\ DOMAIN chunks = Peers /\ "server" \in Peers /\ "client" \in Peers
      /\ \A p \in Peers : p # "server" => p = "client"
      /\ DOMAIN NoEntries = {}
  BY DEF Base, ChunkKinds, Peers, NoEntries
<1>. HIDE DEF Peers
<1>6. /\ DOMAIN chunkAcks' = Peers /\ DOMAIN chunks' = Peers
      /\ chunkAcks'["server"] = NoEntries /\ chunks'["server"] = NoEntries
      /\ chunkAcks'["client"] = chunkAcks["client"] /\ chunks'["client"] = chunks["client"]
  BY <1>1, <1>5
<1>7. Base'
  <2>1. connection' \in 0 .. MaxDisconnects /\ leftover' \in BOOLEAN
    BY <1>1, <1>2
  <2>2. \A m \in Messages : offset'[m] <= ByteLength[m] /\ writtenOn'[m] <= connection'
    BY <1>1, <1>2 DEF Base, ChunkKinds
  <2>3. net' \in [Peers -> Seq(Packet)] /\ chunkId' \in [Peers -> Nat]
    BY <1>1
  <2>4. \A p \in Peers : \A id \in DOMAIN chunkAcks'[p] : chunkAcks'[p][id] \in [msg : Messages, upTo : Nat]
    BY <1>5, <1>6 DEF Base, ChunkKinds
  <2>5. \A p \in Peers : \A c \in DOMAIN chunks'[p] : chunks'[p][c] \in [buffers : Seq(Piece), loaded : Nat]
    BY <1>5, <1>6 DEF Base, ChunkKinds
  <2>6. ChunkKinds'
    BY <1>1, <1>6, <2>1, <2>2, <2>3, <2>4, <2>5 DEF Base, ChunkKinds
  <2>7. Phases' /\ OwnChunks' /\ Packets'
    BY <1>1, <1>3, <1>4 DEF Base, Phases, OwnChunks, Packets
  <2>. QED
    BY <2>6, <2>7 DEF Base
<1>8. ASSUME ~ leftover', Content PROVE Content'
  <2>1. \A p \in Peers : DOMAIN chunks'[p] = {}
    BY <1>1, <1>5, <1>6, <1>8
  <2>2. KeepsParts'
    BY <2>1 DEF KeepsParts
  <2>3. WholeAndOnce'
    BY <1>1, <1>8 DEF Content, WholeAndOnce, HandsOut
  <2>4. SmallOnce'
    BY <1>3, FromPeers DEF SmallOnce
  <2>. QED
    BY <1>4, <2>2, <2>3, <2>4 DEF Content
<1>9. ASSUME FlowInv PROVE FlowInv'
  <2>1. Registered'
    BY <1>3, <1>5, <1>6, <1>9 DEF FlowInv, Registered
  <2>2. \A m \in Messages : InTurn(m)'
    BY <1>3, FromPeers DEF InTurn
  <2>. QED
    BY <2>1, <2>2 DEF FlowInv
<1>. QED
  BY <1>1, <1>7, <1>8, <1>9

-----------------------------------------------------------------------------
LEMMA ChunkStep ==
  ASSUME ChunkInv, [ChunksNext]_chunkVars
  PROVE  ChunkInv' /\ (OwnIds /\ FlowInv => FlowInv')
<1>0. Base /\ (leftover \/ Content)
  BY DEF ChunkInv
<1>1. ASSUME NEW m \in Messages, Write(m)
      PROVE  ChunkInv' /\ (OwnIds /\ FlowInv => FlowInv')
  <2>0. UNCHANGED leftover
    BY <1>1 DEF Write
  <2>1. CASE WriteLarge(m)
    <3>1. Sends(m)
      BY <1>0, <1>1, <2>1, WritesLarge
    <3>. QED
      BY <1>0, <2>0, <3>1, SendsBase, SendsContent, SendsFlow DEF ChunkInv
  <2>2. CASE WriteSmall(m)
    BY <1>0, <1>1, <2>0, <2>2, WriteSmallBase, WriteSmallContent, WriteSmallFlow DEF ChunkInv
  <2>. QED
    BY <1>1, <2>1, <2>2 DEF Write
<1>2. ASSUME NEW m \in Messages, Continue(m)
      PROVE  ChunkInv' /\ (OwnIds /\ FlowInv => FlowInv')
  <2>0. UNCHANGED leftover
    BY <1>2 DEF Continue
  <2>1. CASE Sends(m)
    BY <1>0, <2>0, <2>1, SendsBase, SendsContent, SendsFlow DEF ChunkInv
  <2>2. CASE /\ phase[m] = "resumed" /\ phase' = [phase EXCEPT ![m] = "done"]
             /\ UNCHANGED <<offset, chunkOf, writtenOn, chunkId, chunkAcks, chunks, net, received, connection, leftover>>
    BY <1>0, <2>2, Finishes DEF ChunkInv
  <2>. QED
    BY <1>0, <1>2, <2>1, <2>2, Continues
<1>3. ASSUME NEW p \in Peers, GotPacket(p)
      PROVE  ChunkInv' /\ (OwnIds /\ FlowInv => FlowInv')
  <2>0. UNCHANGED leftover
    BY <1>3 DEF GotPacket
  <2>1. CASE GotMessage(p, Head(net[p]))
    BY <1>0, <1>3, <2>0, <2>1, GetsSmall DEF ChunkInv
  <2>2. CASE GotAck(p, Head(net[p]))
    BY <1>0, <1>3, <2>0, <2>2, GetsAck DEF ChunkInv
  <2>3. CASE GotChunk(p, Head(net[p]))
    BY <1>0, <1>3, <2>0, <2>3, GetsChunkBase, GetsChunkContent, GetsChunkFlow DEF ChunkInv
  <2>. QED
    BY <1>3, <2>1, <2>2, <2>3 DEF GotPacket
<1>4. CASE Reconnect
  BY <1>0, <1>4, Reconnects DEF ChunkInv
<1>5. CASE UNCHANGED chunkVars
  <2>1. ChunkKinds' /\ Phases' /\ OwnChunks' /\ Packets'
    BY <1>0, <1>5 DEF chunkVars, Base, ChunkKinds, Phases, OwnChunks, Packets, Current, ChunkOf, End
  <2>2. Content <=> Content'
    <3>1. \A m \in Messages : (Current(m) <=> Current(m)') /\ (Lined(m) <=> Lined(m)')
      BY <1>5 DEF chunkVars, Current, Lined, Expected, Arrived, ChunkOf, Begin, End
    <3>2. KeepsParts <=> KeepsParts'
      BY <1>5 DEF chunkVars, KeepsParts, Keeps, Current, Arrived
    <3>3. (WholeAndOnce <=> WholeAndOnce') /\ (SmallOnce <=> SmallOnce')
      BY <1>5 DEF chunkVars, WholeAndOnce, HandsOut, SmallOnce, Arrived
    <3>. QED
      BY <3>1, <3>2, <3>3 DEF Content
  <2>3. FlowInv => FlowInv'
    BY <1>5 DEF chunkVars, FlowInv, Registered, InTurn, AckOf, ChunkOf, Current
  <2>. QED
    BY <1>0, <1>5, <2>1, <2>2, <2>3 DEF chunkVars, ChunkInv, Base
<1>. QED
  BY <1>1, <1>2, <1>3, <1>4, <1>5 DEF ChunksNext

(* What the properties say follows.                                        *)
LEMMA AtMostOne ==
  ASSUME NEW S, \A j, k \in S : j = k
  PROVE  Cardinality(S) \in {0, 1} /\ (Cardinality(S) = 1 => S # {})
<1>1. CASE S = {}
  BY <1>1, FS_EmptySet
<1>2. CASE S # {}
  <2>1. PICK x \in S : TRUE
    BY <1>2
  <2>2. S = {x}
    BY <2>1
  <2>3. Cardinality({x}) = 1
    BY FS_Singleton
  <2>. QED
    BY <1>2, <2>2, <2>3
<1>. QED
  BY <1>1, <1>2

LEMMA OneInFlight ==
  ASSUME FlowInv
  PROVE  OneChunkInFlight
<1>. SUFFICES ASSUME NEW m \in Messages, Large(m)
              PROVE  InFlight(m) <= (IF phase[m] = "waiting" THEN 1 ELSE 0)
  BY DEF OneChunkInFlight
<1>. DEFINE p == Other(From[m])
            sent == {k \in 1 .. Len(net[p]) : ChunkOf(p, k, m)}
            acks == {k \in 1 .. Len(net[From[m]]) : AckOf(m, k)}
<1>1. InTurn(m)
  BY DEF FlowInv
<1>2. InFlight(m) = Cardinality(sent) + Cardinality(acks)
  <2>1. sent = {k \in 1 .. Len(net[p]) : LET packet == net[p][k] IN packet.type = "chunk" /\ packet.v.msg = m}
    BY DEF ChunkOf
  <2>2. acks = {k \in 1 .. Len(net[From[m]]) : net[From[m]][k] = Ack(MsgId[m])}
    BY DEF AckOf
  <2>. QED
    BY <2>1, <2>2 DEF InFlight
<1>3. (\A j, k \in sent : j = k) /\ (\A j, k \in acks : j = k) /\ (sent = {} \/ acks = {})
  BY <1>1 DEF InTurn
<1>4. phase[m] # "waiting" => sent = {} /\ acks = {}
  BY <1>1 DEF InTurn
<1>. HIDE DEF sent, acks
<1>5. /\ Cardinality(sent) \in {0, 1} /\ (Cardinality(sent) = 1 => sent # {})
      /\ Cardinality(acks) \in {0, 1} /\ (Cardinality(acks) = 1 => acks # {})
  BY <1>3, AtMostOne
<1>. QED
  BY <1>2, <1>3, <1>4, <1>5

LEMMA WholeIs ==
  ASSUME ChunkInv
  PROVE  ChunksTypeOK /\ FreshDeliversWhole /\ KeepsUnfinished
<1>0. Base /\ (leftover \/ Content)
  BY DEF ChunkInv
<1>1. ChunksTypeOK
  <2>1. /\ phase \in [Messages -> {"new", "waiting", "resumed", "done"}]
        /\ chunkOf \in [Messages -> Nat] /\ chunkId \in [Peers -> Nat]
        /\ connection \in 0 .. MaxDisconnects /\ leftover \in BOOLEAN
        /\ \A p \in Peers : \A id \in DOMAIN chunkAcks[p] : chunkAcks[p][id] \in [msg : Messages, upTo : Nat]
        /\ \A p \in Peers : received[p] \in Seq(Seq(Piece))
    BY <1>0 DEF Base, ChunkKinds
  <2>2. \A m \in Messages : offset[m] \in 0 .. ByteLength[m]
    BY <1>0, ChunksAssumption DEF Base, ChunkKinds
  <2>3. writtenOn \in [Messages -> 0 .. connection]
    BY <1>0, ChunksAssumption DEF Base, ChunkKinds
  <2>4. \A p \in Peers : \A c \in DOMAIN chunks[p] : chunks[p][c].buffers \in Seq(Piece)
    BY <1>0 DEF Base, ChunkKinds
  <2>. QED
    BY <2>1, <2>2, <2>3, <2>4 DEF ChunksTypeOK
<1>2. FreshDeliversWhole
  BY <1>0 DEF FreshDeliversWhole, DeliversWhole, Content, WholeAndOnce, HandsOut
<1>3. KeepsUnfinished
  <2>. SUFFICES ASSUME Content, NEW p \in Peers, NEW c \in DOMAIN chunks[p]
                PROVE  \E m \in Messages :
                         /\ From[m] = Other(p) /\ chunkOf[m] = c
                         /\ PartOf(m, chunks[p][c].buffers) /\ ~ IsWhole(m, chunks[p][c].buffers)
                         /\ \A k \in 1 .. Len(received[p]) : received[p][k][1].msg # m
    BY <1>0 DEF KeepsUnfinished
  <2>1. PICK m \in Messages : Keeps(p, c, m)
    BY DEF Content, KeepsParts
  <2>2. Other(From[m]) = p
    BY <2>1, PeersAre DEF Keeps
  <2>3. /\ From[m] = Other(p) /\ chunkOf[m] = c /\ ~ Arrived(m) /\ PartOf(m, chunks[p][c].buffers)
        /\ chunks[p][c].loaded < ByteLength[m]
        /\ chunks[p][c].loaded = chunks[p][c].buffers[Len(chunks[p][c].buffers)].at + chunks[p][c].buffers[Len(chunks[p][c].buffers)].len
    BY <2>1 DEF Keeps
  <2>4. chunks[p][c].loaded \in Nat /\ ByteLength[m] \in Nat
    BY <1>0, ChunksAssumption DEF Base, ChunkKinds
  <2>5. ~ IsWhole(m, chunks[p][c].buffers)
    BY <2>3, <2>4 DEF IsWhole
  <2>6. \A k \in 1 .. Len(received[p]) : received[p][k][1].msg # m
    BY <2>2, <2>3 DEF Arrived
  <2>. QED
    BY <2>3, <2>5, <2>6
<1>. QED
  BY <1>1, <1>2, <1>3

(* Whatever the order of the packets and the breaks of the connection, a   *)
(* reader only hands out whole messages of the other end, each once, and   *)
(* keeps only the beginnings of others, unless a client reconnects with a  *)
(* half of a large answer (protocol.ts:442-485, writer.ts:107-150).        *)
THEOREM ChunksAreWhole == ChunksSpec => [](ChunksTypeOK /\ FreshDeliversWhole /\ KeepsUnfinished)
<1>1. ChunksInit => ChunkInv
  BY ChunksBegin
<1>2. ChunkInv /\ [ChunksNext]_chunkVars => ChunkInv'
  BY ChunkStep
<1>3. ChunkInv => ChunksTypeOK /\ FreshDeliversWhole /\ KeepsUnfinished
  BY WholeIs
<1>. QED
  BY <1>1, <1>2, <1>3, PTL DEF ChunksSpec

(* When the messages of each end have ids of their own, no writer of a     *)
(* large message is ever ahead of the acks: all of ChunksSafety            *)
(* (writer.ts:130-143, protocol.ts:430-440).                               *)
THEOREM ChunksInvariance == ASSUME OwnIds PROVE ChunksSpec => []ChunksSafety
<1>1. ChunksInit => ChunkInv /\ FlowInv
  BY ChunksBegin
<1>2. ChunkInv /\ FlowInv /\ [ChunksNext]_chunkVars => ChunkInv' /\ FlowInv'
  BY ChunkStep
<1>3. ChunkInv /\ FlowInv => ChunksSafety
  BY WholeIs, OneInFlight DEF ChunksSafety
<1>. QED
  BY <1>1, <1>2, <1>3, PTL DEF ChunksSpec
=============================================================================
