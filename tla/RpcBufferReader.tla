--------------------------- MODULE RpcBufferReader ---------------------------
(***************************************************************************)
(* rpc/src/protocol.ts, RpcBufferReader.feed: cuts the byte stream of a    *)
(* connection into messages. (mongo/src/client/connection.ts holds the     *)
(* same code as ResponseParser.)                                           *)
(*                                                                         *)
(* A byte is its position in the stream, a buffer is an interval of        *)
(* positions. What is read at a position where no message starts, or over  *)
(* the end of the received bytes, is any number of Garbage. The iterations *)
(* of feed's loop are steps; no other feed runs between them.              *)
(***************************************************************************)
EXTENDS Naturals, Sequences

CONSTANTS
  Start,     \* Start[k] is where message k starts; the last entry is the end
  Cuts,      \* the positions at which a chunk of received data may end
  Garbage,   \* what readUint32LE returns where no header is
  MaxThrows  \* bound: how often feed throws

HeaderSize == 4

N == Len(Start) - 1
End == Start[N + 1]
Size(k) == Start[k + 1] - Start[k]

ASSUME StreamAssumption ==
  /\ Start \in Seq(Nat) /\ Len(Start) > 1
  /\ Start[1] = 0
  /\ \A j, k \in 1 .. N + 1 : j < k => Start[j] + HeaderSize <= Start[k]
  /\ Cuts \subseteq 1 .. End
  /\ Garbage \subseteq Nat
  /\ MaxThrows \in Nat

(* Position c lies inside the header of a message. *)
InHeader(c) == \E k \in 1 .. N : Start[k] < c /\ c < Start[k] + HeaderSize

VARIABLES
  reused,      \* the socket reuses one big buffer and passes the length in bytes
  fed,         \* how much of the stream the socket has passed to feed
  has,         \* this.currentMessage is defined
  first,       \* this.currentMessage holds the bytes first .. upto - 1
  upto,
  size,        \* this.currentMessageSize
  looping,     \* feed is in its while loop
  loopFirst,   \* currentBuffer holds the bytes loopFirst .. upto - 1
  loopSize,    \* currentSize
  delivered,   \* the buffers passed to onMessage, as <<first, length>>
  headersWhole,\* observed: no chunk has ended inside a header
  thrown       \* observed: how often a handler or feed itself has thrown

vars == <<reused, fed, has, first, upto, size, looping, loopFirst, loopSize, delivered,
          headersWhole, thrown>>

Init ==
  /\ reused \in BOOLEAN
  /\ fed = 0
  /\ has = FALSE /\ first = 0 /\ upto = 0 /\ size = 0
  /\ looping = FALSE /\ loopFirst = 0 /\ loopSize = 0
  /\ delivered = <<>>
  /\ headersWhole = TRUE /\ thrown = 0

(* readUint32LE at position p, with the bytes before position q there. *)
HeaderAt(p, q) ==
  IF \E k \in 1 .. N : Start[k] = p /\ p + HeaderSize <= q
  THEN {Size(k) : k \in {j \in 1 .. N : Start[j] = p}}
  ELSE Garbage

(* The loop starts with the current message. *)
EnterLoop(from, to, n) ==
  /\ has' = TRUE /\ first' = from /\ upto' = to /\ size' = n
  /\ looping' = TRUE /\ loopFirst' = from /\ loopSize' = n

(* No message is under way and the data is too short for a header: feed    *)
(* returns and forgets it.                                                 *)
FeedTooShort(to) ==
  /\ ~has
  /\ ~reused /\ to - fed < HeaderSize
  /\ UNCHANGED <<has, first, upto, size, looping, loopFirst, loopSize>>

FeedFresh(to) ==
  /\ ~has
  /\ reused \/ to - fed >= HeaderSize
  /\ \E n \in HeaderAt(fed, to) : EnterLoop(fed, to, n)

(* A message is under way: the data is appended. The header is only read   *)
(* when no size is known.                                                  *)
FeedMore(to) ==
  /\ has
  /\ IF size # 0
     THEN EnterLoop(first, to, size)
     ELSE IF to - first < HeaderSize
          THEN upto' = to /\ UNCHANGED <<has, first, size, looping, loopFirst, loopSize>>
          ELSE \E n \in HeaderAt(first, to) : EnterLoop(first, to, n)

Feed(to) ==
  /\ ~looping
  /\ fed < to /\ to \in Cuts
  /\ fed' = to
  /\ FeedTooShort(to) \/ FeedFresh(to) \/ FeedMore(to)
  /\ headersWhole' = (headersWhole /\ ~InHeader(to))
  /\ UNCHANGED <<reused, delivered, thrown>>

Deliver == delivered' = Append(delivered, <<loopFirst, loopSize>>)

(* The message is not complete: keep a copy and wait. *)
Incomplete ==
  /\ looping /\ loopSize > upto - loopFirst
  /\ has' = TRUE /\ first' = loopFirst /\ size' = loopSize
  /\ looping' = FALSE
  /\ UNCHANGED <<reused, fed, headersWhole, thrown, upto, loopFirst, loopSize, delivered>>

(* The buffer is exactly one message. *)
Exact ==
  /\ looping /\ loopSize = upto - loopFirst
  /\ has' = FALSE /\ size' = 0
  /\ Deliver
  /\ looping' = FALSE
  /\ UNCHANGED <<reused, fed, headersWhole, thrown, first, upto, loopFirst, loopSize>>

(* Behind a message of no bytes the same size is read again. *)
NextSize(rest) == IF loopSize = 0 THEN {0} ELSE HeaderAt(rest, upto)

(* A size of 0 throws out of feed, which keeps what it started with.       *)
ThrowsOnZero ==
  /\ loopSize' = 0 => thrown < MaxThrows
  /\ looping' = (loopSize' > 0)
  /\ thrown' = IF loopSize' > 0 THEN thrown ELSE thrown + 1

(* Mutant: the remainder is taken from the end of the header. *)
CutMessageLate ==
  LET rest == loopFirst + loopSize + 1 IN
  /\ looping /\ loopSize < upto - loopFirst
  /\ Deliver
  /\ IF upto - rest < HeaderSize
     THEN /\ first' = rest /\ looping' = FALSE
          /\ UNCHANGED <<loopFirst, loopSize, thrown>>
     ELSE /\ loopFirst' = rest
          /\ loopSize' \in NextSize(rest)
          /\ ThrowsOnZero
          /\ UNCHANGED first
  /\ UNCHANGED <<reused, fed, headersWhole, has, upto, size>>

(* More than one message: deliver the first and go on with the rest. A     *)
(* rest that is too short for a header becomes the current message, and    *)
(* the size that is kept with it is the one feed started with.             *)
CutMessage ==
  LET rest == loopFirst + loopSize IN
  /\ looping /\ loopSize < upto - loopFirst
  /\ Deliver
  /\ IF upto - rest < HeaderSize
     THEN /\ first' = rest /\ looping' = FALSE
          /\ UNCHANGED <<loopFirst, loopSize, thrown>>
     ELSE /\ loopFirst' = rest
          /\ loopSize' \in NextSize(rest)
          /\ ThrowsOnZero
          /\ UNCHANGED first
  /\ UNCHANGED <<reused, fed, headersWhole, has, upto, size>>

(* onMessage throws while more data waits: the whole buffer of this feed   *)
(* is still the current message, and its first message is read again.      *)
CutMessageThrows ==
  /\ thrown < MaxThrows
  /\ looping /\ loopSize < upto - loopFirst
  /\ Deliver
  /\ looping' = FALSE
  /\ thrown' = thrown + 1
  /\ UNCHANGED <<reused, fed, headersWhole, has, first, upto, size, loopFirst, loopSize>>

Next ==
  \/ \E to \in Cuts : Feed(to)
  \/ Incomplete
  \/ Exact
  \/ CutMessage
  \/ CutMessageThrows

Spec == Init /\ [][Next]_vars
-----------------------------------------------------------------------------
TypeOK ==
  /\ reused \in BOOLEAN
  /\ fed \in 0 .. End
  /\ has \in BOOLEAN /\ first \in 0 .. End /\ upto \in 0 .. End /\ size \in Nat
  /\ looping \in BOOLEAN /\ loopFirst \in 0 .. End /\ loopSize \in Nat
  /\ delivered \in Seq(Nat \X Nat)
  /\ headersWhole \in BOOLEAN /\ thrown \in 0 .. MaxThrows

Message(k) == <<Start[k], Size(k)>>

(* What was delivered is a prefix of the messages of the stream: each one  *)
(* whole, once and in order, however the stream was cut outside of headers.*)
DeliversInOrder ==
  headersWhole /\ thrown = 0 =>
    /\ Len(delivered) <= N
    /\ \A k \in 1 .. Len(delivered) : delivered[k] = Message(k)

(* When feed returns, every message whose last byte has arrived has been   *)
(* delivered: none waits for data of the next one.                         *)
DeliversAtOnce ==
  headersWhole /\ thrown = 0 /\ ~looping => \A k \in 1 .. N :
    Start[k + 1] <= fed => \E j \in 1 .. Len(delivered) : delivered[j] = Message(k)

(* Even when handlers throw, and messages are delivered again: every buffer*)
(* is exactly one message, and none is skipped, message k only comes after *)
(* every earlier one.                                                      *)
SkipsNothing ==
  headersWhole => \A j \in 1 .. Len(delivered) : \E k \in 1 .. N :
    /\ delivered[j] = Message(k)
    /\ k > 1 => \E i \in 1 .. j - 1 : delivered[i] = Message(k - 1)

(* However the stream is cut, inside headers too: no byte is handed out    *)
(* twice, before an earlier one, or before it has arrived.                 *)
NoByteTwice ==
  thrown = 0 => \A j \in 1 .. Len(delivered) :
    /\ delivered[j][1] + delivered[j][2] <= fed
    /\ j > 1 => delivered[j - 1][1] + delivered[j - 1][2] <= delivered[j][1]

(* Every buffer given to onMessage is exactly one message of the stream,   *)
(* wherever the chunks end. protocol.ts:553 says of a rest that is shorter *)
(* than a header "not enough data to read the header. Wait for next onData"*)
DeliversMessages ==
  \A j \in 1 .. Len(delivered) : \E k \in 1 .. N : delivered[j] = Message(k)

(* All that holds at any moment: messages are handed out whole, in order,  *)
(* at once, and no byte is skipped or handed out twice.                    *)
FramingSafety ==
  /\ TypeOK
  /\ DeliversInOrder
  /\ DeliversAtOnce
  /\ SkipsNothing
  /\ NoByteTwice
=============================================================================
