------------------------------ MODULE RpcProofs ------------------------------
(***************************************************************************)
(* Framing, for every stream of messages and every way to cut it outside   *)
(* of headers: feed delivers the messages whole, once, in order and at     *)
(* once, as long as nothing throws, and skips none if something does.      *)
(* Wherever it is cut, no byte is delivered twice, or before it has        *)
(* arrived. And the transport of the client, for every number of requests  *)
(* and sockets: one socket is alive, connected means that it is open, and  *)
(* the messages of a request stay on the connection of the first.          *)
(***************************************************************************)
EXTENDS RpcBufferReader, RpcTransporter, FiniteSetTheorems, TLAPS

(* Where the reader stands: d messages are delivered, and what it holds    *)
(* starts with message d + 1.                                              *)
At(d) ==
  /\ Len(delivered) = d
  /\ \A k \in 1 .. d : delivered[k] = Message(k)
  /\ IF looping
     THEN /\ d < N
          /\ loopFirst = Start[d + 1] /\ loopSize = Size(d + 1)
          /\ Start[d + 1] + HeaderSize <= upto
          /\ upto = fed
          /\ has
     ELSE IF has
     THEN /\ d < N
          /\ first = Start[d + 1] /\ size = Size(d + 1)
          /\ Start[d + 1] + HeaderSize <= upto
          /\ fed < Start[d + 2] /\ upto = fed
     ELSE fed = Start[d + 1]

InPlace == \E d \in 0 .. N : At(d)

(* No handler has thrown and no chunk has ended inside a header. *)
Clean == headersWhole /\ thrown = 0

Inv ==
  /\ TypeOK
  /\ headersWhole => ~InHeader(fed)
  /\ Clean => InPlace

(* The starts of the messages are positions of the stream, each at least a *)
(* header apart.                                                           *)
LEMMA Starts ==
  /\ N \in Nat \ {0} /\ End \in Nat
  /\ \A k \in 1 .. N + 1 : Start[k] \in 0 .. End
  /\ \A j, k \in 1 .. N + 1 : j < k => Start[j] + HeaderSize <= Start[k]
  /\ \A k \in 1 .. N : Size(k) \in Nat /\ Size(k) >= HeaderSize /\ Start[k] + Size(k) = Start[k + 1]
<1>1. N \in Nat \ {0} /\ Len(Start) = N + 1
  BY StreamAssumption DEF N
<1>2. \A k \in 1 .. N + 1 : Start[k] \in Nat
  BY <1>1, StreamAssumption
<1>3. \A j, k \in 1 .. N + 1 : j < k => Start[j] + HeaderSize <= Start[k]
  BY StreamAssumption
<1>4. \A k \in 1 .. N + 1 : Start[k] \in 0 .. End
  BY <1>1, <1>2, <1>3 DEF End, HeaderSize
<1>5. \A k \in 1 .. N : Size(k) \in Nat /\ Size(k) >= HeaderSize /\ Start[k] + Size(k) = Start[k + 1]
  <2> TAKE k \in 1 .. N
  <2>1. k \in 1 .. N + 1 /\ k + 1 \in 1 .. N + 1 /\ k < k + 1
    BY <1>1
  <2>2. Start[k] + HeaderSize <= Start[k + 1] /\ Start[k] \in Nat /\ Start[k + 1] \in Nat
    BY <2>1, <1>2, <1>3
  <2> QED BY <2>2 DEF Size, HeaderSize
<1> QED BY <1>1, <1>2, <1>3, <1>4, <1>5 DEF End

(* A header that has arrived is read right. *)
LEMMA ReadsHeader ==
  ASSUME NEW k \in 1 .. N, NEW q \in Nat, Start[k] + HeaderSize <= q
  PROVE  HeaderAt(Start[k], q) = {Size(k)}
<1>1. \A j \in 1 .. N : Start[j] = Start[k] => j = k
  <2> TAKE j \in 1 .. N
  <2>1. /\ j \in 1 .. N + 1 /\ k \in 1 .. N + 1
        /\ Start[j] \in Nat /\ Start[k] \in Nat
        /\ j < k => Start[j] + HeaderSize <= Start[k]
        /\ k < j => Start[k] + HeaderSize <= Start[j]
    BY Starts
  <2> QED BY <2>1, Starts DEF HeaderSize
<1>2. {j \in 1 .. N : Start[j] = Start[k]} = {k}
  BY <1>1
<1> QED BY <1>2 DEF HeaderAt

(* The reader starts with nothing delivered, at the first message. *)
LEMMA InitInv == Init => Inv
<1> SUFFICES ASSUME Init PROVE Inv
  OBVIOUS
<1>1. TypeOK
  <2>1. 0 \in 0 .. End /\ 0 \in Nat /\ 0 \in 0 .. MaxThrows
    BY Starts, StreamAssumption
  <2>2. delivered \in Seq(Nat \X Nat)
    BY DEF Init
  <2> QED BY <2>1, <2>2, Zenon DEF Init, TypeOK
<1>2. ~InHeader(fed)
  BY Starts DEF Init, InHeader
<1>3. At(0)
  BY StreamAssumption DEF Init, At
<1> QED BY <1>1, <1>2, <1>3, Starts DEF Inv, InPlace

(* A size that is read is a natural number, of a message or garbage. *)
LEMMA HeaderType ==
  ASSUME NEW p, NEW q, NEW n \in HeaderAt(p, q)
  PROVE  n \in Nat
BY StreamAssumption, Starts DEF HeaderAt

(* Every step of the reader keeps the types. *)
LEMMA NextType ==
  ASSUME TypeOK, [Next]_vars
  PROVE  TypeOK'
<1>1. CASE UNCHANGED vars
  BY <1>1 DEF vars, TypeOK
<1>2. ASSUME NEW to \in Cuts, Feed(to) PROVE TypeOK'
  <2>1. /\ to \in 0 .. End /\ fed \in 0 .. End /\ first \in 0 .. End
        /\ headersWhole' \in BOOLEAN
        /\ fed' = to /\ reused' = reused /\ delivered' = delivered /\ thrown' = thrown
    BY <1>2, StreamAssumption, Starts DEF Feed, TypeOK
  <2>2. CASE FeedTooShort(to)
    BY <2>1, <2>2 DEF FeedTooShort, TypeOK
  <2>3. CASE FeedFresh(to)
    BY <2>1, <2>3, HeaderType DEF FeedFresh, EnterLoop, TypeOK
  <2>4. CASE FeedMore(to)
    BY <2>1, <2>4, HeaderType DEF FeedMore, EnterLoop, TypeOK
  <2> QED BY <1>2, <2>2, <2>3, <2>4 DEF Feed
<1>3. CASE Incomplete
  BY <1>3 DEF Incomplete, TypeOK
<1>4. ASSUME Deliver PROVE delivered' \in Seq(Nat \X Nat)
  <2>1. loopFirst \in Nat /\ loopSize \in Nat
    BY Starts DEF TypeOK
  <2> QED BY <1>4, <2>1 DEF Deliver, TypeOK
<1>5. CASE Exact
  BY <1>4, <1>5 DEF Exact, TypeOK
<1>6. CASE CutMessage
  <2> DEFINE rest == loopFirst + loopSize
  <2>1. rest \in 0 .. End
    BY <1>6, Starts DEF CutMessage, TypeOK
  <2>2. CASE upto - rest < HeaderSize
    BY <1>4, <1>6, <2>1, <2>2 DEF CutMessage, TypeOK
  <2>3. CASE ~(upto - rest < HeaderSize)
    <3>1. loopSize' \in Nat /\ loopFirst' = rest /\ first' = first /\ looping' \in BOOLEAN
      BY <1>6, <2>3, HeaderType DEF CutMessage, NextSize, ThrowsOnZero
    <3>2. thrown' \in 0 .. MaxThrows
      BY <1>6, <2>3, <3>1, StreamAssumption DEF CutMessage, ThrowsOnZero, TypeOK
    <3> QED BY <1>4, <1>6, <2>1, <3>1, <3>2 DEF CutMessage, TypeOK
  <2> QED BY <2>2, <2>3
<1>7. CASE CutMessageThrows
  <2>1. thrown' \in 0 .. MaxThrows
    BY <1>7, StreamAssumption DEF CutMessageThrows, TypeOK
  <2> QED BY <1>4, <1>7, <2>1 DEF CutMessageThrows, TypeOK
<1> QED BY <1>1, <1>2, <1>3, <1>5, <1>6, <1>7 DEF Next

(* What has been fed ends in a header only if some chunk ended there. *)
LEMMA NextCut ==
  ASSUME headersWhole => ~InHeader(fed), [Next]_vars
  PROVE  headersWhole' => ~InHeader(fed)'
BY DEF Next, vars, Feed, InHeader, Incomplete, Exact, CutMessage, CutMessageThrows

(* Data that goes beyond the start of a message and does not end in its    *)
(* header contains the header.                                             *)
LEMMA CutAfterHeader ==
  ASSUME NEW k \in 1 .. N, NEW to \in Nat, ~InHeader(to), Start[k] < to
  PROVE  Start[k] + HeaderSize <= to
<1>1. Start[k] \in Nat /\ k \in 1 .. N + 1
  BY Starts
<1> QED BY <1>1 DEF InHeader, HeaderSize

(* feed enters its loop at the first byte that is not delivered. *)
LEMMA FeedInv ==
  ASSUME Inv, Clean, NEW to \in Cuts, ~InHeader(to), Feed(to)
  PROVE  InPlace'
<1> PICK d \in 0 .. N : At(d)
  BY DEF Inv, InPlace
<1>1. to \in 1 .. End /\ fed < to /\ ~looping /\ fed' = to /\ delivered' = delivered /\ reused' = reused
  BY StreamAssumption DEF Feed
<1>2. TypeOK
  BY DEF Inv
<1>3. d < N /\ Start[d + 1] <= fed
  <2>1. CASE has
    BY <2>1, <1>1, <1>2, Starts DEF At, TypeOK, HeaderSize
  <2>2. CASE ~has
    BY <2>2, <1>1, <1>2, Starts DEF At, TypeOK, End
  <2> QED BY <2>1, <2>2
<1>4. d + 1 \in 1 .. N /\ Start[d + 1] \in 0 .. End
  BY <1>3, Starts
<1>5. Start[d + 1] + HeaderSize <= to
  BY <1>4, <1>1, <1>3, <1>2, CutAfterHeader DEF TypeOK
<1>6. HeaderAt(Start[d + 1], to) = {Size(d + 1)}
  BY <1>1, <1>4, <1>5, ReadsHeader
<1>7. Size(d + 1) \in Nat /\ Size(d + 1) # 0
  BY <1>4, Starts DEF HeaderSize
<1>8. EnterLoop(Start[d + 1], to, Size(d + 1))
  <2>1. CASE FeedTooShort(to)
    BY <2>1, <1>5, <1>1, <1>2, <1>4 DEF FeedTooShort, At, TypeOK, HeaderSize
  <2>2. CASE FeedFresh(to)
    BY <2>2, <1>6, <1>1 DEF FeedFresh, At
  <2>3. CASE FeedMore(to)
    BY <2>3, <1>7, <1>1 DEF FeedMore, At
  <2> QED BY <2>1, <2>2, <2>3 DEF Feed
<1>9. At(d)'
  BY <1>8, <1>1, <1>3, <1>5 DEF At, EnterLoop, Message, Size
<1> QED BY <1>9 DEF InPlace

(* A message that is not complete is kept, with its size. *)
LEMMA IncompleteInv ==
  ASSUME Inv, Clean, Incomplete
  PROVE  InPlace'
<1> PICK d \in 0 .. N : At(d)
  BY DEF Inv, InPlace
<1>1. /\ TypeOK /\ looping /\ d < N /\ d + 1 \in 1 .. N
      /\ loopFirst = Start[d + 1] /\ loopSize = Size(d + 1) /\ upto = fed
  BY Starts DEF Inv, At, Incomplete
<1>2. Start[d + 1] \in Nat /\ Start[d + 1] + Size(d + 1) = Start[d + 2] /\ Size(d + 1) \in Nat
  BY <1>1, Starts
<1>3. fed < Start[d + 2]
  <2>1. upto \in Nat /\ loopSize > upto - loopFirst
    BY <1>1, Starts DEF Incomplete, TypeOK
  <2> QED BY <1>1, <1>2, <2>1
<1>4. At(d)'
  BY <1>1, <1>2, <1>3, Starts DEF At, Incomplete, Message, Size, TypeOK
<1> QED BY <1>4 DEF InPlace

(* The message in the loop is message d + 1, whatever Deliver adds. *)
LEMMA DeliverNext ==
  ASSUME NEW d \in 0 .. N, TypeOK, At(d), looping, Deliver
  PROVE  /\ Len(delivered') = d + 1
         /\ \A k \in 1 .. d + 1 : delivered'[k] = Message(k)
<1>1. delivered' = Append(delivered, Message(d + 1))
  BY DEF Deliver, At, Message
<1>2. loopFirst \in Nat /\ loopSize \in Nat /\ Message(d + 1) = <<loopFirst, loopSize>>
  BY DEF TypeOK, At, Message
<1>3. Message(d + 1) \in Nat \X Nat /\ delivered \in Seq(Nat \X Nat)
  BY <1>2 DEF TypeOK
<1> QED BY <1>1, <1>3 DEF At

(* A buffer that is exactly one message leaves nothing behind. *)
LEMMA ExactInv ==
  ASSUME Inv, Clean, Exact
  PROVE  InPlace'
<1> PICK d \in 0 .. N : At(d)
  BY DEF Inv, InPlace
<1>1. /\ TypeOK /\ looping /\ d < N /\ d + 1 \in 1 .. N
      /\ loopFirst = Start[d + 1] /\ loopSize = Size(d + 1) /\ upto = fed
  BY Starts DEF Inv, At, Exact
<1>2. Start[d + 1] \in Nat /\ Start[d + 1] + Size(d + 1) = Start[d + 2] /\ Size(d + 1) \in Nat
  BY <1>1, Starts
<1>3. fed = Start[d + 2]
  BY <1>1, <1>2 DEF Exact, TypeOK
<1>4. /\ Len(delivered') = d + 1
      /\ \A k \in 1 .. d + 1 : delivered'[k] = Message(k)
  BY <1>1, DeliverNext DEF Exact
<1>5. At(d + 1)'
  BY <1>1, <1>3, <1>4 DEF At, Exact, Message, Size
<1> QED BY <1>5, <1>1, Starts DEF InPlace

(* With more data, the loop goes on with the next message: as no cut is in *)
(* a header, the rest is long enough to read its size.                     *)
LEMMA CutMessageInv ==
  ASSUME Inv, Clean, CutMessage
  PROVE  InPlace'
<1> PICK d \in 0 .. N : At(d)
  BY DEF Inv, InPlace
<1>1. /\ TypeOK /\ looping /\ has /\ d < N /\ d + 1 \in 1 .. N
      /\ loopFirst = Start[d + 1] /\ loopSize = Size(d + 1) /\ upto = fed
  BY Starts DEF Inv, At, CutMessage
<1>2. Start[d + 1] \in Nat /\ Start[d + 1] + Size(d + 1) = Start[d + 2] /\ Size(d + 1) \in Nat
  BY <1>1, Starts
<1>3. Start[d + 2] < fed /\ fed \in 0 .. End
  BY <1>1, <1>2 DEF CutMessage, TypeOK
<1>4. d + 2 \in 1 .. N /\ Start[d + 2] \in 0 .. End
  BY <1>1, <1>2, <1>3, Starts DEF End
<1>5. Start[d + 2] + HeaderSize <= fed
  BY <1>3, <1>4, CutAfterHeader, Starts DEF Inv, Clean
<1>6. NextSize(Start[d + 2]) = {Size(d + 2)}
  <2>1. loopSize # 0
    BY <1>1, Starts DEF HeaderSize
  <2> QED BY <2>1, <1>1, <1>3, <1>4, <1>5, ReadsHeader DEF NextSize
<1>7. Size(d + 2) \in Nat /\ Size(d + 2) > 0
  BY <1>4, Starts DEF HeaderSize
<1>8. ~(upto - (loopFirst + loopSize) < HeaderSize) /\ loopFirst + loopSize = Start[d + 2]
  BY <1>1, <1>2, <1>3, <1>4, <1>5 DEF HeaderSize
<1>9. /\ loopFirst' = Start[d + 2] /\ loopSize' = Size(d + 2) /\ looping' = TRUE
      /\ UNCHANGED <<reused, fed, has, first, upto, size>>
      /\ Deliver
  BY <1>6, <1>7, <1>8 DEF CutMessage, ThrowsOnZero
<1>10. /\ Len(delivered') = d + 1
       /\ \A k \in 1 .. d + 1 : delivered'[k] = Message(k)
  BY <1>1, <1>9, DeliverNext
<1>11. At(d + 1)'
  <2>1. d + 1 < N /\ (d + 1) + 1 = d + 2 /\ Message(d + 1)' = Message(d + 1)
    BY <1>4, Starts DEF Message, Size
  <2>2. looping' /\ has' /\ upto' = fed' /\ Start[d + 2] + HeaderSize <= upto'
    BY <1>1, <1>5, <1>9
  <2> QED BY <2>1, <2>2, <1>9, <1>10 DEF At, Message, Size
<1> QED BY <1>11, <1>1, Starts DEF InPlace

(* The reader always stands at the first byte of the first message that is *)
(* not delivered, for every stream cut outside of headers.                 *)
THEOREM Invariance == Spec => []Inv
<1>1. Inv /\ [Next]_vars => Inv'
  <2> SUFFICES ASSUME Inv, [Next]_vars PROVE Inv'
    OBVIOUS
  <2>1. TypeOK'
    BY NextType DEF Inv
  <2>2. headersWhole' => ~InHeader(fed)'
    BY NextCut DEF Inv
  <2>3. ASSUME Clean' PROVE InPlace'
    <3>1. CASE UNCHANGED vars
      BY <2>3, <3>1 DEF Inv, Clean, vars, InPlace, At, Message, Size
    <3>2. CASE CutMessageThrows
      BY <2>3, <3>2 DEF CutMessageThrows, Clean, Inv, TypeOK
    <3>3. ASSUME NEW to \in Cuts, Feed(to) PROVE InPlace'
      <4>1. Clean /\ ~InHeader(to)
        BY <2>3, <3>3 DEF Feed, Clean
      <4> QED BY <3>3, <4>1, FeedInv
    <3>4. CASE Incomplete
      BY <2>3, <3>4, IncompleteInv DEF Clean, Incomplete
    <3>5. CASE Exact
      BY <2>3, <3>5, ExactInv DEF Clean, Exact
    <3>6. CASE CutMessage
      <4>1. thrown = 0 /\ headersWhole
        BY <2>3, <3>6 DEF Clean, CutMessage, ThrowsOnZero, Inv, TypeOK
      <4> QED BY <3>6, <4>1, CutMessageInv DEF Clean
    <3> QED BY <3>1, <3>2, <3>3, <3>4, <3>5, <3>6 DEF Next
  <2> QED BY <2>1, <2>2, <2>3 DEF Inv
<1> QED BY <1>1, InitInv, PTL DEF Spec

(* TypeOK, wherever the stream is cut. *)
THEOREM TypeCorrect == Spec => []TypeOK
<1>1. Inv => TypeOK
  BY DEF Inv
<1> QED BY <1>1, Invariance, PTL

(* Every message is delivered whole, once and in order. *)
THEOREM InOrder == Spec => []DeliversInOrder
<1>1. Inv => DeliversInOrder
  BY Starts DEF Inv, Clean, InPlace, At, DeliversInOrder
<1> QED BY <1>1, Invariance, PTL

(* Every message that has arrived is delivered when feed returns. *)
THEOREM AtOnce == Spec => []DeliversAtOnce
<1>1. Inv => DeliversAtOnce
  <2> SUFFICES ASSUME Inv, Clean, ~looping, NEW k \in 1 .. N, Start[k + 1] <= fed
               PROVE  \E j \in 1 .. Len(delivered) : delivered[j] = Message(k)
    BY DEF DeliversAtOnce, Clean
  <2> PICK d \in 0 .. N : At(d)
    BY DEF Inv, InPlace
  <2>1. fed \in Nat
    BY Starts DEF Inv, TypeOK
  <2>2. k <= d
    <3> SUFFICES ASSUME d < k PROVE FALSE
      BY Starts
    <3>1. CASE has
      <4>1. d + 2 \in 1 .. N + 1 /\ k + 1 \in 1 .. N + 1 /\ d + 2 <= k + 1
        BY Starts
      <4>2. Start[d + 2] \in Nat /\ Start[k + 1] \in Nat /\ Start[d + 2] <= Start[k + 1]
        BY <4>1, Starts DEF HeaderSize
      <4> QED BY <4>2, <3>1, <2>1 DEF At
    <3>2. CASE ~has
      <4>1. d + 1 \in 1 .. N + 1 /\ k + 1 \in 1 .. N + 1 /\ d + 1 < k + 1
        BY Starts
      <4>2. Start[d + 1] \in Nat /\ Start[k + 1] \in Nat /\ Start[d + 1] + HeaderSize <= Start[k + 1]
        BY <4>1, Starts
      <4> QED BY <4>2, <3>2, <2>1 DEF At, HeaderSize
    <3> QED BY <3>1, <3>2
  <2>3. k \in 1 .. Len(delivered) /\ delivered[k] = Message(k)
    BY <2>2 DEF At
  <2> QED BY <2>3
<1> QED BY <1>1, Invariance, PTL
-----------------------------------------------------------------------------
(* Handlers may throw now. All messages before message e are delivered, at *)
(* least once.                                                             *)
Seen(k) == \E i \in 1 .. Len(delivered) : delivered[i] = Message(k)
SeenBefore(e) == \A k \in 1 .. e - 1 : Seen(k)

(* The bytes from p on are those of message e, and its header has arrived. *)
StandsAt(e, p, n) ==
  /\ e \in 1 .. N
  /\ p = Start[e] /\ n = Size(e) /\ Start[e] + HeaderSize <= upto
  /\ SeenBefore(e)

(* Where the reader stands when headers are whole: its buffer begins with  *)
(* a message, the loop, which may be ahead of it, stands at one.           *)
Resumes ==
  /\ has => (\E e \in 1 .. N : StandsAt(e, first, size)) /\ upto = fed
  /\ ~has => ~looping /\ \E e \in 1 .. N + 1 : fed = Start[e] /\ SeenBefore(e)
  /\ looping => \E e \in 1 .. N : StandsAt(e, loopFirst, loopSize)

SkipInv == headersWhole => ~InHeader(fed) /\ Resumes /\ SkipsNothing

(* What was seen stays seen. *)
LEMMA SeenStays ==
  ASSUME NEW k, NEW m \in Nat \X Nat, TypeOK, delivered' \in {delivered, Append(delivered, m)}, Seen(k)
  PROVE  Seen(k)'
<1>1. delivered \in Seq(Nat \X Nat)
  BY DEF TypeOK
<1>2. PICK i \in 1 .. Len(delivered) : delivered[i] = Message(k)
  BY DEF Seen
<1>3. i \in 1 .. Len(delivered') /\ delivered'[i] = delivered[i]
  BY <1>1, <1>2
<1> QED BY <1>2, <1>3 DEF Seen, Message, Size

(* A message behind all it follows is one more that is not skipped.        *)
LEMMA SkipsNoneMore ==
  ASSUME TypeOK, SkipsNothing, headersWhole, NEW e \in 1 .. N, StandsAt(e, loopFirst, loopSize), Deliver
  PROVE  SkipsNothing' /\ SeenBefore(e + 1)' /\ (\A k \in 1 .. N : SeenBefore(k) => SeenBefore(k)')
<1>1. /\ delivered' = Append(delivered, Message(e)) /\ Message(e) \in Nat \X Nat
      /\ delivered \in Seq(Nat \X Nat) /\ e \in Nat
  BY Starts DEF Deliver, StandsAt, Message, TypeOK
<1>2. /\ Len(delivered') = Len(delivered) + 1 /\ Len(delivered) \in Nat
      /\ delivered'[Len(delivered) + 1] = Message(e)
      /\ \A i \in 1 .. Len(delivered) : delivered'[i] = delivered[i]
  BY <1>1
<1>3. \A k : Seen(k) => Seen(k)'
  BY <1>1, SeenStays
<1>4. Seen(e)'
  BY <1>2 DEF Seen, Message, Size
<1>5. SeenBefore(e + 1)'
  BY <1>1, <1>3, <1>4 DEF SeenBefore, StandsAt
<1>6. \A k \in 1 .. N : SeenBefore(k) => SeenBefore(k)'
  BY <1>3 DEF SeenBefore
<1>7. SkipsNothing'
  <2> SUFFICES ASSUME NEW j \in 1 .. Len(delivered')
               PROVE  \E k \in 1 .. N : /\ delivered'[j] = Message(k)
                                        /\ k > 1 => \E i \in 1 .. j - 1 : delivered'[i] = Message(k - 1)
    BY DEF SkipsNothing, Message, Size
  <2>1. CASE j \in 1 .. Len(delivered)
    <3>1. PICK k \in 1 .. N : /\ delivered[j] = Message(k)
                              /\ k > 1 => \E i \in 1 .. j - 1 : delivered[i] = Message(k - 1)
      BY <2>1 DEF SkipsNothing
    <3>2. \A i \in 1 .. j : delivered'[i] = delivered[i]
      BY <2>1, <1>2
    <3> QED BY <3>1, <3>2, <2>1
  <2>2. CASE j = Len(delivered) + 1
    <3>1. e > 1 => \E i \in 1 .. Len(delivered) : delivered[i] = Message(e - 1)
      <4> SUFFICES ASSUME e > 1 PROVE Seen(e - 1)
        BY DEF Seen
      <4>1. e - 1 \in 1 .. e - 1
        BY <1>1
      <4> QED BY <4>1 DEF StandsAt, SeenBefore
    <3>2. e > 1 => \E i \in 1 .. j - 1 : delivered'[i] = Message(e - 1)
      BY <3>1, <2>2, <1>2
    <3> QED BY <3>2, <2>2, <1>2
  <2> QED BY <2>1, <2>2, <1>2
<1> QED BY <1>5, <1>6, <1>7

(* feed goes on with the message its buffer begins with, or the next one. *)
LEMMA FeedSkips ==
  ASSUME TypeOK, SkipInv, headersWhole, NEW to \in Cuts, ~InHeader(to), Feed(to)
  PROVE  Resumes'
<1>1. to \in 1 .. End /\ fed < to /\ ~looping /\ fed' = to /\ delivered' = delivered /\ Resumes
  BY StreamAssumption DEF Feed, SkipInv
<1>2. fed \in Nat /\ upto \in Nat /\ to \in Nat
  BY <1>1, Starts DEF TypeOK
<1>3. PICK e \in 1 .. N : /\ SeenBefore(e) /\ Start[e] + HeaderSize <= to
                          /\ EnterLoop(Start[e], to, Size(e))
  <2>1. CASE has
    <3>1. PICK e \in 1 .. N : StandsAt(e, first, size)
      BY <2>1, <1>1 DEF Resumes
    <3>2. size # 0 /\ Start[e] \in Nat
      BY <3>1, Starts DEF StandsAt, HeaderSize
    <3>3. Start[e] + HeaderSize <= to
      BY <2>1, <3>1, <3>2, <1>1, <1>2 DEF Resumes, StandsAt, HeaderSize
    <3>4. EnterLoop(Start[e], to, Size(e))
      BY <2>1, <3>1, <3>2 DEF Feed, FeedTooShort, FeedFresh, FeedMore, StandsAt
    <3> QED BY <3>1, <3>3, <3>4 DEF StandsAt
  <2>2. CASE ~has
    <3>1. PICK e \in 1 .. N + 1 : fed = Start[e] /\ SeenBefore(e)
      BY <2>2, <1>1 DEF Resumes
    <3>2. e \in 1 .. N
      BY <3>1, <1>1, <1>2, Starts DEF End
    <3>3. Start[e] + HeaderSize <= to
      BY <3>1, <3>2, <1>1, <1>2, CutAfterHeader
    <3>4. HeaderAt(fed, to) = {Size(e)}
      BY <3>1, <3>2, <3>3, <1>2, ReadsHeader
    <3>5. ~FeedTooShort(to)
      BY <3>1, <3>2, <3>3, <1>2 DEF FeedTooShort, HeaderSize
    <3>6. EnterLoop(Start[e], to, Size(e))
      BY <2>2, <3>1, <3>4, <3>5 DEF Feed, FeedFresh, FeedMore
    <3> QED BY <3>1, <3>2, <3>3, <3>6
  <2> QED BY <2>1, <2>2
<1>4. SeenBefore(e)'
  BY <1>1, <1>3 DEF SeenBefore, Seen, Message, Size
<1>5. StandsAt(e, first, size)' /\ StandsAt(e, loopFirst, loopSize)' /\ has' /\ upto' = fed'
  BY <1>1, <1>3, <1>4 DEF StandsAt, EnterLoop, Size
<1> QED BY <1>5 DEF Resumes

(* With more data the loop goes on with the message behind this one, which *)
(* begins with a whole header.                                             *)
LEMMA CutMessageSkips ==
  ASSUME TypeOK, SkipInv, headersWhole, CutMessage
  PROVE  Resumes' /\ SkipsNothing'
<1>1. looping /\ has /\ upto = fed /\ Deliver /\ UNCHANGED <<has, fed, upto, size>> /\ SkipsNothing
  BY DEF CutMessage, SkipInv, Resumes
<1>2. PICK e \in 1 .. N : StandsAt(e, loopFirst, loopSize)
  BY <1>1 DEF SkipInv, Resumes
<1>3. PICK f \in 1 .. N : StandsAt(f, first, size)
  BY <1>1 DEF SkipInv, Resumes
<1>4. SkipsNothing' /\ SeenBefore(e + 1)' /\ SeenBefore(f)'
  BY <1>1, <1>2, <1>3, SkipsNoneMore DEF StandsAt
<1>5. /\ Start[e] \in Nat /\ loopFirst + loopSize = Start[e + 1] /\ loopSize \in Nat /\ loopSize # 0
      /\ e + 1 \in 1 .. N + 1 /\ Start[e + 1] \in 0 .. End /\ upto \in 0 .. End
  BY <1>2, Starts DEF StandsAt, HeaderSize, TypeOK
<1>6. Start[e + 1] < upto
  BY <1>2, <1>5 DEF CutMessage, StandsAt
<1>7. e + 1 \in 1 .. N
  BY <1>5, <1>6, Starts DEF End
<1>8. Start[e + 1] + HeaderSize <= upto
  BY <1>1, <1>5, <1>6, <1>7, CutAfterHeader DEF SkipInv
<1>9. NextSize(Start[e + 1]) = {Size(e + 1)}
  BY <1>5, <1>7, <1>8, ReadsHeader DEF NextSize
<1>10. loopFirst' = Start[e + 1] /\ loopSize' = Size(e + 1) /\ first' = first
  <2>1. ~(upto - (loopFirst + loopSize) < HeaderSize)
    BY <1>5, <1>8 DEF HeaderSize
  <2> QED BY <2>1, <1>5, <1>9 DEF CutMessage
<1>11. StandsAt(e + 1, loopFirst, loopSize)'
  BY <1>1, <1>4, <1>7, <1>8, <1>10 DEF StandsAt, Size
<1>12. StandsAt(f, first, size)'
  BY <1>1, <1>3, <1>4, <1>10 DEF StandsAt, Size
<1> QED BY <1>1, <1>4, <1>7, <1>11, <1>12 DEF Resumes

(* A message is the last one of what has arrived. *)
LEMMA ExactSkips ==
  ASSUME TypeOK, SkipInv, headersWhole, Exact
  PROVE  Resumes' /\ SkipsNothing'
<1>1. looping /\ upto = fed /\ Deliver /\ fed' = fed /\ ~has' /\ ~looping' /\ SkipsNothing
  BY DEF Exact, SkipInv, Resumes
<1>2. PICK e \in 1 .. N : StandsAt(e, loopFirst, loopSize)
  BY <1>1 DEF SkipInv, Resumes
<1>3. SkipsNothing' /\ SeenBefore(e + 1)'
  BY <1>1, <1>2, SkipsNoneMore
<1>4. /\ Start[e] \in Nat /\ loopFirst + loopSize = Start[e + 1] /\ loopSize \in Nat
      /\ e + 1 \in 1 .. N + 1 /\ upto \in Nat
  BY <1>2, Starts DEF StandsAt, TypeOK
<1>5. fed' = Start[e + 1]
  BY <1>1, <1>2, <1>4 DEF Exact, StandsAt
<1> QED BY <1>1, <1>3, <1>4, <1>5 DEF Resumes

(* A handler that throws leaves the buffer, which begins with a message.   *)
LEMMA ThrowSkips ==
  ASSUME TypeOK, SkipInv, headersWhole, CutMessageThrows
  PROVE  Resumes' /\ SkipsNothing'
<1>1. /\ looping /\ has /\ upto = fed /\ Deliver /\ ~looping' /\ UNCHANGED <<has, fed, upto, first, size>>
      /\ SkipsNothing
  BY DEF CutMessageThrows, SkipInv, Resumes
<1>2. PICK e \in 1 .. N : StandsAt(e, loopFirst, loopSize)
  BY <1>1 DEF SkipInv, Resumes
<1>3. PICK f \in 1 .. N : StandsAt(f, first, size)
  BY <1>1 DEF SkipInv, Resumes
<1>4. SkipsNothing' /\ SeenBefore(f)'
  BY <1>1, <1>2, <1>3, SkipsNoneMore DEF StandsAt
<1>5. StandsAt(f, first, size)'
  BY <1>1, <1>3, <1>4 DEF StandsAt, Size
<1> QED BY <1>1, <1>4, <1>5 DEF Resumes

(* Every step leaves the reader at a message. *)
LEMMA NextSkips ==
  ASSUME TypeOK, SkipInv, [Next]_vars
  PROVE  SkipInv'
<1> SUFFICES ASSUME headersWhole' PROVE (~InHeader(fed) /\ Resumes /\ SkipsNothing)'
  BY DEF SkipInv
<1>1. headersWhole
  BY DEF Next, vars, Feed, Incomplete, Exact, CutMessage, CutMessageThrows
<1>2. ~InHeader(fed)'
  BY <1>1, NextCut DEF SkipInv
<1>3. CASE UNCHANGED vars
  BY <1>1, <1>2, <1>3 DEF SkipInv, vars, Resumes, StandsAt, SeenBefore, Seen, SkipsNothing, Message, Size
<1>4. ASSUME NEW to \in Cuts, Feed(to) PROVE Resumes' /\ SkipsNothing'
  <2>1. ~InHeader(to) /\ delivered' = delivered
    BY <1>4, <1>2 DEF Feed
  <2>2. Resumes'
    BY <1>1, <1>4, <2>1, FeedSkips
  <2>3. SkipsNothing'
    BY <1>1, <2>1 DEF SkipInv, SkipsNothing, Message, Size
  <2> QED BY <2>2, <2>3
<1>5. CASE Incomplete
  <2>1. /\ looping /\ upto = fed /\ ~looping' /\ has' /\ first' = loopFirst /\ size' = loopSize
        /\ UNCHANGED <<fed, upto, delivered>>
    BY <1>1, <1>5 DEF Incomplete, SkipInv, Resumes
  <2>2. PICK e \in 1 .. N : StandsAt(e, loopFirst, loopSize)
    BY <1>1, <2>1 DEF SkipInv, Resumes
  <2>3. StandsAt(e, first, size)'
    BY <2>1, <2>2 DEF StandsAt, SeenBefore, Seen, Message, Size
  <2>4. SkipsNothing'
    BY <1>1, <2>1 DEF SkipInv, SkipsNothing, Message, Size
  <2> QED BY <1>2, <2>1, <2>3, <2>4 DEF Resumes
<1> QED BY <1>1, <1>2, <1>3, <1>4, <1>5, ExactSkips, CutMessageSkips, ThrowSkips DEF Next

-----------------------------------------------------------------------------
(* Chunks may end anywhere now, and sizes may be garbage. What was handed  *)
(* out ends before what the reader holds.                                  *)
HandedOut(p) == \A j \in 1 .. Len(delivered) : delivered[j][1] + delivered[j][2] <= p

Holds ==
  /\ HandedOut(fed)
  /\ looping => HandedOut(loopFirst) /\ loopFirst <= upto /\ upto = fed
  /\ ~looping /\ has => HandedOut(first) /\ first <= upto /\ upto = fed

ByteInv == thrown = 0 => Holds /\ NoByteTwice

(* What is handed out next ends behind all that was handed out.            *)
LEMMA HandsOutOnce ==
  ASSUME TypeOK, ByteInv, thrown = 0, looping, loopSize <= upto - loopFirst, Deliver, fed' = fed
  PROVE  /\ NoByteTwice' /\ HandedOut(fed)'
         /\ \A j \in 1 .. Len(delivered') : delivered'[j][1] + delivered'[j][2] <= loopFirst + loopSize
<1>1. /\ loopFirst \in Nat /\ loopSize \in Nat /\ upto \in Nat /\ fed \in Nat
      /\ delivered \in Seq(Nat \X Nat) /\ delivered' = Append(delivered, <<loopFirst, loopSize>>)
  BY Starts DEF TypeOK, Deliver
<1>2. /\ Len(delivered') = Len(delivered) + 1 /\ Len(delivered) \in Nat
      /\ delivered'[Len(delivered) + 1] = <<loopFirst, loopSize>>
      /\ \A i \in 1 .. Len(delivered) : delivered'[i] = delivered[i] /\ delivered[i] \in Nat \X Nat
  BY <1>1
<1>3. HandedOut(loopFirst) /\ upto = fed /\ NoByteTwice
  BY DEF ByteInv, Holds
<1>4. \A j \in 1 .. Len(delivered) : delivered[j][1] + delivered[j][2] \in Nat
  BY <1>2
<1>5. \A j \in 1 .. Len(delivered') : delivered'[j][1] + delivered'[j][2] <= loopFirst + loopSize
  <2> TAKE j \in 1 .. Len(delivered')
  <2>1. CASE j \in 1 .. Len(delivered)
    BY <2>1, <1>1, <1>2, <1>3, <1>4 DEF HandedOut
  <2>2. CASE j = Len(delivered) + 1
    BY <2>2, <1>1, <1>2
  <2> QED BY <2>1, <2>2, <1>2
<1>6. \A j \in 1 .. Len(delivered') : delivered'[j][1] + delivered'[j][2] \in Nat
  <2> TAKE j \in 1 .. Len(delivered')
  <2>1. CASE j \in 1 .. Len(delivered)
    BY <2>1, <1>2, <1>4
  <2>2. CASE j = Len(delivered) + 1
    BY <2>2, <1>1, <1>2
  <2> QED BY <2>1, <2>2, <1>2
<1>7. \A j \in 1 .. Len(delivered') : delivered'[j][1] + delivered'[j][2] <= fed'
  BY <1>1, <1>3, <1>5, <1>6
<1>8. \A j \in 1 .. Len(delivered') : j > 1 => delivered'[j - 1][1] + delivered'[j - 1][2] <= delivered'[j][1]
  <2> SUFFICES ASSUME NEW j \in 1 .. Len(delivered'), j > 1
               PROVE  delivered'[j - 1][1] + delivered'[j - 1][2] <= delivered'[j][1]
    OBVIOUS
  <2>1. thrown = 0 /\ j - 1 \in 1 .. Len(delivered) /\ delivered'[j - 1] = delivered[j - 1]
    BY <1>2
  <2>2. CASE j \in 1 .. Len(delivered)
    BY <2>1, <2>2, <1>2, <1>3 DEF NoByteTwice
  <2>3. CASE j = Len(delivered) + 1
    BY <2>1, <2>3, <1>2, <1>3 DEF HandedOut
  <2> QED BY <2>2, <2>3, <1>2
<1> QED BY <1>5, <1>7, <1>8 DEF HandedOut, NoByteTwice

(* Every step hands out only what was not handed out before. *)
LEMMA NextHandsOut ==
  ASSUME TypeOK, ByteInv, [Next]_vars
  PROVE  ByteInv'
<1> SUFFICES ASSUME thrown' = 0 PROVE (Holds /\ NoByteTwice)'
  BY DEF ByteInv
<1>1. thrown = 0
  BY DEF TypeOK, Next, vars, Feed, Incomplete, Exact, CutMessage, ThrowsOnZero, CutMessageThrows
<1>2. Holds /\ NoByteTwice
  BY <1>1 DEF ByteInv
<1>3. /\ fed \in Nat /\ first \in Nat /\ upto \in Nat /\ loopFirst \in Nat /\ loopSize \in Nat
      /\ \A j \in 1 .. Len(delivered) : delivered[j][1] + delivered[j][2] \in Nat
  BY Starts DEF TypeOK
<1>4. CASE UNCHANGED vars
  BY <1>2, <1>4 DEF vars, Holds, HandedOut, NoByteTwice
<1>5. ASSUME NEW to \in Cuts, Feed(to) PROVE (Holds /\ NoByteTwice)'
  <2>1. ~looping /\ fed < to /\ to \in Nat /\ fed' = to /\ delivered' = delivered
    BY <1>5, StreamAssumption, Starts DEF Feed
  <2>2. HandedOut(fed)' /\ NoByteTwice'
    BY <1>1, <1>2, <1>3, <2>1 DEF Holds, HandedOut, NoByteTwice
  <2>3. CASE FeedTooShort(to)
    BY <1>2, <2>1, <2>2, <2>3 DEF FeedTooShort, Holds
  <2>4. CASE FeedFresh(to)
    BY <1>2, <1>3, <2>1, <2>2, <2>4 DEF FeedFresh, EnterLoop, Holds, HandedOut
  <2>5. CASE FeedMore(to)
    <3>1. HandedOut(first) /\ first <= to
      BY <1>2, <1>3, <2>1, <2>5 DEF FeedMore, Holds
    <3>2. upto' = to /\ has' /\ first' = first /\ (looping' => loopFirst' = first)
      BY <2>1, <2>5 DEF FeedMore, EnterLoop
    <3> QED BY <2>1, <2>2, <3>1, <3>2 DEF Holds, HandedOut
  <2> QED BY <1>5, <2>3, <2>4, <2>5 DEF Feed
<1>6. CASE Incomplete
  BY <1>2, <1>6 DEF Incomplete, Holds, HandedOut, NoByteTwice
<1>7. CASE Exact
  <2>1. NoByteTwice' /\ HandedOut(fed)'
    BY <1>1, <1>3, <1>7, HandsOutOnce DEF Exact
  <2> QED BY <1>7, <2>1 DEF Exact, Holds
<1>8. CASE CutMessage
  <2>1. /\ NoByteTwice' /\ HandedOut(fed)'
        /\ \A j \in 1 .. Len(delivered') : delivered'[j][1] + delivered'[j][2] <= loopFirst + loopSize
    BY <1>1, <1>3, <1>8, HandsOutOnce DEF CutMessage
  <2>2. looping /\ upto = fed /\ loopFirst + loopSize < upto /\ UNCHANGED <<fed, upto, has>>
    BY <1>2, <1>3, <1>8 DEF CutMessage, Holds
  <2>3. CASE upto - (loopFirst + loopSize) < HeaderSize
    <3>1. ~looping' /\ first' = loopFirst + loopSize
      BY <1>8, <2>3 DEF CutMessage
    <3> QED BY <1>3, <2>1, <2>2, <3>1 DEF Holds, HandedOut
  <2>4. CASE ~(upto - (loopFirst + loopSize) < HeaderSize)
    <3>1. loopFirst' = loopFirst + loopSize /\ ThrowsOnZero
      BY <1>8, <2>4 DEF CutMessage
    <3>2. loopSize' > 0
      BY <1>1, <3>1 DEF ThrowsOnZero
    <3>3. looping' = TRUE
      BY <3>1, <3>2 DEF ThrowsOnZero
    <3> QED BY <1>3, <2>1, <2>2, <3>1, <3>2, <3>3 DEF Holds, HandedOut
  <2> QED BY <2>3, <2>4
<1>9. CASE CutMessageThrows
  BY <1>1, <1>9 DEF CutMessageThrows
<1> QED BY <1>4, <1>5, <1>6, <1>7, <1>8, <1>9 DEF Next

-----------------------------------------------------------------------------
(* Nothing is delivered at the beginning. *)
LEMMA InitSafe == Init => SkipInv /\ ByteInv
<1> SUFFICES ASSUME Init PROVE SkipInv /\ ByteInv
  OBVIOUS
<1>1. delivered = <<>> /\ fed = 0 /\ ~has /\ ~looping
  BY DEF Init
<1>2. SkipsNothing /\ NoByteTwice /\ HandedOut(fed)
  BY <1>1 DEF SkipsNothing, NoByteTwice, HandedOut
<1>3. SeenBefore(1) /\ fed = Start[1]
  BY <1>1, StreamAssumption DEF SeenBefore
<1>4. Resumes
  BY <1>1, <1>3, Starts DEF Resumes
<1>5. ~InHeader(fed)
  BY <1>1, Starts DEF InHeader
<1> QED BY <1>1, <1>2, <1>4, <1>5 DEF SkipInv, ByteInv, Holds

(* However often something throws, as long as headers are whole messages   *)
(* are only repeated and never skipped; and however the stream is cut, as  *)
(* long as nothing throws no byte is handed out twice.                     *)
THEOREM Careful == Spec => [](SkipInv /\ ByteInv)
<1>1. TypeOK /\ SkipInv /\ ByteInv /\ [Next]_vars => (SkipInv /\ ByteInv)'
  BY NextSkips, NextHandsOut
<1> QED BY <1>1, InitSafe, TypeCorrect, PTL DEF Spec

(* All that the framing promises, for every stream, every way to cut it,   *)
(* whatever is read where no header is, and whoever throws.                *)
THEOREM Safe == Spec => []FramingSafety
<1>1. Spec => []SkipsNothing
  <2>1. SkipInv /\ ByteInv => SkipsNothing
    BY DEF SkipInv, SkipsNothing
  <2> QED BY <2>1, Careful, PTL
<1>2. Spec => []NoByteTwice
  <2>1. SkipInv /\ ByteInv => NoByteTwice
    BY DEF ByteInv, NoByteTwice
  <2> QED BY <2>1, Careful, PTL
<1>3. TypeOK /\ DeliversInOrder /\ DeliversAtOnce /\ SkipsNothing /\ NoByteTwice => FramingSafety
  BY DEF FramingSafety
<1> QED BY <1>1, <1>2, <1>3, TypeCorrect, InOrder, AtOnce, PTL

-----------------------------------------------------------------------------
(* The transport of the client. *)

(* All variables with their types, the observed ones and createdOn too.    *)
Kinds ==
  /\ sock \in [Socket -> {"new", "opening", "open", "closing", "failed", "closed"}]
  /\ attempt \in [Socket -> {"pending", "resolved", "rejected"}]
  /\ handshake \in [Socket -> {"none", "id", "auth", "over"}]
  /\ asked \in [Socket -> Socket \cup {None}]
  /\ transportConnection \in Socket \cup {None} /\ writer \in Socket \cup {None}
  /\ connectionPromise \in Socket \cup {None} /\ sockets \in Socket \cup {None}
  /\ connected \in BOOLEAN /\ connectionId \in Nat
  /\ pc \in [Request -> {"idle", "waiting", "sleeping", "own", "sent"}]
  /\ on \in [Request -> Socket \cup {None}]
  /\ createdOn \in [Request -> Nat]
  /\ revived \in BOOLEAN /\ overlapped \in BOOLEAN /\ strayed \in BOOLEAN

(* Sockets are numbered as they are made, and their handshake begins when  *)
(* they have opened.                                                       *)
Numbered ==
  \A k \in Socket :
    /\ sock[k] = "new" <=> k > sockets
    /\ sock[k] \in {"new", "opening"} => handshake[k] = "none" /\ attempt[k] = "pending"

(* The current connection has opened and has the writer. Its socket may    *)
(* have failed or closed: only disconnect() and doConnect() reset          *)
(* transportConnection.                                                    *)
Current ==
  transportConnection # None =>
    /\ writer = transportConnection /\ asked[transportConnection] = transportConnection
    /\ sock[transportConnection] \in {"open", "failed", "closed"}

(* connected means that the handshake of the current socket is over.       *)
Greeted ==
  connected => revived \/ (/\ transportConnection # None /\ sock[transportConnection] = "open"
                           /\ handshake[transportConnection] = "over")

(* Without overlap the socket that opens is that of connectionPromise, and *)
(* the one that is open is the current connection.                         *)
OneAttempt ==
  ~overlapped => \A k \in Socket :
    /\ sock[k] = "opening" => connectionPromise = k /\ transportConnection = None
    /\ sock[k] = "open" => transportConnection = k

(* connectionPromise belongs to a call that waits for its own attempt and  *)
(* will clear it.                                                          *)
Owned ==
  /\ connectionPromise # None => \E r \in Request : pc[r] = "own" /\ on[r] = connectionPromise
  /\ \A r \in Request : pc[r] \in {"waiting", "own"} => on[r] # None

(* Who goes on with a resolved attempt finds the transporter connected.    *)
Ready ==
  \A r \in Request : Continues(r) /\ attempt[on[r]] = "resolved" => connected

(* A request with messages under way was sent to the connection of now, or *)
(* connectionId has gone on.                                               *)
Epochs ==
  \A r \in Request :
    /\ createdOn[r] <= connectionId
    /\ pc[r] = "sent" /\ createdOn[r] = connectionId =>
         overlapped \/ revived \/ (connected /\ on[r] = writer)

TransportInv ==
  /\ Kinds /\ Numbered /\ Current /\ Greeted /\ OneAttempt /\ Owned /\ Ready /\ Epochs
  /\ MessagesStayTogether

USE TransporterAssumption

(* The type invariant names the variables two by two.                      *)
LEMMA KindsAreTypes == Kinds => TransportTypeOK
  BY DEF Kinds, TransportTypeOK

(* There is no socket yet, and nobody has asked for one.                   *)
LEMMA TransportStart == TransportInit => TransportInv
<1> SUFFICES ASSUME TransportInit PROVE TransportInv
  OBVIOUS
<1>1. Kinds
  BY DEF TransportInit, Kinds, Socket, None
<1>2. Numbered /\ Current /\ Greeted /\ OneAttempt
  BY DEF TransportInit, Numbered, Current, Greeted, OneAttempt, Socket, None
<1>3. Owned /\ Ready /\ Epochs /\ MessagesStayTogether
  BY DEF TransportInit, Owned, Ready, Epochs, MessagesStayTogether, None, Continues
<1> QED BY <1>1, <1>2, <1>3 DEF TransportInv

(* One turn of connect(), called by sendMessage or behind its sleep, or    *)
(* the message that goes out at once: it waits for an attempt that is      *)
(* pending, goes out to the writer of an open connection, or opens a       *)
(* socket that nobody has used.                                            *)
LEMMA ConnectPreserves ==
  ASSUME TransportInv, NEW r \in Request, Calm, pc[r] \in {"idle", "sleeping"},
         Connect(r) \/ (connected /\ Transmit(r) /\ UNCHANGED <<socketVars, stateVars>>),
         createdOn' = createdOn \/ createdOn' = [createdOn EXCEPT ![r] = connectionId],
         pc[r] = "idle" => createdOn' = [createdOn EXCEPT ![r] = connectionId],
         UNCHANGED observed
  PROVE  TransportInv'
<1>1. CASE /\ connectionPromise # None
           /\ pc' = [pc EXCEPT ![r] = "waiting"]
           /\ on' = [on EXCEPT ![r] = connectionPromise]
           /\ UNCHANGED <<socketVars, stateVars>>
  <2>1. Kinds'
    BY <1>1 DEF socketVars, stateVars, requestVars, observed, TransportInv, Kinds
  <2>2. Numbered'
    BY <1>1 DEF socketVars, stateVars, requestVars, observed, TransportInv, Kinds, Numbered
  <2>3. Current'
    BY <1>1 DEF socketVars, stateVars, requestVars, observed, TransportInv, Kinds, Current
  <2>4. Greeted'
    BY <1>1 DEF socketVars, stateVars, requestVars, observed, TransportInv, Kinds, Greeted
  <2>5. OneAttempt'
    BY <1>1 DEF socketVars, stateVars, requestVars, observed, TransportInv, Kinds, OneAttempt
  <2>6. Owned'
    BY <1>1 DEF socketVars, stateVars, requestVars, observed, TransportInv, Kinds, Owned
  <2>7. Ready'
    BY <1>1 DEF socketVars, stateVars, requestVars, observed, TransportInv, Kinds, Ready, Owned,
           Numbered, Calm, Continues
  <2>8. Epochs'
    BY <1>1 DEF socketVars, stateVars, requestVars, observed, TransportInv, Kinds, Epochs
  <2>9. MessagesStayTogether'
    BY <1>1 DEF socketVars, stateVars, requestVars, observed, TransportInv, Kinds,
           MessagesStayTogether
  <2> QED BY <2>1, <2>2, <2>3, <2>4, <2>5, <2>6, <2>7, <2>8, <2>9 DEF TransportInv
<1>2. CASE connected /\ Transmit(r) /\ UNCHANGED <<socketVars, stateVars>>
  <2>1. Kinds'
    BY <1>2 DEF Transmit, socketVars, stateVars, requestVars, observed, TransportInv, Kinds
  <2>2. Numbered'
    BY <1>2 DEF Transmit, socketVars, stateVars, requestVars, observed, TransportInv, Kinds,
           Numbered
  <2>3. Current'
    BY <1>2 DEF Transmit, socketVars, stateVars, requestVars, observed, TransportInv, Kinds,
           Current
  <2>4. Greeted'
    BY <1>2 DEF Transmit, socketVars, stateVars, requestVars, observed, TransportInv, Kinds,
           Greeted
  <2>5. OneAttempt'
    BY <1>2 DEF Transmit, socketVars, stateVars, requestVars, observed, TransportInv, Kinds,
           OneAttempt
  <2>6. Owned'
    BY <1>2 DEF Transmit, socketVars, stateVars, requestVars, observed, TransportInv, Kinds,
           Owned
  <2>7. Ready'
    BY <1>2 DEF Transmit, socketVars, stateVars, requestVars, observed, TransportInv, Kinds,
           Ready
  <2>8. Epochs'
    BY <1>2 DEF Transmit, socketVars, stateVars, requestVars, observed, TransportInv, Kinds,
           Epochs
  <2>9. MessagesStayTogether'
    BY <1>2 DEF Transmit, socketVars, stateVars, requestVars, observed, TransportInv, Kinds,
           MessagesStayTogether
  <2> QED BY <2>1, <2>2, <2>3, <2>4, <2>5, <2>6, <2>7, <2>8, <2>9 DEF TransportInv
<1>3. CASE /\ connectionPromise = None /\ ~ connected
           /\ DoConnect(r)
           /\ UNCHANGED <<attempt, handshake, asked, writer, connected, connectionId>>
  <2>1. Kinds'
    <3>1. sockets + 1 \in Socket
      BY <1>3 DEF DoConnect, TransportInv, Kinds, Socket, None
    <3>2. /\ sock' \in [Socket -> {"new", "opening", "open", "closing", "failed", "closed"}]
          /\ pc' \in [Request -> {"idle", "waiting", "sleeping", "own", "sent"}]
          /\ on' \in [Request -> Socket \cup {None}]
      BY <1>3, <3>1 DEF DoConnect, TransportInv, Kinds
    <3>3. createdOn' \in [Request -> Nat]
      BY DEF TransportInv, Kinds
    <3> QED BY <1>3, <3>1, <3>2, <3>3 DEF DoConnect, TransportInv, Kinds, observed
  <2>2. Numbered'
    BY <1>3 DEF DoConnect, observed, TransportInv, Kinds, Numbered, Socket, None
  <2>3. Current'
    BY <1>3 DEF DoConnect, observed, TransportInv, Kinds, Current
  <2>4. Greeted'
    BY <1>3 DEF DoConnect, observed, TransportInv, Kinds, Greeted
  <2>5. OneAttempt'
    BY <1>3 DEF DoConnect, observed, TransportInv, Kinds, OneAttempt, Socket, None
  <2>6. Owned'
    <3>1. pc' = [pc EXCEPT ![r] = "own"] /\ on' = [on EXCEPT ![r] = sockets + 1] /\ connectionPromise' = sockets + 1
      BY <1>3 DEF DoConnect
    <3>2. pc'[r] = "own" /\ on'[r] = connectionPromise' /\ on'[r] # None
      BY <3>1 DEF TransportInv, Kinds, Socket, None
    <3>3. \A q \in Request \ {r} : pc'[q] = pc[q] /\ on'[q] = on[q]
      BY <3>1 DEF TransportInv, Kinds
    <3> QED BY <3>2, <3>3 DEF TransportInv, Owned
  <2>7. Ready'
    <3>1. on' = [on EXCEPT ![r] = sockets + 1] /\ pc' = [pc EXCEPT ![r] = "own"] /\ attempt' = attempt
      BY <1>3 DEF DoConnect
    <3>2. sockets + 1 \in Socket /\ sockets + 1 > sockets
      BY <1>3 DEF DoConnect, TransportInv, Kinds, Socket, None
    <3>3. attempt[sockets + 1] = "pending"
      BY <3>2 DEF TransportInv, Kinds, Numbered
    <3>4. ~ Continues(r)'
      BY <3>1, <3>3 DEF Continues, TransportInv, Kinds
    <3>5. \A q \in Request \ {r} : ~ Continues(q)'
      BY <3>1 DEF Calm, Continues, TransportInv, Kinds
    <3> QED BY <3>4, <3>5 DEF Ready
  <2>8. Epochs'
    BY <1>3 DEF DoConnect, observed, TransportInv, Kinds, Epochs
  <2>9. MessagesStayTogether'
    BY <1>3 DEF DoConnect, observed, TransportInv, Kinds, MessagesStayTogether
  <2> QED BY <2>1, <2>2, <2>3, <2>4, <2>5, <2>6, <2>7, <2>8, <2>9 DEF TransportInv
<1> QED BY <1>1, <1>2, <1>3 DEF Connect

(* sendMessage() remembers the connection it was called on.                *)
LEMMA SendMessagePreserves ==
  ASSUME TransportInv, NEW r \in Request, SendMessage(r)
  PROVE  TransportInv'
BY ConnectPreserves DEF SendMessage, observed

(* The loop of connect() looks again.                                      *)
LEMMA WakeUpPreserves ==
  ASSUME TransportInv, NEW r \in Request, WakeUp(r)
  PROVE  TransportInv'
BY ConnectPreserves DEF WakeUp, observed

(* The attempt of another call is over.                                    *)
LEMMA WaitedForPreserves ==
  ASSUME TransportInv, NEW r \in Request, WaitedFor(r)
  PROVE  TransportInv'
<1>1. Kinds'
  <2>1. /\ pc' \in [Request -> {"idle", "waiting", "sleeping", "own", "sent"}]
        /\ on' \in [Request -> Socket \cup {None}]
        /\ createdOn' \in [Request -> Nat]
    BY DEF WaitedFor, Settled, TransportInv, Kinds
  <2> QED BY <2>1 DEF WaitedFor, TransportInv, Kinds, socketVars, stateVars, observed
<1>2. Numbered'
  BY DEF WaitedFor, Settled, socketVars, stateVars, observed, TransportInv, Kinds, Numbered
<1>3. Current'
  BY DEF WaitedFor, Settled, socketVars, stateVars, observed, TransportInv, Kinds, Current
<1>4. Greeted'
  BY DEF WaitedFor, Settled, socketVars, stateVars, observed, TransportInv, Kinds, Greeted
<1>5. OneAttempt'
  BY DEF WaitedFor, Settled, socketVars, stateVars, observed, TransportInv, Kinds, OneAttempt
<1>6. Owned'
  BY DEF WaitedFor, Settled, socketVars, stateVars, observed, TransportInv, Kinds, Owned
<1>7. Ready'
  BY DEF WaitedFor, Settled, socketVars, stateVars, observed, TransportInv, Kinds, Ready, Owned,
         Numbered, Calm, Continues
<1>8. Epochs'
  <2>1. /\ pc' \in {[pc EXCEPT ![r] = "idle"], [pc EXCEPT ![r] = "sleeping"]}
        /\ createdOn' \in {createdOn, [createdOn EXCEPT ![r] = 0]}
        /\ \A q \in Request \ {r} : on'[q] = on[q]
        /\ UNCHANGED <<socketVars, stateVars, observed>>
    BY DEF WaitedFor, Settled, TransportInv, Kinds
  <2> QED BY <2>1 DEF TransportInv, Kinds, Epochs, stateVars, observed
<1>9. MessagesStayTogether'
  BY DEF WaitedFor, Settled, socketVars, stateVars, observed, TransportInv, Kinds,
         MessagesStayTogether
<1> QED BY <1>1, <1>2, <1>3, <1>4, <1>5, <1>6, <1>7, <1>8, <1>9 DEF TransportInv

(* finally clears connectionPromise: unless it was that of another         *)
(* attempt, the socket of the attempt is no longer opening. The message    *)
(* goes out because the one who resolved the attempt connected.            *)
LEMMA FinishedPreserves ==
  ASSUME TransportInv, NEW r \in Request, Finished(r)
  PROVE  TransportInv'
<1>1. Kinds'
  <2>1. /\ pc' \in [Request -> {"idle", "waiting", "sleeping", "own", "sent"}]
        /\ on' \in [Request -> Socket \cup {None}]
        /\ createdOn' \in [Request -> Nat]
    BY DEF Finished, Settled, Transmit, TransportInv, Kinds
  <2>2. overlapped' \in BOOLEAN
    BY DEF Finished
  <2> QED BY <2>1, <2>2 DEF Finished, TransportInv, Kinds, socketVars
<1>2. Numbered'
  BY DEF Finished, Settled, Transmit, socketVars, TransportInv, Kinds, Numbered
<1>3. Current'
  BY DEF Finished, Settled, Transmit, socketVars, TransportInv, Kinds, Current
<1>4. Greeted'
  BY DEF Finished, Settled, Transmit, socketVars, TransportInv, Kinds, Greeted
<1>5. OneAttempt'
  <2> SUFFICES ASSUME ~ overlapped', NEW k \in Socket
               PROVE  /\ sock[k] = "opening" => connectionPromise' = k /\ transportConnection = None
                      /\ sock[k] = "open" => transportConnection = k
    BY DEF Finished, OneAttempt, socketVars
  <2>1. ~ overlapped /\ connectionPromise \in {None, on[r]}
    BY DEF Finished, TransportInv, Kinds
  <2>2. sock[k] # "opening"
    BY <2>1 DEF Finished, TransportInv, Kinds, OneAttempt, Numbered, Socket, None
  <2> QED BY <2>1, <2>2 DEF TransportInv, OneAttempt
<1>6. Owned'
  BY DEF Finished, Settled, Transmit, socketVars, TransportInv, Kinds, Owned
<1>7. Ready'
  BY DEF Finished, Settled, Transmit, socketVars, TransportInv, Kinds, Ready, Owned, Numbered,
         Calm, Continues
<1>8. Epochs'
  <2>1. createdOn' \in {createdOn, [createdOn EXCEPT ![r] = 0]}
    BY DEF Finished, Settled
  <2>2. pc'[r] = "sent" => on'[r] = writer /\ connected
    BY DEF Finished, Settled, Transmit, TransportInv, Kinds, Ready, Continues
  <2>3. \A q \in Request \ {r} : pc'[q] = pc[q] /\ on'[q] = on[q]
    BY DEF Finished, Settled, Transmit, TransportInv, Kinds
  <2>4. UNCHANGED <<connectionId, connected, writer, revived>> /\ (overlapped => overlapped')
    BY DEF Finished
  <2> QED BY <2>1, <2>2, <2>3, <2>4 DEF TransportInv, Kinds, Epochs
<1>9. MessagesStayTogether'
  BY DEF Finished, Settled, Transmit, socketVars, TransportInv, Kinds, MessagesStayTogether
<1> QED BY <1>1, <1>2, <1>3, <1>4, <1>5, <1>6, <1>7, <1>8, <1>9 DEF TransportInv

(* A request ends.                                                         *)
LEMMA ReplyPreserves ==
  ASSUME TransportInv, NEW r \in Request, Reply(r)
  PROVE  TransportInv'
<1>1. Kinds'
  BY DEF Reply, Settled, Readable, socketVars, stateVars, observed, TransportInv, Kinds
<1>2. Numbered'
  BY DEF Reply, Settled, Readable, socketVars, stateVars, observed, TransportInv, Kinds,
         Numbered
<1>3. Current'
  BY DEF Reply, Settled, Readable, socketVars, stateVars, observed, TransportInv, Kinds, Current
<1>4. Greeted'
  BY DEF Reply, Settled, Readable, socketVars, stateVars, observed, TransportInv, Kinds, Greeted
<1>5. OneAttempt'
  BY DEF Reply, Settled, Readable, socketVars, stateVars, observed, TransportInv, Kinds,
         OneAttempt
<1>6. Owned'
  BY DEF Reply, Settled, Readable, socketVars, stateVars, observed, TransportInv, Kinds, Owned
<1>7. Ready'
  BY DEF Reply, Settled, Readable, socketVars, stateVars, observed, TransportInv, Kinds, Ready,
         Owned, Numbered, Calm, Continues
<1>8. Epochs'
  BY DEF Reply, Settled, Readable, socketVars, stateVars, observed, TransportInv, Kinds, Epochs
<1>9. MessagesStayTogether'
  BY DEF Reply, Settled, Readable, socketVars, stateVars, observed, TransportInv, Kinds,
         MessagesStayTogether
<1> QED BY <1>1, <1>2, <1>3, <1>4, <1>5, <1>6, <1>7, <1>8, <1>9 DEF TransportInv

(* A later message only goes out when no connection was lost in between,   *)
(* and then its writer is the same.                                        *)
LEMMA FollowUpPreserves ==
  ASSUME TransportInv, NEW r \in Request, FollowUp(r)
  PROVE  TransportInv'
<1>1. Kinds'
  BY DEF FollowUp, socketVars, stateVars, requestVars, TransportInv, Kinds
<1>2. Numbered'
  BY DEF FollowUp, socketVars, stateVars, requestVars, TransportInv, Kinds, Numbered
<1>3. Current'
  BY DEF FollowUp, socketVars, stateVars, requestVars, TransportInv, Kinds, Current
<1>4. Greeted'
  BY DEF FollowUp, socketVars, stateVars, requestVars, TransportInv, Kinds, Greeted
<1>5. OneAttempt'
  BY DEF FollowUp, socketVars, stateVars, requestVars, TransportInv, Kinds, OneAttempt
<1>6. Owned'
  BY DEF FollowUp, socketVars, stateVars, requestVars, TransportInv, Kinds, Owned
<1>7. Ready'
  BY DEF FollowUp, socketVars, stateVars, requestVars, TransportInv, Kinds, Ready, Owned,
         Numbered, Calm, Continues
<1>8. Epochs'
  BY DEF FollowUp, socketVars, stateVars, requestVars, TransportInv, Kinds, Epochs
<1>9. MessagesStayTogether'
  BY DEF FollowUp, socketVars, stateVars, requestVars, TransportInv, Kinds,
         MessagesStayTogether, Epochs
<1> QED BY <1>1, <1>2, <1>3, <1>4, <1>5, <1>6, <1>7, <1>8, <1>9 DEF TransportInv

(* A socket opens: it is that of the attempt, so there was no connection.  *)
LEMMA OnConnectedPreserves ==
  ASSUME TransportInv, NEW k \in Socket, OnConnected(k)
  PROVE  TransportInv'
<1>1. Kinds'
  BY DEF OnConnected, requestVars, observed, TransportInv, Kinds
<1>2. Numbered'
  BY DEF OnConnected, requestVars, observed, TransportInv, Kinds, Numbered
<1>3. Current'
  BY DEF OnConnected, requestVars, observed, TransportInv, Kinds, Current
<1>4. Greeted'
  BY DEF OnConnected, requestVars, observed, TransportInv, Kinds, Greeted
<1>5. OneAttempt'
  BY DEF OnConnected, requestVars, observed, TransportInv, Kinds, OneAttempt, Socket, None
<1>6. Owned'
  BY DEF OnConnected, requestVars, observed, TransportInv, Kinds, Owned
<1>7. Ready'
  BY DEF OnConnected, requestVars, observed, TransportInv, Kinds, Ready, Owned, Numbered, Calm,
         Continues
<1>8. Epochs'
  BY DEF OnConnected, requestVars, observed, TransportInv, Kinds, Epochs, Ready, Greeted,
         OneAttempt, Current, Numbered
<1>9. MessagesStayTogether'
  BY DEF OnConnected, requestVars, observed, TransportInv, Kinds, MessagesStayTogether
<1> QED BY <1>1, <1>2, <1>3, <1>4, <1>5, <1>6, <1>7, <1>8, <1>9 DEF TransportInv

(* Only a handshake that is not over goes on, so connected is not about    *)
(* it.                                                                     *)
LEMMA HandshakeReplyPreserves ==
  ASSUME TransportInv, NEW k \in Socket, HandshakeReply(k)
  PROVE  TransportInv'
<1>1. Kinds'
  BY DEF HandshakeReply, stateVars, requestVars, observed, TransportInv, Kinds
<1>2. Numbered'
  BY DEF HandshakeReply, stateVars, requestVars, observed, TransportInv, Kinds, Numbered
<1>3. Current'
  BY DEF HandshakeReply, stateVars, requestVars, observed, TransportInv, Kinds, Current
<1>4. Greeted'
  BY DEF HandshakeReply, stateVars, requestVars, observed, TransportInv, Kinds, Greeted
<1>5. OneAttempt'
  BY DEF HandshakeReply, stateVars, requestVars, observed, TransportInv, Kinds, OneAttempt
<1>6. Owned'
  BY DEF HandshakeReply, stateVars, requestVars, observed, TransportInv, Kinds, Owned
<1>7. Ready'
  BY DEF HandshakeReply, stateVars, requestVars, observed, TransportInv, Kinds, Ready, Owned,
         Numbered, Calm, Continues
<1>8. Epochs'
  BY DEF HandshakeReply, stateVars, requestVars, observed, TransportInv, Kinds, Epochs
<1>9. MessagesStayTogether'
  BY DEF HandshakeReply, stateVars, requestVars, observed, TransportInv, Kinds,
         MessagesStayTogether
<1> QED BY <1>1, <1>2, <1>3, <1>4, <1>5, <1>6, <1>7, <1>8, <1>9 DEF TransportInv

(* The end of a handshake connects, truly when its socket is the current   *)
(* one.                                                                    *)
LEMMA EstablishedPreserves ==
  ASSUME TransportInv, NEW k \in Socket, Established(k)
  PROVE  TransportInv'
<1>1. Kinds'
  BY DEF Established, Readable, requestVars, TransportInv, Kinds
<1>2. Numbered'
  BY DEF Established, Readable, requestVars, TransportInv, Kinds, Numbered
<1>3. Current'
  BY DEF Established, Readable, requestVars, TransportInv, Kinds, Current
<1>4. Greeted'
  <2>1. CASE transportConnection # k
    BY <2>1 DEF Established, Greeted
  <2>2. CASE transportConnection = k
    <3>1. k # None /\ asked[k] = k /\ sock[k] = "open"
      BY <2>2 DEF Established, Readable, TransportInv, Current, Socket, None
    <3>2. handshake'[k] = "over"
      BY DEF Established, TransportInv, Kinds
    <3> QED BY <2>2, <3>1, <3>2 DEF Established, Greeted
  <2> QED BY <2>1, <2>2
<1>5. OneAttempt'
  BY DEF Established, Readable, requestVars, TransportInv, Kinds, OneAttempt
<1>6. Owned'
  BY DEF Established, Readable, requestVars, TransportInv, Kinds, Owned
<1>7. Ready'
  BY DEF Established, Readable, requestVars, TransportInv, Kinds, Ready
<1>8. Epochs'
  BY DEF Established, Readable, requestVars, TransportInv, Kinds, Epochs
<1>9. MessagesStayTogether'
  BY DEF Established, Readable, requestVars, TransportInv, Kinds, MessagesStayTogether
<1> QED BY <1>1, <1>2, <1>3, <1>4, <1>5, <1>6, <1>7, <1>8, <1>9 DEF TransportInv

(* A refused handshake was not over: were its socket the connected one, it *)
(* would be.                                                               *)
LEMMA RefusedPreserves ==
  ASSUME TransportInv, NEW k \in Socket, Refused(k)
  PROVE  TransportInv'
<1>1. Kinds'
  BY DEF Refused, requestVars, TransportInv, Kinds
<1>2. Numbered'
  BY DEF Refused, requestVars, TransportInv, Kinds, Numbered
<1>3. Current'
  BY DEF Refused, requestVars, TransportInv, Kinds, Current
<1>4. Greeted'
  BY DEF Refused, requestVars, TransportInv, Kinds, Greeted
<1>5. OneAttempt'
  BY DEF Refused, requestVars, TransportInv, Kinds, OneAttempt
<1>6. Owned'
  BY DEF Refused, requestVars, TransportInv, Kinds, Owned
<1>7. Ready'
  BY DEF Refused, requestVars, TransportInv, Kinds, Ready, Owned, Numbered, Calm, Continues
<1>8. Epochs'
  BY DEF Refused, requestVars, TransportInv, Kinds, Epochs, Ready, Greeted, OneAttempt, Current,
         Numbered
<1>9. MessagesStayTogether'
  BY DEF Refused, requestVars, TransportInv, Kinds, MessagesStayTogether
<1> QED BY <1>1, <1>2, <1>3, <1>4, <1>5, <1>6, <1>7, <1>8, <1>9 DEF TransportInv

(* onDisconnect of a socket that is no longer opening: it counts a new     *)
(* connection when there was one.                                          *)
LEMMA OnClosePreserves ==
  ASSUME TransportInv, NEW k \in Socket, OnClose(k)
  PROVE  TransportInv'
<1>1. Kinds'
  <2>1. overlapped' \in BOOLEAN /\ connected' \in BOOLEAN
    BY DEF OnClose, OnDisconnect
  <2>2. connectionId' \in Nat
    BY DEF OnClose, OnDisconnect, TransportInv, Kinds
  <2> QED BY <2>1, <2>2 DEF OnClose, OnDisconnect, TransportInv, Kinds, Socket, None,
         requestVars
<1>2. Numbered'
  BY DEF OnClose, OnDisconnect, requestVars, TransportInv, Kinds, Numbered
<1>3. Current'
  BY DEF OnClose, OnDisconnect, requestVars, TransportInv, Kinds, Current
<1>4. Greeted'
  BY DEF OnClose, OnDisconnect, requestVars, TransportInv, Kinds, Greeted
<1>5. OneAttempt'
  BY DEF OnClose, OnDisconnect, requestVars, TransportInv, Kinds, OneAttempt
<1>6. Owned'
  BY DEF OnClose, OnDisconnect, requestVars, TransportInv, Kinds, Owned
<1>7. Ready'
  BY DEF OnClose, OnDisconnect, requestVars, TransportInv, Kinds, Ready, Owned, Numbered, Calm,
         Continues
<1>8. Epochs'
  BY DEF OnClose, OnDisconnect, requestVars, TransportInv, Kinds, Epochs
<1>9. MessagesStayTogether'
  BY DEF OnClose, OnDisconnect, requestVars, TransportInv, Kinds, MessagesStayTogether
<1> QED BY <1>1, <1>2, <1>3, <1>4, <1>5, <1>6, <1>7, <1>8, <1>9 DEF TransportInv

(* The same with an error, which also rejects the attempt; nobody went on  *)
(* with it before.                                                         *)
LEMMA OnErrorPreserves ==
  ASSUME TransportInv, NEW k \in Socket, OnError(k)
  PROVE  TransportInv'
<1>1. Kinds'
  <2>1. overlapped' \in BOOLEAN /\ connected' \in BOOLEAN
    BY DEF OnError, OnDisconnect
  <2>2. connectionId' \in Nat
    BY DEF OnError, OnDisconnect, TransportInv, Kinds
  <2> QED BY <2>1, <2>2 DEF OnError, OnDisconnect, TransportInv, Kinds, Socket, None,
         requestVars
<1>2. Numbered'
  BY DEF OnError, OnDisconnect, requestVars, TransportInv, Kinds, Numbered
<1>3. Current'
  BY DEF OnError, OnDisconnect, requestVars, TransportInv, Kinds, Current
<1>4. Greeted'
  BY DEF OnError, OnDisconnect, requestVars, TransportInv, Kinds, Greeted
<1>5. OneAttempt'
  BY DEF OnError, OnDisconnect, requestVars, TransportInv, Kinds, OneAttempt
<1>6. Owned'
  BY DEF OnError, OnDisconnect, requestVars, TransportInv, Kinds, Owned
<1>7. Ready'
  BY DEF OnError, OnDisconnect, requestVars, TransportInv, Kinds, Ready, Owned, Numbered, Calm,
         Continues
<1>8. Epochs'
  BY DEF OnError, OnDisconnect, requestVars, TransportInv, Kinds, Epochs
<1>9. MessagesStayTogether'
  BY DEF OnError, OnDisconnect, requestVars, TransportInv, Kinds, MessagesStayTogether
<1> QED BY <1>1, <1>2, <1>3, <1>4, <1>5, <1>6, <1>7, <1>8, <1>9 DEF TransportInv

(* disconnect() closes what is open and leaves what opens, which is then   *)
(* counted as overlapped.                                                  *)
LEMMA DisconnectPreserves ==
  ASSUME TransportInv, Disconnect
  PROVE  TransportInv'
<1>1. Kinds'
  <2>1. overlapped' \in BOOLEAN /\ connected' \in BOOLEAN
    BY DEF Disconnect, OnDisconnect
  <2>2. connectionId' \in Nat
    BY DEF Disconnect, OnDisconnect, TransportInv, Kinds
  <2>3. sock' \in [Socket -> {"new", "opening", "open", "closing", "failed", "closed"}]
    BY DEF Disconnect, TransportInv, Kinds
  <2> QED BY <2>1, <2>2, <2>3 DEF Disconnect, OnDisconnect, TransportInv, Kinds, requestVars
<1>2. Numbered'
  BY DEF Disconnect, OnDisconnect, requestVars, TransportInv, Kinds, Numbered
<1>3. Current'
  BY DEF Disconnect, OnDisconnect, requestVars, TransportInv, Kinds, Current
<1>4. Greeted'
  BY DEF Disconnect, OnDisconnect, requestVars, TransportInv, Kinds, Greeted
<1>5. OneAttempt'
  BY DEF Disconnect, OnDisconnect, requestVars, TransportInv, Kinds, OneAttempt
<1>6. Owned'
  BY DEF Disconnect, OnDisconnect, requestVars, TransportInv, Kinds, Owned
<1>7. Ready'
  BY DEF Disconnect, OnDisconnect, requestVars, TransportInv, Kinds, Ready, Owned, Numbered,
         Calm, Continues
<1>8. Epochs'
  BY DEF Disconnect, OnDisconnect, requestVars, TransportInv, Kinds, Epochs
<1>9. MessagesStayTogether'
  BY DEF Disconnect, OnDisconnect, requestVars, TransportInv, Kinds, MessagesStayTogether
<1> QED BY <1>1, <1>2, <1>3, <1>4, <1>5, <1>6, <1>7, <1>8, <1>9 DEF TransportInv

(* Every step keeps the invariant.                                         *)
LEMMA TransportStep == TransportInv /\ [TransportNext]_transporterVars => TransportInv'
<1> SUFFICES ASSUME TransportInv, [TransportNext]_transporterVars PROVE TransportInv'
  OBVIOUS
<1>1. CASE UNCHANGED transporterVars
  <2>1. (Kinds /\ Numbered /\ Current /\ Greeted /\ OneAttempt)'
    BY <1>1 DEF transporterVars, socketVars, stateVars, requestVars, observed,
                TransportInv, Kinds, Numbered, Current, Greeted, OneAttempt
  <2>2. (Owned /\ Ready /\ Epochs /\ MessagesStayTogether)'
    BY <1>1 DEF transporterVars, socketVars, stateVars, requestVars, observed,
                TransportInv, Owned, Ready, Continues, Epochs, MessagesStayTogether
  <2> QED BY <2>1, <2>2 DEF TransportInv
<1>2. ASSUME NEW r \in Request,
             SendMessage(r) \/ WakeUp(r) \/ WaitedFor(r) \/ Finished(r) \/ Reply(r) \/ FollowUp(r)
      PROVE  TransportInv'
  BY <1>2, SendMessagePreserves, WakeUpPreserves, WaitedForPreserves, FinishedPreserves,
         ReplyPreserves, FollowUpPreserves
<1>3. ASSUME NEW k \in Socket,
             \/ OnConnected(k) \/ HandshakeReply(k) \/ Established(k)
             \/ Refused(k) \/ OnClose(k) \/ OnError(k)
      PROVE  TransportInv'
  BY <1>3, OnConnectedPreserves, HandshakeReplyPreserves, EstablishedPreserves,
         RefusedPreserves, OnClosePreserves, OnErrorPreserves
<1>4. CASE Disconnect
  BY <1>4, DisconnectPreserves
<1> QED BY <1>1, <1>2, <1>3, <1>4 DEF TransportNext

(* At most one socket is alive: one that opens is that of the attempt, and *)
(* there is no connection then; one that is open is the connection.        *)
LEMMA OneIsAlive == TransportInv => OneTransport
<1> SUFFICES ASSUME TransportInv, ~ overlapped
             PROVE  Cardinality({k \in Socket : sock[k] \in {"opening", "open"}}) <= 1
  BY DEF OneTransport, TransportInv, Kinds
<1> DEFINE Alive == {k \in Socket : sock[k] \in {"opening", "open"}}
<1>1. \A j, k \in Alive : j = k
  BY DEF TransportInv, OneAttempt, Socket, None
<1> HIDE DEF Alive
<1>2. Cardinality(Alive) <= 1
  <2>1. CASE Alive = {}
    BY <2>1, FS_EmptySet
  <2>2. ASSUME NEW live \in Alive PROVE Cardinality(Alive) <= 1
    <3>1. Alive = {live}
      BY <1>1, <2>2
    <3> QED BY <3>1, FS_Singleton
  <2> QED BY <2>1, <2>2
<1> QED BY <1>2 DEF Alive

(* The inductive invariant of the client transport: who owns the attempt,  *)
(* which socket is the current one, and on which connection a request      *)
(* began.                                                                  *)
THEOREM TransportInvariance == TransportSpec => []TransportInv
<1> QED BY TransportStart, TransportStep, PTL DEF TransportSpec

(* TransportSafety for every number of requests and sockets: isConnected() *)
(* speaks of an open socket, one socket is alive at a time, and the        *)
(* messages of a request stay on one connection, with the exceptions that  *)
(* the properties name.                                                    *)
THEOREM TransportIsSafe == TransportSpec => []TransportSafety
<1>1. TransportInv => TransportSafety
  <2> SUFFICES ASSUME TransportInv PROVE TransportSafety
    OBVIOUS
  <2>1. TransportTypeOK
    BY KindsAreTypes DEF TransportInv
  <2>2. ConnectedIsOpen
    BY DEF TransportInv, Greeted, Current, ConnectedIsOpen
  <2> QED BY <2>1, <2>2, OneIsAlive DEF TransportSafety, TransportInv
<1> QED BY <1>1, TransportInvariance, PTL
==============================================================================
