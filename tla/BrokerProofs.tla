----------------------------- MODULE BrokerProofs -----------------------------
(***************************************************************************)
(* The broker, for every set of ids, requests, connections, clients,       *)
(* subscribers and messages: the channels, the lock of the process, and    *)
(* the locks of the broker over it.                                        *)
(***************************************************************************)
EXTENDS BrokerLocks, BrokerChannels, Arrays, FiniteSetTheorems, SequenceTheorems, TLAPS

(* Appending a new item: the queue stays free of duplicates. *)
LEMMA AppendItem ==
  ASSUME NEW S, NEW q \in Seq(S), NEW x \in S, Distinct(q), x \notin Items(q)
  PROVE  /\ Append(q, x) \in Seq(S)
         /\ Items(Append(q, x)) = Items(q) \cup {x}
         /\ Distinct(Append(q, x))
<1> DEFINE r == Append(q, x)
<1>1. r \in Seq(S) /\ Len(r) = Len(q) + 1 /\ r[Len(q) + 1] = x
  OBVIOUS
<1>2. \A k \in 1 .. Len(q) : r[k] = q[k]
  OBVIOUS
<1>3. DOMAIN q = 1 .. Len(q) /\ DOMAIN r = 1 .. Len(q) + 1 /\ Len(q) \in Nat
  BY <1>1
<1> HIDE DEF r
<1>4. \A k \in 1 .. Len(q) : q[k] # x
  BY <1>3 DEF Items
<1>5. Items(r) = Items(q) \cup {x}
  <2>1. ASSUME NEW y \in Items(r) PROVE y \in Items(q) \cup {x}
    BY <1>1, <1>2, <1>3 DEF Items
  <2>2. ASSUME NEW y \in Items(q) PROVE y \in Items(r)
    BY <1>2, <1>3 DEF Items
  <2>3. x \in Items(r)
    BY <1>1, <1>3 DEF Items
  <2> QED BY <2>1, <2>2, <2>3
<1>6. Distinct(r)
  <2> SUFFICES ASSUME NEW j \in 1 .. Len(q) + 1, NEW k \in 1 .. Len(q) + 1,
                      r[j] = r[k]
               PROVE  j = k
    BY <1>3 DEF Distinct
  <2>1. CASE j = Len(q) + 1 /\ k # Len(q) + 1
    BY <2>1, <1>1, <1>2, <1>3, <1>4
  <2>2. CASE j # Len(q) + 1 /\ k = Len(q) + 1
    BY <2>2, <1>1, <1>2, <1>3, <1>4
  <2>3. CASE j # Len(q) + 1 /\ k # Len(q) + 1
    BY <2>3, <1>2, <1>3 DEF Distinct
  <2> QED BY <2>1, <2>2, <2>3
<1> QED BY <1>1, <1>5, <1>6 DEF r

(* Shifting the first item off a queue. *)
LEMMA ShiftItem ==
  ASSUME NEW S, NEW q \in Seq(S), q # <<>>, Distinct(q)
  PROVE  /\ Tail(q) \in Seq(S)
         /\ Head(q) \in S
         /\ Head(q) \in Items(q)
         /\ Items(Tail(q)) = Items(q) \ {Head(q)}
         /\ Distinct(Tail(q))
<1> DEFINE r == Tail(q)
<1>1. /\ r \in Seq(S) /\ Len(r) = Len(q) - 1 /\ Head(q) = q[1] /\ Len(q) \in Nat
      /\ Len(q) # 0
  OBVIOUS
<1>2. \A k \in 1 .. Len(q) - 1 : r[k] = q[k + 1]
  OBVIOUS
<1>3. DOMAIN q = 1 .. Len(q) /\ DOMAIN r = 1 .. Len(q) - 1
  BY <1>1
<1> HIDE DEF r
<1>4. Head(q) \in S /\ Head(q) \in Items(q)
  BY <1>1, <1>3 DEF Items
<1>5. Items(r) = Items(q) \ {Head(q)}
  <2>1. ASSUME NEW y \in Items(r) PROVE y \in Items(q) \ {Head(q)}
    <3>1. PICK k \in 1 .. Len(q) - 1 : y = q[k + 1]
      BY <1>2, <1>3 DEF Items
    <3>2. k + 1 \in 1 .. Len(q) /\ k + 1 # 1
      BY <1>1
    <3> QED BY <3>1, <3>2, <1>1, <1>3 DEF Items, Distinct
  <2>2. ASSUME NEW y \in Items(q), y # Head(q) PROVE y \in Items(r)
    <3>1. PICK k \in 1 .. Len(q) : y = q[k]
      BY <1>3 DEF Items
    <3>2. k - 1 \in 1 .. Len(q) - 1 /\ (k - 1) + 1 = k
      BY <3>1, <2>2, <1>1
    <3> QED BY <3>1, <3>2, <1>2, <1>3 DEF Items
  <2> QED BY <2>1, <2>2
<1>6. Distinct(r)
  <2> SUFFICES ASSUME NEW j \in 1 .. Len(q) - 1, NEW k \in 1 .. Len(q) - 1,
                      r[j] = r[k]
               PROVE  j = k
    BY <1>3 DEF Distinct
  <2>1. q[j + 1] = q[k + 1] /\ j + 1 \in 1 .. Len(q) /\ k + 1 \in 1 .. Len(q)
    BY <1>1, <1>2
  <2>2. j + 1 = k + 1
    BY <2>1, <1>3 DEF Distinct
  <2> QED BY <2>2
<1> QED BY <1>1, <1>4, <1>5, <1>6 DEF r

(* arrayRemoveItem takes exactly the given item out. *)
LEMMA RemoveItem ==
  ASSUME NEW S, NEW q \in Seq(S), NEW x, Distinct(q)
  PROVE  /\ arrayRemoveItem(q, x) \in Seq(S)
         /\ Items(arrayRemoveItem(q, x)) = Items(q) \ {x}
         /\ Distinct(arrayRemoveItem(q, x))
<1>1. CASE x \notin Items(q)
  BY <1>1 DEF arrayRemoveItem
<1>2. CASE x \in Items(q)
  <2> DEFINE i == IndexOf(q, x)
             r == Splice(q, i)
  <2>1. DOMAIN q = 1 .. Len(q) /\ Len(q) \in Nat
    OBVIOUS
  <2>2. PICK k \in DOMAIN q : q[k] = x
    BY <1>2 DEF Items
  <2>3. \A j \in DOMAIN q : q[j] = x => j = k
    BY <2>2 DEF Distinct
  <2>4. i \in 1 .. Len(q) /\ q[i] = x
    <3>1. q[k] = x /\ \A j \in DOMAIN q : q[j] = x => k <= j
      BY <2>1, <2>2, <2>3
    <3> QED BY <3>1, <2>1 DEF IndexOf
  <2>5. \A j \in 1 .. Len(q) : j # i => q[j] # x
    BY <2>1, <2>4 DEF Distinct
  <2> HIDE DEF i
  <2>6. /\ r \in Seq(S) /\ DOMAIN r = 1 .. Len(q) - 1
        /\ \A j \in 1 .. Len(q) - 1 : r[j] = IF j < i THEN q[j] ELSE q[j + 1]
    <3>1. /\ DOMAIN r = 1 .. Len(q) - 1
          /\ \A j \in 1 .. Len(q) - 1 : r[j] = IF j < i THEN q[j] ELSE q[j + 1]
      BY <2>1 DEF Splice
    <3>2. \A j \in 1 .. Len(q) - 1 : q[j] \in S /\ q[j + 1] \in S
      BY <2>1
    <3>3. r = [j \in 1 .. Len(q) - 1 |-> IF j < i THEN q[j] ELSE q[j + 1]]
      BY DEF Splice
    <3>4. Len(q) - 1 \in Nat
      BY <2>1, <2>4
    <3> QED BY <3>1, <3>2, <3>3, <3>4
  <2> HIDE DEF r
  <2>7. Items(r) = Items(q) \ {x}
    <3>1. ASSUME NEW y \in Items(r) PROVE y \in Items(q) \ {x}
      <4>1. PICK j \in 1 .. Len(q) - 1 : y = r[j]
        BY <2>6 DEF Items
      <4>2. CASE j < i
        <5>1. y = q[j] /\ j \in 1 .. Len(q) /\ j # i
          BY <4>1, <4>2, <2>1, <2>4, <2>6
        <5> QED BY <5>1, <2>1, <2>5 DEF Items
      <4>3. CASE ~(j < i)
        <5>1. y = q[j + 1] /\ j + 1 \in 1 .. Len(q) /\ j + 1 # i
          BY <4>1, <4>3, <2>1, <2>4, <2>6
        <5> QED BY <5>1, <2>1, <2>5 DEF Items
      <4> QED BY <4>2, <4>3
    <3>2. ASSUME NEW y \in Items(q), y # x PROVE y \in Items(r)
      <4>1. PICK j \in 1 .. Len(q) : y = q[j]
        BY <2>1 DEF Items
      <4>2. CASE j < i
        <5>1. j \in 1 .. Len(q) - 1 /\ r[j] = y
          BY <4>1, <4>2, <2>1, <2>4, <2>6
        <5> QED BY <5>1, <2>6 DEF Items
      <4>3. CASE ~(j < i)
        <5>1. j # i
          BY <4>1, <3>2, <2>4
        <5>2. /\ j - 1 \in 1 .. Len(q) - 1 /\ ~(j - 1 < i)
              /\ (j - 1) + 1 = j
          BY <5>1, <4>1, <4>3, <2>1, <2>4
        <5>3. r[j - 1] = y
          BY <5>2, <4>1, <2>6
        <5> QED BY <5>2, <5>3, <2>6 DEF Items
      <4> QED BY <4>2, <4>3
    <3> QED BY <3>1, <3>2
  <2>8. Distinct(r)
    <3> SUFFICES ASSUME NEW j \in 1 .. Len(q) - 1, NEW m \in 1 .. Len(q) - 1,
                        r[j] = r[m]
                 PROVE  j = m
      BY <2>6 DEF Distinct
    <3> DEFINE spot(n) == IF n < i THEN n ELSE n + 1
    <3>1. \A n \in 1 .. Len(q) - 1 : spot(n) \in 1 .. Len(q) /\ r[n] = q[spot(n)]
      BY <2>1, <2>4, <2>6
    <3>2. spot(j) = spot(m)
      BY <3>1, <2>1 DEF Distinct
    <3> QED BY <3>2, <2>1, <2>4
  <2> QED BY <1>2, <2>6, <2>7, <2>8 DEF arrayRemoveItem, r, i
<1> QED BY <1>1, <1>2

(* The first item precedes every other item of the queue. *)
LEMMA FirstPrecedes ==
  ASSUME NEW S, NEW q \in Seq(S), q # <<>>, NEW y \in Items(q), y # Head(q)
  PROVE  Precedes(q, Head(q), y)
<1>1. PICK k \in DOMAIN q : q[k] = y
  BY DEF Items
<1>2. 1 \in DOMAIN q /\ q[1] = Head(q) /\ k # 1 /\ k \in Nat /\ k >= 1
  BY <1>1
<1> QED BY <1>1, <1>2 DEF Precedes

(* push puts an item behind the ones that are there. *)
LEMMA AppendOrder ==
  ASSUME NEW S, NEW q \in Seq(S), NEW x \in S, NEW m, NEW l, l # x,
         Precedes(Append(q, x), m, l)
  PROVE  Precedes(q, m, l)
<1> DEFINE r == Append(q, x)
<1>1. DOMAIN q = 1 .. Len(q) /\ DOMAIN r = 1 .. Len(q) + 1 /\ Len(q) \in Nat
  OBVIOUS
<1>2. r[Len(q) + 1] = x /\ \A n \in 1 .. Len(q) : r[n] = q[n]
  OBVIOUS
<1> HIDE DEF r
<1>3. PICK j \in DOMAIN r, k \in DOMAIN r : j < k /\ r[j] = m /\ r[k] = l
  BY DEF Precedes, r
<1>4. k \in 1 .. Len(q) /\ j \in 1 .. Len(q)
  BY <1>1, <1>2, <1>3
<1> QED BY <1>1, <1>2, <1>3, <1>4 DEF Precedes

(* shift keeps the order of the rest. *)
LEMMA ShiftOrder ==
  ASSUME NEW S, NEW q \in Seq(S), q # <<>>, NEW m, NEW l, Precedes(Tail(q), m, l)
  PROVE  Precedes(q, m, l)
<1> DEFINE r == Tail(q)
<1>1. DOMAIN q = 1 .. Len(q) /\ DOMAIN r = 1 .. Len(q) - 1 /\ Len(q) \in Nat
  OBVIOUS
<1>2. \A n \in 1 .. Len(q) - 1 : r[n] = q[n + 1]
  OBVIOUS
<1> HIDE DEF r
<1>3. PICK j \in DOMAIN r, k \in DOMAIN r : j < k /\ r[j] = m /\ r[k] = l
  BY DEF Precedes, r
<1>4. /\ j + 1 \in DOMAIN q /\ k + 1 \in DOMAIN q /\ j + 1 < k + 1
      /\ q[j + 1] = m /\ q[k + 1] = l
  BY <1>1, <1>2, <1>3
<1> QED BY <1>4 DEF Precedes

(* arrayRemoveItem keeps the order of the rest. *)
LEMMA RemoveOrder ==
  ASSUME NEW S, NEW q \in Seq(S), NEW x, NEW m, NEW l, Distinct(q),
         Precedes(arrayRemoveItem(q, x), m, l)
  PROVE  Precedes(q, m, l)
<1>1. CASE x \notin Items(q)
  BY <1>1 DEF arrayRemoveItem
<1>2. CASE x \in Items(q)
  <2> DEFINE i == IndexOf(q, x)
             r == Splice(q, i)
             spot(n) == IF n < i THEN n ELSE n + 1
  <2>1. DOMAIN q = 1 .. Len(q) /\ Len(q) \in Nat
    OBVIOUS
  <2>2. /\ DOMAIN r = 1 .. Len(q) - 1
        /\ \A n \in 1 .. Len(q) - 1 : r[n] = q[spot(n)]
    BY <2>1 DEF Splice
  <2>3. Precedes(r, m, l)
    BY <1>2 DEF arrayRemoveItem
  <2> HIDE DEF r
  <2>4. PICK j \in DOMAIN r, k \in DOMAIN r : j < k /\ r[j] = m /\ r[k] = l
    BY <2>3 DEF Precedes
  <2>5. j \in 1 .. Len(q) - 1 /\ k \in 1 .. Len(q) - 1
    BY <2>2, <2>4
  <2>6. spot(j) \in DOMAIN q /\ spot(k) \in DOMAIN q /\ q[spot(j)] = m /\ q[spot(k)] = l
    BY <2>1, <2>2, <2>4, <2>5
  <2>7. spot(j) < spot(k)
    <3>1. PICK n \in DOMAIN q : q[n] = x
      BY <1>2 DEF Items
    <3>2. q[n] = x /\ \A n2 \in DOMAIN q : q[n2] = x => n <= n2
      BY <3>1, <2>1 DEF Distinct
    <3>3. i \in Nat
      BY <3>2, <2>1 DEF IndexOf
    <3> HIDE DEF i
    <3> QED BY <3>3, <2>4, <2>5
  <2> QED BY <2>6, <2>7 DEF Precedes
<1> QED BY <1>1, <1>2
-----------------------------------------------------------------------------
(***************************************************************************)
(* The channels.                                                           *)
(***************************************************************************)
(* The types, requests and answers among them. *)
ChannelRequest == [type : {"Subscribe", "Unsubscribe"}, of : Subscriber] \cup [type : {"Publish"}]
ChannelAnswer == [type : {"Ack"}, of : Subscriber] \cup [type : {"Message"}, v : Nat] \cup [type : {"Done"}]
Delivery == [pass : Nat, v : Nat]

Typed ==
  /\ connections \in SUBSET Client /\ alive \in SUBSET Client
  /\ subscriptions \in Seq(Client)
  /\ subscribed \in [Client -> {0, 1}]
  /\ listener \in [Client -> Nat]
  /\ callbacks \in [Client -> Seq(Subscriber)]
  /\ at \in [Client -> Nat]
  /\ reading \in [Client -> Nat] /\ buffered \in [Client -> Nat]
  /\ rest \in [Client -> BOOLEAN] /\ handled \in [Client -> Nat]
  /\ thrown \in [Client -> Nat]
  /\ status \in [Subscriber -> {"new", "subscribing", "active", "done"}]
  /\ toBroker \in [Client -> Seq(ChannelRequest)]
  /\ fromBroker \in [Client -> Seq(ChannelAnswer)]
  /\ published \in Nat
  /\ delivered \in [Subscriber -> Seq(Delivery)]
  /\ since \in [Subscriber -> Nat \cup {Unrouted}]
  /\ skipped \in SUBSET Subscriber

(* The server lists open connections, each once.                           *)
RouteList ==
  /\ alive \subseteq connections
  /\ Distinct(subscriptions)
  /\ Items(subscriptions) \subseteq connections

(* A client that died has no state, a closed connection no requests.       *)
EndedAt(c) ==
  /\ c \notin alive =>
       /\ callbacks[c] = <<>> /\ listener[c] = 0
       /\ reading[c] = 0 /\ buffered[c] = 0 /\ fromBroker[c] = <<>>
  /\ c \notin connections => toBroker[c] = <<>>

(* The callbacks of a living client are those of its subscriptions that    *)
(* are under way or active, each once.                                     *)
CallbacksAt(c) ==
  /\ listener[c] = Len(callbacks[c])
  /\ Distinct(callbacks[c])
  /\ at[c] <= Cardinality(Subscriber) + 1
  /\ \A s \in Items(callbacks[c]) : OwnerOf[s] = c /\ status[s] \in {"subscribing", "active"}
  /\ c \in alive => \A s \in Subscriber :
       OwnerOf[s] = c /\ status[s] \in {"subscribing", "active"} => s \in Items(callbacks[c])

(* feed has what has come or a part of it, and the loop runs for the       *)
(* message it is at.                                                       *)
IsMessage(c, i) == i \in DOMAIN fromBroker[c] /\ fromBroker[c][i].type = "Message"
ReadAt(c) ==
  /\ reading[c] <= buffered[c] /\ handled[c] <= buffered[c]
  /\ buffered[c] <= Len(fromBroker[c])
  /\ at[c] > 0 => IsMessage(c, reading[c])

(* A subscription waits for its ack as long as its request or the ack is   *)
(* under way, and there is one of them that was not handled yet.           *)
IsAck(c, i) == i \in DOMAIN fromBroker[c] /\ fromBroker[c][i].type = "Ack" /\ i > handled[c]
AcksAt(c) ==
  /\ \A i \in DOMAIN toBroker[c] : toBroker[c][i].type = "Subscribe" =>
       LET s == toBroker[c][i].of IN
       /\ OwnerOf[s] = c /\ status[s] = "subscribing"
       /\ \A j \in DOMAIN fromBroker[c] : IsAck(c, j) => fromBroker[c][j].of # s
  /\ \A i \in DOMAIN fromBroker[c] : IsAck(c, i) =>
       LET s == fromBroker[c][i].of IN
       /\ OwnerOf[s] = c /\ status[s] = "subscribing"
       /\ \A j \in DOMAIN fromBroker[c] : IsAck(c, j) /\ fromBroker[c][j].of = s => i = j

(* A route is there, is being asked for, or is being given back, and at    *)
(* most one request of each kind is under way, Subscribe as the later one. *)
RouteAt(c) ==
  LET routed == c \in Items(subscriptions)
      asks == Asked(c, "Subscribe")
      leaves == Asked(c, "Unsubscribe")
  IN /\ \A i, j \in DOMAIN toBroker[c] :
          toBroker[c][i].type = "Subscribe" /\ toBroker[c][j].type # "Publish" => j <= i
     /\ \A i, j \in DOMAIN toBroker[c] :
          toBroker[c][i].type = "Unsubscribe" /\ toBroker[c][j].type = "Unsubscribe" => i = j
     /\ leaves => routed
     /\ asks /\ ~leaves => ~routed
     /\ c \in connections => subscribed[c] = (IF routed THEN 1 ELSE 0)
     /\ c \in alive => /\ asks => listener[c] > 0
                       /\ leaves /\ ~asks => listener[c] = 0
                       /\ ~asks /\ ~leaves => (routed <=> listener[c] > 0)

(* Messages come in the order of the server.                               *)
InLineAt(c) ==
  /\ \A i \in DOMAIN fromBroker[c] : IsMessage(c, i) => fromBroker[c][i].v \in 1 .. published
  /\ \A i, j \in DOMAIN fromBroker[c] :
       IsMessage(c, i) /\ IsMessage(c, j) /\ i < j => fromBroker[c][i].v < fromBroker[c][j].v

(* What a subscriber got is of this pass or of an earlier one; what it has *)
(* ahead in this pass is later than what it got in it.                     *)
Due(s, i) == i \in DOMAIN fromBroker[OwnerOf[s]] /\ Ahead(s, i)
GotBy(s) ==
  LET c == OwnerOf[s] IN
  /\ \A i, j \in DOMAIN delivered[s] :
       i < j => \/ delivered[s][i].pass < delivered[s][j].pass
                \/ /\ delivered[s][i].pass = delivered[s][j].pass
                   /\ delivered[s][i].v < delivered[s][j].v
  /\ \A k \in DOMAIN delivered[s] : delivered[s][k].v \in 1 .. published /\ delivered[s][k].pass <= thrown[c]
  /\ status[s] = "new" => delivered[s] = <<>>
  /\ s \in Items(callbacks[c]) => \A i \in DOMAIN fromBroker[c], k \in DOMAIN delivered[s] :
       Due(s, i) /\ delivered[s][k].pass = thrown[c] => delivered[s][k].v < fromBroker[c][i].v

RoutedSince(s) ==
  LET c == OwnerOf[s] IN
  /\ since[s] <= published
  /\ since[s] # Unrouted /\ c \in alive => s \in Items(callbacks[c]) /\ Routed(c)

(* What is published since then is there, or comes.                        *)
Arrived(s, m) == \E k \in DOMAIN delivered[s] : delivered[s][k].v = m
OnItsWay(s, m) == \E i \in DOMAIN fromBroker[OwnerOf[s]] : Due(s, i) /\ fromBroker[OwnerOf[s]][i].v = m
NothingMissed(s) ==
  \/ OwnerOf[s] \notin alive \/ s \in skipped \/ since[s] = Unrouted
  \/ \A m \in Nat : since[s] < m /\ m <= published => Arrived(s, m) \/ OnItsWay(s, m)

At(c) ==
  /\ EndedAt(c)
  /\ CallbacksAt(c)
  /\ ReadAt(c)
  /\ AcksAt(c)
  /\ RouteAt(c)
  /\ InLineAt(c)
Of(s) ==
  /\ GotBy(s)
  /\ RoutedSince(s)
  /\ NothingMissed(s)

ChannelInv ==
  /\ Typed
  /\ RouteList
  /\ \A c \in Client : At(c)
  /\ \A s \in Subscriber : Of(s)
-----------------------------------------------------------------------------
(* What a queue of requests or answers is behind one more of them, and     *)
(* without its first one.                                                  *)
LEMMA Appended ==
  ASSUME NEW S, NEW q \in Seq(S), NEW x \in S
  PROVE  /\ Append(q, x) \in Seq(S)
         /\ DOMAIN Append(q, x) = DOMAIN q \cup {Len(q) + 1}
         /\ DOMAIN q = 1 .. Len(q) /\ Len(q) \in Nat
         /\ \A i \in DOMAIN q : Append(q, x)[i] = q[i]
         /\ Append(q, x)[Len(q) + 1] = x
OBVIOUS

LEMMA Shifted ==
  ASSUME NEW S, NEW q \in Seq(S), q # <<>>
  PROVE  /\ Tail(q) \in Seq(S)
         /\ DOMAIN Tail(q) = 1 .. Len(q) - 1
         /\ DOMAIN q = 1 .. Len(q) /\ Len(q) \in Nat \ {0}
         /\ \A i \in DOMAIN Tail(q) : i + 1 \in DOMAIN q /\ Tail(q)[i] = q[i + 1]
         /\ \A i \in DOMAIN q : i = 1 \/ (i - 1 \in DOMAIN Tail(q) /\ Tail(q)[i - 1] = q[i])
         /\ Head(q) = q[1] /\ Head(q) \in S /\ 1 \in DOMAIN q
OBVIOUS

(* A list without duplicates has an item at one place, or at none.         *)
LEMMA Places ==
  ASSUME NEW S, NEW q \in Seq(S), NEW x, Distinct(q)
  PROVE  Cardinality({i \in DOMAIN q : q[i] = x}) = IF x \in Items(q) THEN 1 ELSE 0
<1>1. CASE x \in Items(q)
  <2>1. PICK k \in DOMAIN q : q[k] = x
    BY <1>1 DEF Items
  <2>2. {i \in DOMAIN q : q[i] = x} = {k}
    BY <2>1 DEF Distinct
  <2> QED BY <2>2, <1>1, FS_Singleton
<1>2. CASE x \notin Items(q)
  <2>1. {i \in DOMAIN q : q[i] = x} = {}
    BY <1>2 DEF Items
  <2> QED BY <2>1, <1>2, FS_EmptySet
<1> QED BY <1>1, <1>2

(* A list without duplicates is not longer than the set of its items.      *)
LEMMA DistinctLength ==
  ASSUME NEW S, IsFiniteSet(S), NEW q \in Seq(S), Distinct(q)
  PROVE  Len(q) <= Cardinality(S) /\ Cardinality(S) \in Nat
<1>1. DOMAIN q = 1 .. Len(q) /\ Len(q) \in Nat
  OBVIOUS
<1>2. IsFiniteSet(1 .. Len(q)) /\ Cardinality(1 .. Len(q)) = Len(q)
  BY <1>1, FS_Interval
<1>3. q \in Injection(1 .. Len(q), S)
  BY <1>1 DEF Distinct, Injection, IsInjective
<1>4. Cardinality(1 .. Len(q)) <= Cardinality(S)
  BY <1>2, <1>3, FS_Injection
<1> QED BY <1>2, <1>4, FS_CardinalityType


(* A queue without its first items, and one with others behind it. *)
LEMMA Cut ==
  ASSUME NEW S, NEW q \in Seq(S), NEW n \in 0 .. Len(q)
  PROVE  /\ SubSeq(q, n + 1, Len(q)) \in Seq(S)
         /\ Len(SubSeq(q, n + 1, Len(q))) = Len(q) - n
         /\ DOMAIN SubSeq(q, n + 1, Len(q)) = 1 .. Len(q) - n
         /\ DOMAIN q = 1 .. Len(q) /\ Len(q) \in Nat
         /\ \A i \in 1 .. Len(q) - n : SubSeq(q, n + 1, Len(q))[i] = q[i + n]
OBVIOUS

LEMMA Suffixed ==
  ASSUME NEW S, NEW q \in Seq(S), NEW w \in Seq(S)
  PROVE  /\ q \o w \in Seq(S)
         /\ DOMAIN (q \o w) = 1 .. Len(q) + Len(w) /\ Len(q \o w) = Len(q) + Len(w)
         /\ DOMAIN q = 1 .. Len(q) /\ Len(q) \in Nat
         /\ DOMAIN w = 1 .. Len(w) /\ Len(w) \in Nat
         /\ \A i \in DOMAIN q : (q \o w)[i] = q[i]
         /\ \A i \in 1 .. Len(q) + Len(w) : i > Len(q) => (q \o w)[i] = w[i - Len(q)]
OBVIOUS

(* Which requests and answers name a subscription.                         *)
LEMMA Kinds ==
  /\ \A q \in Seq(ChannelRequest) : \A i \in DOMAIN q :
       /\ q[i].type \in {"Subscribe", "Unsubscribe", "Publish"}
       /\ q[i].type = "Subscribe" => q[i].of \in Subscriber
  /\ \A q \in Seq(ChannelAnswer) : \A i \in DOMAIN q :
       /\ q[i].type \in {"Ack", "Message", "Done"}
       /\ q[i].type = "Ack" => q[i].of \in Subscriber
       /\ q[i].type = "Message" => q[i].v \in Nat
<1>1. /\ \A r \in ChannelRequest :
           /\ r.type \in {"Subscribe", "Unsubscribe", "Publish"}
           /\ r.type = "Subscribe" => r.of \in Subscriber
      /\ \A r \in ChannelAnswer :
           /\ r.type \in {"Ack", "Message", "Done"}
           /\ r.type = "Ack" => r.of \in Subscriber
           /\ r.type = "Message" => r.v \in Nat
  BY DEF ChannelRequest, ChannelAnswer
<1> HIDE DEF ChannelRequest, ChannelAnswer
<1> QED BY <1>1

(* The state of d and of its subscribers, none of which changes. *)
SameAt(d) ==
  /\ listener'[d] = listener[d] /\ callbacks'[d] = callbacks[d]
  /\ at'[d] = at[d] /\ reading'[d] = reading[d] /\ buffered'[d] = buffered[d]
  /\ handled'[d] = handled[d] /\ thrown'[d] = thrown[d]
  /\ toBroker'[d] = toBroker[d] /\ fromBroker'[d] = fromBroker[d]
  /\ subscribed'[d] = subscribed[d]
  /\ d \in alive' <=> d \in alive
  /\ d \in connections' <=> d \in connections
  /\ d \in Items(subscriptions)' <=> d \in Items(subscriptions)
  /\ \A s \in Subscriber : OwnerOf[s] = d =>
       /\ status'[s] = status[s] /\ delivered'[s] = delivered[s] /\ since'[s] = since[s]
       /\ s \in skipped' <=> s \in skipped

(* What a subscriber has ahead depends on the loop and on the items.       *)
LEMMA StaysDue ==
  ASSUME NEW s \in Subscriber, NEW c \in Client, OwnerOf[s] = c,
         at'[c] = at[c], reading'[c] = reading[c], fromBroker'[c] = fromBroker[c]
  PROVE  /\ \A i : Due(s, i) /\ (Looping(s) => Looping(s)') => Due(s, i)'
         /\ \A i : Due(s, i)' /\ (Looping(s)' => Looping(s)) => Due(s, i)
<1> SUFFICES ASSUME NEW i
             PROVE  /\ Due(s, i) /\ (Looping(s) => Looping(s)') => Due(s, i)'
                    /\ Due(s, i)' /\ (Looping(s)' => Looping(s)) => Due(s, i)
  OBVIOUS
<1>1. Due(s, i)' <=> /\ i \in DOMAIN fromBroker[c] /\ fromBroker[c][i].type = "Message"
                     /\ i > reading[c] \/ (i = reading[c] /\ (at[c] = 0 \/ Looping(s)'))
  BY DEF Due, Ahead
<1>2. Due(s, i) <=> /\ i \in DOMAIN fromBroker[c] /\ fromBroker[c][i].type = "Message"
                    /\ i > reading[c] \/ (i = reading[c] /\ (at[c] = 0 \/ Looping(s)))
  BY DEF Due, Ahead
<1> QED BY <1>1, <1>2

LEMMA Elsewhere ==
  ASSUME ChannelAssumption, ChannelInv, NEW d \in Client, SameAt(d), published' = published
  PROVE  /\ At(d)'
         /\ \A s \in Subscriber : OwnerOf[s] = d => Of(s)'
<1>1. Typed /\ At(d)
  BY DEF ChannelInv
<1>2. toBroker[d] \in Seq(ChannelRequest) /\ fromBroker[d] \in Seq(ChannelAnswer) /\ callbacks[d] \in Seq(Subscriber)
  BY <1>1 DEF Typed
<1>3. /\ \A i \in DOMAIN toBroker[d] : toBroker[d][i].type = "Subscribe" => toBroker[d][i].of \in Subscriber
      /\ \A i \in DOMAIN fromBroker[d] : fromBroker[d][i].type = "Ack" => fromBroker[d][i].of \in Subscriber
  BY <1>2, Kinds
<1>4. Items(callbacks[d]) \subseteq Subscriber
  BY <1>2 DEF Items
<1>5. EndedAt(d)' /\ ReadAt(d)' /\ InLineAt(d)'
  BY <1>1 DEF At, EndedAt, ReadAt, InLineAt, IsMessage, SameAt
<1>6. CallbacksAt(d)'
  BY <1>1, <1>4 DEF At, CallbacksAt, SameAt
<1>7. AcksAt(d)'
  BY <1>1, <1>3 DEF At, AcksAt, IsAck, SameAt
<1>8. RouteAt(d)'
  BY <1>1 DEF At, RouteAt, Asked, SameAt
<1>9. ASSUME NEW s \in Subscriber, OwnerOf[s] = d PROVE Of(s)'
  <2>1. Of(s)
    BY DEF ChannelInv
  <2>2. Looping(s)' <=> Looping(s)
    BY <1>9 DEF Looping, SameAt
  <2>3. \A i : Due(s, i)' <=> Due(s, i)
    BY <2>2, <1>9, StaysDue DEF SameAt
  <2>4. Routed(d)' <=> Routed(d)
    BY DEF Routed, Asked, SameAt, Items
  <2>5. GotBy(s)'
    BY <2>1, <2>3, <1>9 DEF Of, GotBy, SameAt
  <2>6. RoutedSince(s)'
    BY <2>1, <2>4, <1>9 DEF Of, RoutedSince, SameAt
  <2>7. NothingMissed(s)'
    BY <2>1, <2>3, <1>9 DEF Of, NothingMissed, Arrived, OnItsWay, SameAt
  <2> QED BY <2>5, <2>6, <2>7 DEF Of
<1> QED BY <1>5, <1>6, <1>7, <1>8, <1>9 DEF At
(* A step of one client, and of what the server keeps for it.              *)
LEMMA OneClient ==
  ASSUME ChannelAssumption, ChannelInv, NEW c \in Client,
         \A d \in Client \ {c} : SameAt(d),
         published' = published, Typed', RouteList', At(c)',
         \A s \in Subscriber : OwnerOf[s] = c => Of(s)'
  PROVE  ChannelInv'
<1>1. ASSUME NEW d \in Client PROVE At(d)'
  BY Elsewhere, Zenon
<1>2. ASSUME NEW s \in Subscriber PROVE Of(s)'
  <2>1. OwnerOf[s] \in Client
    BY DEF ChannelAssumption
  <2> QED BY <2>1, Elsewhere
<1> QED BY <1>1, <1>2 DEF ChannelInv

-----------------------------------------------------------------------------
LEMMA ChannelsInitInv ==
  ASSUME ChannelAssumption, ChannelInit
  PROVE  ChannelInv
<1>1. Typed
  BY DEF ChannelAssumption, ChannelInit, Typed
<1>2. /\ \A c \in Client : /\ toBroker[c] = <<>> /\ fromBroker[c] = <<>> /\ callbacks[c] = <<>>
                           /\ at[c] = 0 /\ reading[c] = 0 /\ buffered[c] = 0 /\ handled[c] = 0
      /\ \A s \in Subscriber : delivered[s] = <<>>
  BY DEF ChannelInit
<1>3. Items(<<>>) = {} /\ Distinct(<<>>) /\ Len(<<>>) = 0 /\ DOMAIN <<>> = {}
  BY DEF Items, Distinct
<1>4. Cardinality(Subscriber) \in Nat
  BY FS_CardinalityType DEF ChannelAssumption
<1>5. RouteList
  BY <1>3 DEF ChannelInit, RouteList
<1>6. ASSUME NEW c \in Client PROVE At(c)
  <2>1. EndedAt(c) /\ ReadAt(c) /\ AcksAt(c) /\ InLineAt(c)
    BY <1>2, <1>3 DEF ChannelInit, EndedAt, ReadAt, AcksAt, InLineAt
  <2>2. CallbacksAt(c)
    BY <1>2, <1>3, <1>4 DEF ChannelInit, CallbacksAt
  <2>3. RouteAt(c)
    BY <1>2, <1>3 DEF ChannelInit, RouteAt, Asked
  <2> QED BY <2>1, <2>2, <2>3 DEF At
<1>7. ASSUME NEW s \in Subscriber PROVE Of(s)
  BY <1>2, <1>3 DEF ChannelInit, Of, GotBy, RoutedSince, NothingMissed, Unrouted, ChannelAssumption
<1> QED BY <1>1, <1>5, <1>6, <1>7 DEF ChannelInv

(* A new callback: the route is there, or is asked for now.                *)
LEMMA SubscribeInv ==
  ASSUME ChannelAssumption, ChannelInv, NEW s \in Subscriber, Subscribe(s)
  PROVE  ChannelInv'
<1> DEFINE c == OwnerOf[s]
           q == toBroker[c]
           x == [type |-> "Subscribe", of |-> s]
<1>1. Typed /\ RouteList /\ c \in Client /\ At(c) /\ Of(s) /\ c \in alive /\ status[s] = "new"
  BY DEF ChannelInv, ChannelAssumption, Subscribe, MayCall
<1>2. /\ callbacks[c] \in Seq(Subscriber) /\ Distinct(callbacks[c]) /\ listener[c] = Len(callbacks[c])
      /\ s \notin Items(callbacks[c]) /\ q \in Seq(ChannelRequest) /\ x \in ChannelRequest
  BY <1>1 DEF Typed, At, CallbacksAt, ChannelRequest
<1>3. /\ listener' = [listener EXCEPT ![c] = @ + 1]
      /\ callbacks' = [callbacks EXCEPT ![c] = Append(@, s)]
      /\ UNCHANGED <<connections, subscriptions, subscribed, published, alive, at, reading, buffered, rest, handled,
                     thrown, delivered, skipped, fromBroker>>
  BY DEF Subscribe, serverVars, loopVars, feedVars
<1>4. \/ /\ listener[c] = 0
         /\ toBroker' = [toBroker EXCEPT ![c] = Append(q, x)]
         /\ status' = [status EXCEPT ![s] = "subscribing"] /\ since' = since
      \/ /\ listener[c] # 0
         /\ status' = [status EXCEPT ![s] = "active"]
         /\ since' = [since EXCEPT ![s] = IF Routed(c) THEN published ELSE @]
         /\ toBroker' = toBroker
  BY DEF Subscribe, Asks
<1>5. /\ callbacks'[c] = Append(callbacks[c], s) /\ callbacks'[c] \in Seq(Subscriber)
      /\ Distinct(callbacks'[c]) /\ Items(callbacks'[c]) = Items(callbacks[c]) \cup {s}
      /\ Len(callbacks'[c]) = Len(callbacks[c]) + 1 /\ listener'[c] = listener[c] + 1
  BY <1>1, <1>2, <1>3, AppendItem DEF Typed
<1>6. /\ DOMAIN callbacks'[c] = DOMAIN callbacks[c] \cup {Len(callbacks[c]) + 1}
      /\ \A k \in DOMAIN callbacks[c] : callbacks'[c][k] = callbacks[c][k]
      /\ callbacks'[c][Len(callbacks[c]) + 1] = s
  BY <1>2, <1>5, Appended
<1>7. /\ Append(q, x) \in Seq(ChannelRequest)
      /\ DOMAIN Append(q, x) = DOMAIN q \cup {Len(q) + 1}
      /\ DOMAIN q = 1 .. Len(q) /\ Len(q) \in Nat
      /\ \A i \in DOMAIN q : Append(q, x)[i] = q[i]
      /\ Append(q, x)[Len(q) + 1] = x
  BY <1>2, Appended
<1>8. Typed'
  <2>1. listener' \in [Client -> Nat] /\ callbacks' \in [Client -> Seq(Subscriber)]
    <3>1. listener \in [Client -> Nat] /\ callbacks \in [Client -> Seq(Subscriber)]
      BY <1>1 DEF Typed
    <3>2. listener' \in [Client -> Nat]
      BY <3>1, <1>1, <1>3
    <3>3. callbacks' \in [Client -> Seq(Subscriber)]
      BY <3>1, <1>1, <1>3, <1>5
    <3> QED BY <3>2, <3>3
  <2>2. toBroker' \in [Client -> Seq(ChannelRequest)]
    BY <1>1, <1>4, <1>7 DEF Typed
  <2>3. status' \in [Subscriber -> {"new", "subscribing", "active", "done"}]
    BY <1>1, <1>4 DEF Typed
  <2>4. since' \in [Subscriber -> Nat \cup {Unrouted}]
    BY <1>1, <1>4 DEF Typed
  <2> QED BY <1>1, <1>3, <2>1, <2>2, <2>3, <2>4 DEF Typed
<1>9. RouteList'
  BY <1>1, <1>3 DEF RouteList, Items, Distinct
<1>10. ASSUME NEW d \in Client \ {c} PROVE SameAt(d)
  BY <1>1, <1>3, <1>4 DEF Typed, SameAt, Items
<1>11. \A t \in Subscriber \ {s} : status'[t] = status[t] /\ since'[t] = since[t]
  BY <1>1, <1>4 DEF Typed
<1>12. /\ status'[s] \in {"subscribing", "active"}
       /\ since'[s] \in {since[s], published}
       /\ since'[s] # since[s] => listener[c] # 0 /\ Routed(c)
       /\ status'[s] = "subscribing" <=> listener[c] = 0
  BY <1>1, <1>4 DEF Typed
<1>13. \/ listener[c] = 0 /\ toBroker'[c] = Append(q, x)
       \/ listener[c] # 0 /\ toBroker'[c] = q
  BY <1>1, <1>4 DEF Typed
<1> HIDE DEF c, q, x
<1>14. EndedAt(c)' /\ ReadAt(c)' /\ InLineAt(c)'
  BY <1>1, <1>3 DEF At, EndedAt, ReadAt, InLineAt, IsMessage, RouteList
<1>15. CallbacksAt(c)'
  <2>1. /\ at'[c] <= Cardinality(Subscriber) + 1
        /\ \A t \in Items(callbacks[c]) : OwnerOf[t] = c /\ status[t] \in {"subscribing", "active"}
        /\ \A t \in Subscriber :
             OwnerOf[t] = c /\ status[t] \in {"subscribing", "active"} => t \in Items(callbacks[c])
        /\ Items(callbacks[c]) \subseteq Subscriber
    BY <1>1, <1>2, <1>3 DEF At, CallbacksAt, Items
  <2>2. OwnerOf[s] = c
    BY DEF c
  <2>3. listener'[c] = Len(callbacks'[c])
    BY <1>2, <1>5
  <2>4. \A t \in Items(callbacks[c]) \cup {s} : OwnerOf[t] = c /\ status'[t] \in {"subscribing", "active"}
    BY <2>1, <2>2, <1>11, <1>12
  <2>5. \A t \in Subscriber :
          OwnerOf[t] = c /\ status'[t] \in {"subscribing", "active"} => t \in Items(callbacks[c]) \cup {s}
    BY <2>1, <1>11
  <2> QED BY <1>5, <2>1, <2>3, <2>4, <2>5 DEF CallbacksAt
<1>16. AcksAt(c)'
  <2>1. /\ \A i \in DOMAIN q : q[i].type = "Subscribe" => q[i].of \in Subscriber
        /\ \A i \in DOMAIN fromBroker[c] : IsAck(c, i) => fromBroker[c][i].of \in Subscriber
    <3>1. fromBroker[c] \in Seq(ChannelAnswer)
      BY <1>1 DEF Typed
    <3> QED BY <3>1, <1>2, Kinds DEF IsAck, q
  <2>2. /\ \A i \in DOMAIN q : q[i].type = "Subscribe" => q[i].of # s
        /\ \A i \in DOMAIN fromBroker[c] : IsAck(c, i) => fromBroker[c][i].of # s
    BY <1>1 DEF At, AcksAt, IsAck, q
  <2>3. \A i \in DOMAIN q : q[i].type = "Subscribe" => status'[q[i].of] = status[q[i].of]
    BY <2>1, <2>2, <1>11
  <2>4. \A i \in DOMAIN fromBroker[c] : IsAck(c, i) => status'[fromBroker[c][i].of] = status[fromBroker[c][i].of]
    BY <2>1, <2>2, <1>11
  <2>5. CASE toBroker'[c] = q
    BY <2>3, <2>4, <2>5, <1>1, <1>3 DEF At, AcksAt, IsAck, q
  <2>6. CASE listener[c] = 0 /\ toBroker'[c] = Append(q, x)
    <3>1. x.type = "Subscribe" /\ x.of = s /\ OwnerOf[s] = c /\ status'[s] = "subscribing"
      BY <2>6, <1>12 DEF x, c
    <3> QED BY <3>1, <2>2, <2>3, <2>4, <2>6, <1>1, <1>3, <1>7 DEF At, AcksAt, IsAck, q
  <2> QED BY <2>5, <2>6, <1>13
<1>17. RouteAt(c)'
  <2>1. (c \in Items(subscriptions))' <=> c \in Items(subscriptions)
    BY <1>3 DEF Items
  <2>2. listener[c] \in Nat /\ listener'[c] = listener[c] + 1
    BY <1>1, <1>5 DEF Typed
  <2>3. CASE listener[c] # 0 /\ toBroker'[c] = q
    BY <2>1, <2>2, <2>3, <1>1, <1>3 DEF At, RouteAt, Asked, q
  <2>4. CASE listener[c] = 0 /\ toBroker'[c] = Append(q, x)
    <3>1. x.type = "Subscribe"
      BY DEF x
    <3>2. ~Asked(c, "Subscribe")
      BY <2>2, <2>4, <1>1 DEF At, RouteAt
    <3>3. Asked(c, "Subscribe")' /\ (Asked(c, "Unsubscribe")' <=> Asked(c, "Unsubscribe"))
      BY <3>1, <2>4, <1>7 DEF Asked, q
    <3>4. \A i, j \in DOMAIN toBroker'[c] :
            toBroker'[c][i].type = "Subscribe" /\ toBroker'[c][j].type # "Publish" => j <= i
      BY <3>1, <3>2, <2>4, <1>7 DEF Asked, q
    <3>5. \A i, j \in DOMAIN toBroker'[c] :
            toBroker'[c][i].type = "Unsubscribe" /\ toBroker'[c][j].type = "Unsubscribe" => i = j
      BY <3>1, <2>4, <1>7, <1>1 DEF At, RouteAt, q
    <3> QED BY <3>2, <3>3, <3>4, <3>5, <2>1, <2>2, <2>4, <1>1, <1>3 DEF At, RouteAt
  <2> QED BY <2>3, <2>4, <1>13
<1>18. ASSUME NEW t \in Subscriber, OwnerOf[t] = c PROVE Of(t)'
  <2>1. GotBy(t)'
    <3>1. Of(t) /\ t \in Subscriber
      BY <1>18 DEF ChannelInv
    <3>2. CASE t = s
      <4>1. delivered'[s] = <<>> /\ status'[s] # "new"
        BY <1>1, <1>3, <1>12 DEF Of, GotBy
      <4> QED BY <3>2, <4>1 DEF GotBy
    <3>3. CASE t # s
      <4>1. Looping(t)' => Looping(t)
        BY <3>3, <1>3, <1>6, <1>18 DEF Looping
      <4>2. \A i : Due(t, i)' => Due(t, i)
        BY <4>1, <1>1, <1>3, <1>18, StaysDue
      <4> QED BY <3>1, <3>3, <4>2, <1>3, <1>5, <1>11, <1>18 DEF Of, GotBy
    <3> QED BY <3>2, <3>3
  <2>2. Of(t) /\ since[s] = Unrouted
    BY <1>1, <1>2 DEF ChannelInv, Of, RoutedSince, c
  <2>3. listener[c] = 0 => since[t] = Unrouted
    <3>1. listener[c] = 0 => Items(callbacks[c]) = {}
      <4>1. DOMAIN callbacks[c] = 1 .. Len(callbacks[c])
        BY <1>2
      <4> QED BY <4>1, <1>2 DEF Items
    <3> QED BY <3>1, <2>2, <1>1, <1>18 DEF Of, RoutedSince
  <2>4. RoutedSince(t)'
    <3>1. CASE listener[c] = 0
      <4>1. since'[t] = Unrouted
        BY <3>1, <2>2, <2>3, <1>11, <1>12
      <4>2. published' \in Nat
        BY <1>8 DEF Typed
      <4> QED BY <4>1, <4>2 DEF RoutedSince, Unrouted
    <3>2. CASE listener[c] # 0 /\ toBroker'[c] = q
      <4>1. Routed(c)' <=> Routed(c)
        BY <3>2, <1>3 DEF Routed, Asked, q
      <4>2. published \in Nat
        BY <1>1 DEF Typed
      <4>3. since'[t] = since[t] \/ (t = s /\ since'[t] = published /\ Routed(c))
        BY <1>11, <1>12
      <4>4. since'[t] <= published
        BY <4>2, <4>3, <2>2 DEF Of, RoutedSince
      <4>5. since'[t] # Unrouted => t \in Items(callbacks'[c]) /\ Routed(c)
        BY <4>3, <2>2, <1>1, <1>5, <1>18 DEF Of, RoutedSince
      <4> QED BY <4>1, <4>4, <4>5, <1>3, <1>18 DEF RoutedSince
    <3> QED BY <3>1, <3>2, <1>13
  <2>5. NothingMissed(t)'
    <3>1. CASE t = s
      <4>1. since'[t] \in {Unrouted, published} /\ published \in Nat
        BY <3>1, <2>2, <1>1, <1>12 DEF Typed
      <4> QED BY <4>1, <1>3 DEF NothingMissed
    <3>2. CASE t # s
      <4>1. Looping(t) => Looping(t)'
        BY <1>3, <1>6, <1>18 DEF Looping
      <4>2. \A i : Due(t, i) => Due(t, i)'
        BY <4>1, <1>1, <1>3, <1>18, StaysDue
      <4> QED BY <3>2, <4>2, <2>2, <1>3, <1>11, <1>18 DEF Of, NothingMissed, Arrived, OnItsWay
    <3> QED BY <3>1, <3>2
  <2> QED BY <2>1, <2>4, <2>5 DEF Of
<1> QED BY <1>1, <1>3, <1>8, <1>9, <1>10, <1>14, <1>15, <1>16, <1>17, <1>18, OneClient DEF At


(* A callback leaves: what it leaves behind keeps its order, and the one   *)
(* A callback leaves: what it leaves behind keeps its order, and the one   *)
(* the loop would come to next is passed over.                             *)
LEMMA UnsubscribeInv ==
  ASSUME ChannelAssumption, ChannelInv, NEW s \in Subscriber, Unsubscribe(s)
  PROVE  ChannelInv'
<1> DEFINE c == OwnerOf[s]
           q == toBroker[c]
           x == [type |-> "Unsubscribe", of |-> s]
           b == callbacks[c]
<1>1. Typed /\ RouteList /\ c \in Client /\ At(c) /\ Of(s) /\ c \in alive /\ status[s] = "active"
  BY DEF ChannelInv, ChannelAssumption, Unsubscribe, MayCall
<1>2. /\ b \in Seq(Subscriber) /\ Distinct(b) /\ listener[c] = Len(b)
      /\ s \in Items(b) /\ q \in Seq(ChannelRequest) /\ x \in ChannelRequest
  BY <1>1 DEF Typed, At, CallbacksAt, ChannelRequest
<1>3. /\ listener' = [listener EXCEPT ![c] = @ - 1]
      /\ callbacks' = [callbacks EXCEPT ![c] = arrayRemoveItem(@, s)]
      /\ status' = [status EXCEPT ![s] = "done"]
      /\ since' = [since EXCEPT ![s] = Unrouted]
      /\ skipped' = (skipped \ {s}) \cup
           {b[i] : i \in {k \in DOMAIN b : k = at[c] /\ IndexOf(b, s) < k}}
      /\ UNCHANGED <<connections, subscriptions, subscribed, published, alive, at, reading, buffered, rest, handled, thrown, delivered,
                     fromBroker>>
  BY DEF Unsubscribe, serverVars, loopVars, feedVars
<1>4. \/ listener[c] = 1 /\ toBroker' = [toBroker EXCEPT ![c] = Append(q, x)]
      \/ listener[c] # 1 /\ toBroker' = toBroker
  BY DEF Unsubscribe, Asks
<1> DEFINE n == IndexOf(b, s)
<1>5. n \in DOMAIN b /\ b[n] = s /\ Len(b) \in Nat \ {0} /\ DOMAIN b = 1 .. Len(b)
  <2>1. DOMAIN b = 1 .. Len(b) /\ Len(b) \in Nat
    BY <1>2
  <2>2. \E k \in DOMAIN b : b[k] = s /\ \A j \in DOMAIN b : b[j] = s => k <= j
    <3>1. PICK k \in DOMAIN b : b[k] = s
      BY <1>2 DEF Items
    <3>2. \A j \in DOMAIN b : b[j] = s => j = k
      BY <3>1, <1>2 DEF Distinct
    <3> QED BY <3>1, <3>2, <2>1
  <2> QED BY <2>1, <2>2 DEF IndexOf
<1>6. /\ callbacks'[c] = Splice(b, n)
      /\ callbacks'[c] \in Seq(Subscriber)
      /\ Distinct(callbacks'[c]) /\ Items(callbacks'[c]) = Items(b) \ {s}
  BY <1>1, <1>2, <1>3, RemoveItem DEF Typed, arrayRemoveItem
<1> HIDE DEF n
<1>7. /\ Len(callbacks'[c]) = Len(b) - 1 /\ DOMAIN callbacks'[c] = 1 .. Len(b) - 1
      /\ \A k \in DOMAIN callbacks'[c] : callbacks'[c][k] = IF k < n THEN b[k] ELSE b[k + 1]
  BY <1>5, <1>6 DEF Splice
<1>8. /\ Append(q, x) \in Seq(ChannelRequest)
      /\ DOMAIN Append(q, x) = DOMAIN q \cup {Len(q) + 1}
      /\ DOMAIN q = 1 .. Len(q) /\ Len(q) \in Nat
      /\ \A i \in DOMAIN q : Append(q, x)[i] = q[i]
      /\ Append(q, x)[Len(q) + 1] = x
  BY <1>2, Appended
<1>9. Typed'
  <2>1. listener' \in [Client -> Nat]
    BY <1>1, <1>2, <1>3, <1>5 DEF Typed
  <2>2. callbacks' \in [Client -> Seq(Subscriber)]
    BY <1>1, <1>3, <1>6 DEF Typed
  <2>3. toBroker' \in [Client -> Seq(ChannelRequest)]
    BY <1>1, <1>4, <1>8 DEF Typed
  <2>4. status' \in [Subscriber -> {"new", "subscribing", "active", "done"}]
    BY <1>1, <1>3 DEF Typed
  <2>5. since' \in [Subscriber -> Nat \cup {Unrouted}]
    BY <1>1, <1>3 DEF Typed
  <2>6. skipped' \in SUBSET Subscriber
    BY <1>1, <1>2, <1>3 DEF Typed
  <2> QED BY <1>1, <1>3, <2>1, <2>2, <2>3, <2>4, <2>5, <2>6 DEF Typed
<1>10. RouteList'
  BY <1>1, <1>3 DEF RouteList, Items, Distinct
<1>11. \A t \in Items(b) : t \in Subscriber /\ OwnerOf[t] = c
  BY <1>1, <1>2 DEF At, CallbacksAt, Items
<1>12. /\ \A t \in Subscriber \ {s} : status'[t] = status[t] /\ since'[t] = since[t]
       /\ status'[s] = "done" /\ since'[s] = Unrouted
  BY <1>1, <1>3 DEF Typed
<1>13. ASSUME NEW d \in Client \ {c} PROVE SameAt(d)
  <2>1. \A t \in Subscriber : OwnerOf[t] = d => (t \in skipped' <=> t \in skipped)
    <3>1. \A k \in DOMAIN b : b[k] \in Items(b)
      BY DEF Items
    <3> QED BY <3>1, <1>3, <1>11
  <2>2. \A t \in Subscriber : OwnerOf[t] = d => t # s
    OBVIOUS
  <2>3. toBroker'[d] = toBroker[d] /\ listener'[d] = listener[d] /\ callbacks'[d] = callbacks[d]
    BY <1>1, <1>3, <1>4 DEF Typed
  <2> QED BY <2>1, <2>2, <2>3, <1>3, <1>12 DEF SameAt, Items
<1>14. \/ listener[c] = 1 /\ toBroker'[c] = Append(q, x)
       \/ listener[c] # 1 /\ toBroker'[c] = q
  BY <1>1, <1>4 DEF Typed
<1>15. OwnerOf[s] = c /\ listener'[c] = listener[c] - 1
  BY <1>1, <1>3 DEF Typed
<1> HIDE DEF c, q, x, b
<1>16. EndedAt(c)' /\ ReadAt(c)' /\ InLineAt(c)'
  BY <1>1, <1>3 DEF At, EndedAt, ReadAt, InLineAt, IsMessage, RouteList
<1>17. CallbacksAt(c)'
  <2>1. /\ at'[c] <= Cardinality(Subscriber) + 1
        /\ \A t \in Items(b) : OwnerOf[t] = c /\ status[t] \in {"subscribing", "active"}
        /\ \A t \in Subscriber :
             OwnerOf[t] = c /\ status[t] \in {"subscribing", "active"} => t \in Items(b)
    BY <1>1, <1>2, <1>3 DEF At, CallbacksAt, b
  <2>2. \A t \in Items(b) \ {s} : OwnerOf[t] = c /\ status'[t] \in {"subscribing", "active"}
    BY <2>1, <1>11, <1>12
  <2>3. \A t \in Subscriber :
          OwnerOf[t] = c /\ status'[t] \in {"subscribing", "active"} => t \in Items(b) \ {s}
    BY <2>1, <1>12
  <2>4. listener'[c] = Len(callbacks'[c])
    BY <1>2, <1>7, <1>15
  <2> QED BY <1>6, <2>1, <2>2, <2>3, <2>4 DEF CallbacksAt
<1>18. AcksAt(c)'
  <2>1. /\ \A i \in DOMAIN q : q[i].type = "Subscribe" => q[i].of \in Subscriber
        /\ \A i \in DOMAIN fromBroker[c] : IsAck(c, i) => fromBroker[c][i].of \in Subscriber
    BY <1>1, <1>2, Kinds DEF Typed, IsAck, q
  <2>2. /\ \A i \in DOMAIN q : q[i].type = "Subscribe" => q[i].of # s
        /\ \A i \in DOMAIN fromBroker[c] : IsAck(c, i) => fromBroker[c][i].of # s
    BY <1>1 DEF At, AcksAt, IsAck, q
  <2>3. \A i \in DOMAIN q : q[i].type = "Subscribe" => status'[q[i].of] = status[q[i].of]
    BY <2>1, <2>2, <1>12
  <2>4. \A i \in DOMAIN fromBroker[c] : IsAck(c, i) => status'[fromBroker[c][i].of] = status[fromBroker[c][i].of]
    BY <2>1, <2>2, <1>12
  <2>5. CASE toBroker'[c] = q
    BY <2>3, <2>4, <2>5, <1>1, <1>3 DEF At, AcksAt, IsAck, q
  <2>6. CASE toBroker'[c] = Append(q, x)
    <3>1. x.type # "Subscribe"
      BY DEF x
    <3> QED BY <3>1, <2>2, <2>3, <2>4, <2>6, <1>1, <1>3, <1>8 DEF At, AcksAt, IsAck, q
  <2> QED BY <2>5, <2>6, <1>14
<1>19. listener[c] = 1 => Items(b) = {s}
  BY <1>2, <1>5 DEF Items
<1>20. RouteAt(c)'
  <2>1. (c \in Items(subscriptions))' <=> c \in Items(subscriptions)
    BY <1>3 DEF Items
  <2>2. listener[c] \in Nat \ {0}
    BY <1>2, <1>5 DEF Typed
  <2>3. CASE listener[c] # 1 /\ toBroker'[c] = q
    BY <2>1, <2>2, <2>3, <1>1, <1>3, <1>15 DEF At, RouteAt, Asked, q
  <2>4. CASE listener[c] = 1 /\ toBroker'[c] = Append(q, x)
    <3>1. x.type = "Unsubscribe"
      BY DEF x
    <3>2. ~Asked(c, "Subscribe")
      <4>1. SUFFICES ASSUME NEW i \in DOMAIN toBroker[c], toBroker[c][i].type = "Subscribe" PROVE FALSE
        BY DEF Asked
      <4>2. /\ OwnerOf[toBroker[c][i].of] = c /\ status[toBroker[c][i].of] = "subscribing"
            /\ toBroker[c][i].of \in Subscriber
        BY <4>1, <1>1, <1>2 DEF At, AcksAt, Typed, ChannelRequest
      <4>3. toBroker[c][i].of \in Items(b)
        BY <4>2, <1>1 DEF At, CallbacksAt, b
      <4> QED BY <4>2, <4>3, <2>4, <1>1, <1>19
    <3>3. ~Asked(c, "Unsubscribe") /\ c \in Items(subscriptions)
      BY <3>2, <2>4, <1>1 DEF At, RouteAt
    <3>4. ~Asked(c, "Subscribe")' /\ Asked(c, "Unsubscribe")'
      BY <3>1, <3>2, <2>4, <1>8 DEF Asked, q
    <3>5. \A i, j \in DOMAIN toBroker'[c] :
            toBroker'[c][i].type = "Unsubscribe" /\ toBroker'[c][j].type = "Unsubscribe" => i = j
      BY <3>1, <3>3, <2>4, <1>8 DEF Asked, q
    <3>6. \A i \in DOMAIN toBroker'[c] : toBroker'[c][i].type # "Subscribe"
      BY <3>4 DEF Asked
    <3> QED BY <3>3, <3>4, <3>5, <3>6, <2>1, <2>4, <1>1, <1>3, <1>15 DEF At, RouteAt
  <2> QED BY <2>3, <2>4, <1>14
<1>21. ASSUME NEW t \in Subscriber, OwnerOf[t] = c PROVE Of(t)'
  <2>1. Of(t)
    BY DEF ChannelInv
  <2>2. Looping(t)' => Looping(t)
    <3>1. SUFFICES ASSUME at[c] > 0, NEW k \in DOMAIN callbacks'[c], k >= at[c], callbacks'[c][k] = t
                   PROVE  \E j \in DOMAIN b : j >= at[c] /\ b[j] = t
      BY <1>3, <1>21 DEF Looping, b
    <3>2. at[c] \in Nat
      BY <1>1 DEF Typed
    <3>3. k \in 1 .. Len(b) - 1
      BY <1>7
    <3>4. k \in DOMAIN b /\ k + 1 \in DOMAIN b
      BY <3>3, <1>5
    <3>5. b[k] = t \/ (b[k + 1] = t /\ k + 1 >= at[c])
      <4>1. CASE k < n
        BY <4>1, <3>1, <1>7
      <4>2. CASE ~(k < n)
        <5>1. callbacks'[c][k] = b[k + 1]
          BY <4>2, <1>7
        <5>2. k + 1 >= at[c]
          BY <3>1, <3>2, <3>3, <1>5
        <5> QED BY <5>1, <5>2, <3>1
      <4> QED BY <4>1, <4>2
    <3> QED BY <3>1, <3>4, <3>5
  <2>3. GotBy(t)'
    <3>1. \A i : Due(t, i)' => Due(t, i)
      BY <2>2, <1>1, <1>3, <1>21, StaysDue
    <3> QED BY <3>1, <2>1, <1>3, <1>6, <1>12, <1>21 DEF Of, GotBy, b
  <2>4. RoutedSince(t)'
    <3>1. CASE t = s
      <4>1. published' \in Nat
        BY <1>9 DEF Typed
      <4> QED BY <3>1, <4>1, <1>12 DEF RoutedSince, Unrouted
    <3>2. CASE t # s /\ listener[c] = 1
      <4>1. since'[t] = Unrouted
        BY <3>2, <2>1, <1>1, <1>12, <1>19, <1>21 DEF Of, RoutedSince, b
      <4>2. published' \in Nat
        BY <1>9 DEF Typed
      <4> QED BY <4>1, <4>2 DEF RoutedSince, Unrouted
    <3>3. CASE t # s /\ toBroker'[c] = q
      <4>1. Routed(c)' <=> Routed(c)
        BY <3>3, <1>3 DEF Routed, Asked, q
      <4> QED BY <3>3, <4>1, <2>1, <1>3, <1>6, <1>12, <1>21 DEF Of, RoutedSince, b
    <3> QED BY <3>1, <3>2, <3>3, <1>14
  <2>5. NothingMissed(t)'
    <3>1. CASE t = s
      BY <3>1, <1>12 DEF NothingMissed
    <3>2. CASE t # s
      <4>1. Looping(t) => Looping(t)' \/ t \in skipped'
        <5>1. SUFFICES ASSUME at[c] > 0, NEW k \in DOMAIN b, k >= at[c], b[k] = t
                       PROVE  \/ t \in skipped'
                              \/ \E j \in DOMAIN callbacks'[c] : j >= at[c] /\ callbacks'[c][j] = t
          BY <1>3, <1>21 DEF Looping, b
        <5>2. k # n /\ k \in 1 .. Len(b) /\ n \in 1 .. Len(b) /\ at[c] \in Nat /\ Len(b) \in Nat
          BY <5>1, <3>2, <1>1, <1>5 DEF Typed
        <5>3. CASE k < n
          <6>1. k \in 1 .. Len(b) - 1
            BY <5>2, <5>3
          <6> QED BY <6>1, <5>1, <5>3, <1>7
        <5>4. CASE k > n /\ k = at[c]
          BY <5>1, <5>4, <1>3 DEF n
        <5>5. CASE k > n /\ k # at[c]
          <6>1. k - 1 \in 1 .. Len(b) - 1 /\ k - 1 >= at[c] /\ ~(k - 1 < n) /\ (k - 1) + 1 = k
            BY <5>1, <5>2, <5>5
          <6> QED BY <6>1, <5>1, <1>7
        <5> QED BY <5>2, <5>3, <5>4, <5>5
      <4>2. t \in skipped => t \in skipped'
        BY <3>2, <1>3
      <4>3. t \notin skipped' => \A i : Due(t, i) => Due(t, i)'
        BY <4>1, <1>1, <1>3, <1>21, StaysDue
      <4> QED BY <3>2, <4>2, <4>3, <2>1, <1>3, <1>12, <1>21 DEF Of, NothingMissed, Arrived, OnItsWay
    <3> QED BY <3>1, <3>2
  <2> QED BY <2>3, <2>4, <2>5 DEF Of
<1> QED BY <1>1, <1>3, <1>9, <1>10, <1>13, <1>16, <1>17, <1>18, <1>20, <1>21, OneClient DEF At


LEMMA PublishInv ==
  ASSUME ChannelAssumption, ChannelInv, NEW c \in Client, Publish(c)
  PROVE  ChannelInv'
<1> DEFINE q == toBroker[c]
           x == [type |-> "Publish"]
<1>1. Typed /\ RouteList /\ At(c) /\ c \in alive /\ q \in Seq(ChannelRequest) /\ x \in ChannelRequest
  BY DEF ChannelInv, Publish, MayCall, Typed, ChannelRequest
<1>2. /\ toBroker' = [toBroker EXCEPT ![c] = Append(q, x)]
      /\ UNCHANGED <<connections, subscriptions, subscribed, published, alive, listener, callbacks, status,
                     at, reading, buffered, rest, handled, thrown, delivered, since, skipped, fromBroker>>
  BY DEF Publish, Asks, serverVars, channelVars, loopVars, feedVars
<1>3. /\ Append(q, x) \in Seq(ChannelRequest)
      /\ DOMAIN Append(q, x) = DOMAIN q \cup {Len(q) + 1}
      /\ DOMAIN q = 1 .. Len(q) /\ Len(q) \in Nat
      /\ \A i \in DOMAIN q : Append(q, x)[i] = q[i]
      /\ Append(q, x)[Len(q) + 1] = x
  BY <1>1, Appended
<1>4. x.type = "Publish"
  OBVIOUS
<1>5. toBroker'[c] = Append(q, x)
  BY <1>1, <1>2 DEF Typed
<1>6. Typed'
  <2>1. toBroker' \in [Client -> Seq(ChannelRequest)]
    BY <1>1, <1>2, <1>3 DEF Typed
  <2> QED BY <2>1, <1>1, <1>2 DEF Typed
<1>7. RouteList'
  BY <1>1, <1>2 DEF RouteList, Items, Distinct
<1>8. ASSUME NEW d \in Client \ {c} PROVE SameAt(d)
  BY <1>1, <1>2 DEF Typed, SameAt, Items
<1>9. ~Asked(c, "Subscribe")' <=> ~Asked(c, "Subscribe")
  BY <1>3, <1>4, <1>5 DEF Asked
<1>10. ~Asked(c, "Unsubscribe")' <=> ~Asked(c, "Unsubscribe")
  BY <1>3, <1>4, <1>5 DEF Asked
<1> HIDE DEF x
<1>11. At(c)'
  <2>1. EndedAt(c)' /\ CallbacksAt(c)' /\ ReadAt(c)' /\ InLineAt(c)'
    BY <1>1, <1>2 DEF At, EndedAt, CallbacksAt, ReadAt, InLineAt, IsMessage, RouteList
  <2>2. AcksAt(c)'
    BY <1>1, <1>2, <1>3, <1>4, <1>5 DEF At, AcksAt, IsAck
  <2>3. /\ \A i, j \in DOMAIN toBroker'[c] :
            toBroker'[c][i].type = "Subscribe" /\ toBroker'[c][j].type # "Publish" => j <= i
        /\ \A i, j \in DOMAIN toBroker'[c] :
            toBroker'[c][i].type = "Unsubscribe" /\ toBroker'[c][j].type = "Unsubscribe" => i = j
    BY <1>1, <1>3, <1>4, <1>5 DEF At, RouteAt
  <2>4. RouteAt(c)'
    BY <1>1, <1>2, <1>9, <1>10, <2>3 DEF At, RouteAt, Items
  <2> QED BY <2>1, <2>2, <2>4 DEF At
<1>12. ASSUME NEW t \in Subscriber, OwnerOf[t] = c PROVE Of(t)'
  <2>1. Of(t)
    BY DEF ChannelInv
  <2>2. Routed(c)' <=> Routed(c)
    BY <1>2, <1>9, <1>10 DEF Routed
  <2>3. GotBy(t)' /\ NothingMissed(t)'
    BY <2>1, <1>2 DEF Of, GotBy, NothingMissed, Due, Ahead, Looping, Arrived, OnItsWay
  <2>4. RoutedSince(t)'
    BY <2>1, <2>2, <1>2, <1>12 DEF Of, RoutedSince
  <2> QED BY <2>3, <2>4 DEF Of
<1> QED BY <1>2, <1>6, <1>7, <1>8, <1>11, <1>12, OneClient
(* The items of c are those that were behind the first k.                  *)
Behind(c, k) ==
  /\ \A i \in DOMAIN fromBroker'[c] :
       i \in Nat /\ i >= 1 /\ i + k \in DOMAIN fromBroker[c] /\ fromBroker'[c][i] = fromBroker[c][i + k]
  /\ \A i \in DOMAIN fromBroker[c] :
       i > k => i - k \in DOMAIN fromBroker'[c] /\ fromBroker'[c][i - k] = fromBroker[c][i]

(* A subscription whose ack is handled waits for nothing any more.         *)
Answered(c, t) ==
  /\ status[t] = "subscribing" /\ status'[t] = "active"
  /\ \A i \in DOMAIN fromBroker'[c] : IsAck(c, i)' => fromBroker'[c][i].of # t
  /\ \A i \in DOMAIN toBroker[c] : toBroker[c][i].type = "Subscribe" => toBroker[c][i].of # t

(* feed goes on, lets go of k items, or begins again in the next pass: in  *)
(* the same pass nothing becomes due again, and what is due no more is     *)
(* skipped.                                                                *)
LEMMA FeedGoesOn ==
  ASSUME ChannelAssumption, ChannelInv, NEW c \in Client, c \in alive, NEW k \in Nat, Behind(c, k),
         UNCHANGED <<connections, subscriptions, subscribed, published, alive, listener, callbacks,
                     delivered, since, toBroker>>,
         Typed', \A d \in Client \ {c} : SameAt(d),
         ReadAt(c)', at'[c] <= Cardinality(Subscriber) + 1, handled[c] <= handled'[c] + k,
         \A t \in Subscriber : OwnerOf[t] = c => status'[t] = status[t] \/ Answered(c, t),
         skipped \subseteq skipped', thrown[c] <= thrown'[c],
         \A t \in Subscriber : OwnerOf[t] = c /\ thrown'[c] = thrown[c] => \A i : Due(t, i)' => Due(t, i + k),
         \A t \in Items(callbacks[c]) : \A i : Due(t, i) => t \in skipped' \/ (i > k /\ Due(t, i - k)')
  PROVE  ChannelInv'
<1>1. /\ Typed /\ RouteList /\ At(c) /\ handled[c] \in Nat /\ handled'[c] \in Nat /\ thrown[c] \in Nat
      /\ thrown'[c] \in Nat /\ published \in Nat
  BY DEF ChannelInv, Typed
<1>2. RouteList'
  BY <1>1 DEF RouteList, Items, Distinct
<1>3. At(c)'
  <2>1. EndedAt(c)' /\ RouteAt(c)'
    BY <1>1 DEF At, EndedAt, RouteAt, RouteList, Asked, Items
  <2>2. CallbacksAt(c)'
    <3>1. Items(callbacks[c]) \subseteq Subscriber
      BY <1>1 DEF Typed, Items
    <3>2. \A t \in Subscriber : OwnerOf[t] = c =>
            (status'[t] \in {"subscribing", "active"} <=> status[t] \in {"subscribing", "active"})
      BY DEF Answered
    <3> QED BY <3>1, <3>2, <1>1 DEF At, CallbacksAt
  <2>3. AcksAt(c)'
    <3>1. \A i \in DOMAIN fromBroker'[c] : IsAck(c, i)' =>
            IsAck(c, i + k) /\ i + k \in DOMAIN fromBroker[c] /\ fromBroker'[c][i] = fromBroker[c][i + k]
      <4>1. SUFFICES ASSUME NEW i \in DOMAIN fromBroker'[c], IsAck(c, i)' PROVE IsAck(c, i + k)
        BY DEF Behind
      <4>2. i \in Nat /\ i + k \in DOMAIN fromBroker[c] /\ fromBroker'[c][i] = fromBroker[c][i + k]
        BY DEF Behind
      <4>3. i + k > handled[c]
        BY <4>1, <4>2, <1>1 DEF IsAck
      <4> QED BY <4>1, <4>2, <4>3 DEF IsAck
    <3>2. \A i \in DOMAIN toBroker[c] : toBroker[c][i].type = "Subscribe" =>
            /\ toBroker[c][i].of \in Subscriber
            /\ OwnerOf[toBroker[c][i].of] = c /\ status'[toBroker[c][i].of] = "subscribing"
            /\ \A j \in DOMAIN fromBroker'[c] : IsAck(c, j)' => fromBroker'[c][j].of # toBroker[c][i].of
      <4>1. toBroker[c] \in Seq(ChannelRequest)
        BY <1>1 DEF Typed
      <4>2. SUFFICES ASSUME NEW i \in DOMAIN toBroker[c], toBroker[c][i].type = "Subscribe"
                     PROVE  /\ toBroker[c][i].of \in Subscriber
                            /\ OwnerOf[toBroker[c][i].of] = c /\ status'[toBroker[c][i].of] = "subscribing"
                            /\ \A j \in DOMAIN fromBroker'[c] : IsAck(c, j)' => fromBroker'[c][j].of # toBroker[c][i].of
        OBVIOUS
      <4>3. toBroker[c][i].of \in Subscriber
        BY <4>1, <4>2, Kinds
      <4>4. /\ OwnerOf[toBroker[c][i].of] = c /\ status[toBroker[c][i].of] = "subscribing"
            /\ \A j \in DOMAIN fromBroker[c] : IsAck(c, j) => fromBroker[c][j].of # toBroker[c][i].of
        BY <4>2, <1>1 DEF At, AcksAt
      <4> QED BY <4>2, <4>3, <4>4, <3>1 DEF Answered
    <3>3. \A i \in DOMAIN fromBroker'[c] : IsAck(c, i)' =>
            /\ OwnerOf[fromBroker'[c][i].of] = c /\ status'[fromBroker'[c][i].of] = "subscribing"
            /\ \A j \in DOMAIN fromBroker'[c] :
                 IsAck(c, j)' /\ fromBroker'[c][j].of = fromBroker'[c][i].of => i = j
      <4>1. SUFFICES ASSUME NEW i \in DOMAIN fromBroker'[c], IsAck(c, i)'
                     PROVE  /\ OwnerOf[fromBroker'[c][i].of] = c /\ status'[fromBroker'[c][i].of] = "subscribing"
                            /\ \A j \in DOMAIN fromBroker'[c] :
                                 IsAck(c, j)' /\ fromBroker'[c][j].of = fromBroker'[c][i].of => i = j
        OBVIOUS
      <4>2. IsAck(c, i + k) /\ i + k \in DOMAIN fromBroker[c] /\ fromBroker'[c][i] = fromBroker[c][i + k]
        BY <4>1, <3>1
      <4>3. /\ OwnerOf[fromBroker[c][i + k].of] = c /\ status[fromBroker[c][i + k].of] = "subscribing"
            /\ \A j \in DOMAIN fromBroker[c] :
                 IsAck(c, j) /\ fromBroker[c][j].of = fromBroker[c][i + k].of => i + k = j
        BY <4>2, <1>1 DEF At, AcksAt
      <4>4. fromBroker[c][i + k].of \in Subscriber
        <5>1. fromBroker[c] \in Seq(ChannelAnswer)
          BY <1>1 DEF Typed
        <5> QED BY <5>1, <4>2, Kinds DEF IsAck
      <4>5. status'[fromBroker'[c][i].of] = "subscribing"
        BY <4>1, <4>2, <4>3, <4>4 DEF Answered
      <4>6. ASSUME NEW j \in DOMAIN fromBroker'[c], IsAck(c, j)', fromBroker'[c][j].of = fromBroker'[c][i].of
            PROVE  i = j
        <5>1. i + k = j + k
          BY <4>2, <4>3, <4>6, <3>1
        <5>2. i \in Nat /\ j \in Nat
          BY DEF Behind
        <5> QED BY <5>1, <5>2
      <4> QED BY <4>2, <4>3, <4>5, <4>6
    <3> QED BY <3>2, <3>3 DEF AcksAt
  <2>4. InLineAt(c)'
    <3>1. /\ \A i \in DOMAIN fromBroker'[c] : IsMessage(c, i)' =>
               IsMessage(c, i + k) /\ i + k \in DOMAIN fromBroker[c] /\ fromBroker'[c][i] = fromBroker[c][i + k]
          /\ \A i, j \in DOMAIN fromBroker'[c] : i < j => i + k < j + k
      BY DEF IsMessage, Behind
    <3> QED BY <3>1, <1>1 DEF At, InLineAt
  <2> QED BY <2>1, <2>2, <2>3, <2>4 DEF At
<1>4. ASSUME NEW t \in Subscriber, OwnerOf[t] = c PROVE Of(t)'
  <2>1. Of(t)
    BY DEF ChannelInv
  <2>2. Routed(c)' <=> Routed(c)
    BY DEF Routed, Asked
  <2>3. GotBy(t)'
    <3>1. \A n \in DOMAIN delivered[t] : delivered[t][n].pass <= thrown[c] /\ delivered[t][n].pass \in Nat
      <4>1. delivered[t] \in Seq(Delivery)
        BY <1>1 DEF Typed
      <4>2. \A n \in DOMAIN delivered[t] : delivered[t][n] \in Delivery
        BY <4>1
      <4> QED BY <4>2, <2>1, <1>4 DEF Of, GotBy, Delivery
    <3>2. \A n \in DOMAIN delivered[t] : delivered[t][n].pass <= thrown'[c]
      BY <3>1, <1>1
    <3>3. status'[t] = "new" => status[t] = "new"
      BY <1>4 DEF Answered
    <3>4. ASSUME t \in Items(callbacks[c]), NEW i \in DOMAIN fromBroker'[c], NEW n \in DOMAIN delivered[t],
                 Due(t, i)', delivered[t][n].pass = thrown'[c]
          PROVE  delivered[t][n].v < fromBroker'[c][i].v
      <4>1. thrown'[c] = thrown[c]
        BY <3>1, <3>4, <1>1
      <4>2. Due(t, i + k) /\ i + k \in DOMAIN fromBroker[c] /\ fromBroker'[c][i] = fromBroker[c][i + k]
        BY <4>1, <3>4, <1>4 DEF Behind
      <4> QED BY <4>1, <4>2, <3>4, <2>1, <1>4 DEF Of, GotBy
    <3> QED BY <3>2, <3>3, <3>4, <2>1, <1>4 DEF Of, GotBy
  <2>4. RoutedSince(t)'
    BY <2>1, <2>2, <1>4 DEF Of, RoutedSince
  <2>5. NothingMissed(t)'
    <3>1. SUFFICES ASSUME t \notin skipped', since[t] # Unrouted,
                          NEW m \in Nat, since[t] < m, m <= published
                   PROVE  Arrived(t, m)' \/ OnItsWay(t, m)'
      BY <1>4 DEF NothingMissed
    <3>2. t \in Items(callbacks[c]) /\ t \notin skipped
      BY <3>1, <2>1, <1>4 DEF Of, RoutedSince
    <3>3. Arrived(t, m) \/ OnItsWay(t, m)
      BY <3>1, <3>2, <2>1, <1>4 DEF Of, NothingMissed
    <3>4. ASSUME OnItsWay(t, m) PROVE OnItsWay(t, m)'
      <4>1. PICK i \in DOMAIN fromBroker[c] : Due(t, i) /\ fromBroker[c][i].v = m
        BY <3>4, <1>4 DEF OnItsWay
      <4>2. i > k /\ Due(t, i - k)'
        BY <4>1, <3>1, <3>2
      <4>3. i - k \in DOMAIN fromBroker'[c] /\ fromBroker'[c][i - k] = fromBroker[c][i]
        BY <4>2 DEF Behind
      <4> QED BY <4>1, <4>2, <4>3, <1>4 DEF OnItsWay
    <3>5. Arrived(t, m) => Arrived(t, m)'
      BY DEF Arrived
    <3> QED BY <3>3, <3>4, <3>5
  <2> QED BY <2>3, <2>4, <2>5 DEF Of
<1> QED BY <1>2, <1>3, <1>4, OneClient

(* Whatever feed had in hand is gone, or all of it is still there.         *)
LEMMA ItemsKept ==
  ASSUME ChannelInv, NEW c \in Client, fromBroker' = fromBroker
  PROVE  Behind(c, 0)
<1>1. fromBroker[c] \in Seq(ChannelAnswer)
  BY DEF ChannelInv, Typed
<1>2. \A i \in DOMAIN fromBroker[c] : i \in Nat /\ i >= 1 /\ i + 0 = i /\ i - 0 = i
  BY <1>1
<1> QED BY <1>2 DEF Behind

LEMMA ItemsConsumed ==
  ASSUME ChannelInv, NEW c \in Client, Consumed(c)
  PROVE  /\ Behind(c, buffered[c])
         /\ fromBroker' \in [Client -> Seq(ChannelAnswer)]
         /\ reading' \in [Client -> Nat] /\ buffered' \in [Client -> Nat]
         /\ rest' \in [Client -> BOOLEAN] /\ handled' \in [Client -> Nat]
         /\ reading'[c] = 0 /\ buffered'[c] = 0 /\ handled'[c] = 0 /\ Len(fromBroker'[c]) \in Nat
         /\ \A d \in Client \ {c} : /\ fromBroker'[d] = fromBroker[d] /\ reading'[d] = reading[d]
                                    /\ buffered'[d] = buffered[d] /\ handled'[d] = handled[d]
<1> DEFINE q == fromBroker[c]
           n == buffered[c]
<1>1. /\ fromBroker \in [Client -> Seq(ChannelAnswer)] /\ q \in Seq(ChannelAnswer) /\ n \in 0 .. Len(q)
      /\ reading \in [Client -> Nat] /\ buffered \in [Client -> Nat]
      /\ rest \in [Client -> BOOLEAN] /\ handled \in [Client -> Nat]
  BY DEF ChannelInv, Typed, At, ReadAt
<1>2. fromBroker' = [fromBroker EXCEPT ![c] = SubSeq(q, n + 1, Len(q))]
  BY DEF Consumed
<1> DEFINE r == SubSeq(q, n + 1, Len(q))
<1>3. /\ r \in Seq(ChannelAnswer) /\ Len(r) = Len(q) - n /\ DOMAIN r = 1 .. Len(q) - n
      /\ DOMAIN q = 1 .. Len(q) /\ Len(q) \in Nat
      /\ \A i \in 1 .. Len(q) - n : r[i] = q[i + n]
  <2> HIDE DEF q, n
  <2> QED BY <1>1, Cut
<1> HIDE DEF r
<1>4. fromBroker'[c] = r /\ fromBroker' \in [Client -> Seq(ChannelAnswer)]
      /\ \A d \in Client \ {c} : fromBroker'[d] = fromBroker[d]
  BY <1>1, <1>2, <1>3 DEF r
<1>5. Behind(c, n)
  <2>1. \A i \in DOMAIN r : i \in Nat /\ i >= 1 /\ i + n \in DOMAIN q /\ r[i] = q[i + n]
    <3> HIDE DEF q, n
    <3>1. n \in Nat /\ n <= Len(q)
      BY <1>1
    <3> QED BY <3>1, <1>3
  <2>2. ASSUME NEW i \in DOMAIN q, i > n PROVE i - n \in DOMAIN r /\ r[i - n] = q[i]
    <3>1. i - n \in 1 .. Len(q) - n /\ (i - n) + n = i
      BY <2>2, <1>1, <1>3
    <3> QED BY <3>1, <1>3
  <2> QED BY <2>1, <2>2, <1>4 DEF Behind
<1>6. /\ reading' \in [Client -> Nat] /\ buffered' \in [Client -> Nat]
      /\ rest' \in [Client -> BOOLEAN] /\ handled' \in [Client -> Nat]
      /\ reading'[c] = 0 /\ buffered'[c] = 0 /\ handled'[c] = 0
      /\ \A d \in Client \ {c} : reading'[d] = reading[d] /\ buffered'[d] = buffered[d] /\ handled'[d] = handled[d]
  BY <1>1 DEF Consumed
<1>7. Len(fromBroker'[c]) \in Nat
  BY <1>3, <1>4
<1> QED BY <1>4, <1>5, <1>6, <1>7

(* Data has come: all that feed has of it is due. *)
LEMMA OnDataInv ==
  ASSUME ChannelAssumption, ChannelInv, NEW c \in Client, OnData(c)
  PROVE  ChannelInv'
<1>1. /\ Typed /\ At(c) /\ reading[c] = 0 /\ at[c] \in Nat /\ handled[c] \in Nat /\ buffered[c] \in Nat
      /\ thrown[c] \in Nat /\ fromBroker[c] \in Seq(ChannelAnswer) /\ Cardinality(Subscriber) \in Nat
  BY FS_CardinalityType DEF ChannelInv, Typed, OnData, ChannelAssumption
<1>2. UNCHANGED <<connections, subscriptions, subscribed, published, alive, listener, callbacks, status,
                  at, handled, thrown, delivered, since, skipped, toBroker, fromBroker>>
  BY DEF OnData, serverVars, channelVars
<1>3. PICK n \in buffered[c] .. Len(fromBroker[c]), more \in BOOLEAN :
        n > 0 /\ buffered' = [buffered EXCEPT ![c] = n] /\ rest' = [rest EXCEPT ![c] = more]
  BY DEF OnData
<1>4. reading' = [reading EXCEPT ![c] = 1]
  BY DEF OnData
<1>5. n \in Nat /\ n >= 1 /\ buffered[c] <= n /\ n <= Len(fromBroker[c]) /\ DOMAIN fromBroker[c] = 1 .. Len(fromBroker[c])
  BY <1>1, <1>3
<1>6. reading'[c] = 1 /\ buffered'[c] = n
  BY <1>1, <1>3, <1>4 DEF Typed
<1>7. at[c] = 0
  <2>1. ~IsMessage(c, 0)
    BY <1>5 DEF IsMessage
  <2> QED BY <2>1, <1>1 DEF At, ReadAt
<1>8. c \in alive
  <2>1. fromBroker[c] # <<>>
    BY <1>5
  <2> QED BY <2>1, <1>1 DEF At, EndedAt
<1>9. Typed'
  <2>1. reading' \in [Client -> Nat] /\ buffered' \in [Client -> Nat] /\ rest' \in [Client -> BOOLEAN]
    BY <1>1, <1>3, <1>4, <1>5 DEF Typed
  <2> QED BY <2>1, <1>1, <1>2 DEF Typed
<1>10. ASSUME NEW d \in Client \ {c} PROVE SameAt(d)
  BY <1>1, <1>2, <1>3, <1>4 DEF Typed, SameAt, Items
<1>11. ReadAt(c)'
  BY <1>1, <1>2, <1>5, <1>6, <1>7 DEF At, ReadAt
<1>12. Behind(c, 0)
  BY <1>2, ItemsKept
<1>13. ASSUME NEW t \in Subscriber, OwnerOf[t] = c, NEW i PROVE Due(t, i)' <=> Due(t, i)
  <2>1. i \in DOMAIN fromBroker[c] => i > 0 /\ (i > 1 \/ i = 1)
    BY <1>1
  <2> QED BY <2>1, <1>1, <1>2, <1>6, <1>7, <1>13 DEF Due, Ahead
<1>14. \A t \in Subscriber : OwnerOf[t] = c => \A i : Due(t, i)' => Due(t, i + 0)
  <2>1. \A t, i : Due(t, i)' /\ OwnerOf[t] = c => i + 0 = i
    BY <1>1, <1>2 DEF Due
  <2> QED BY <2>1, <1>13
<1>15. \A t \in Items(callbacks[c]) : \A i : Due(t, i) => i > 0 /\ Due(t, i - 0)'
  <2>1. \A t \in Items(callbacks[c]) : t \in Subscriber /\ OwnerOf[t] = c
    BY <1>1 DEF Typed, At, CallbacksAt, Items
  <2>2. \A t, i : Due(t, i) /\ OwnerOf[t] = c => i - 0 = i /\ i > 0
    <3>1. \A i \in DOMAIN fromBroker[c] : i - 0 = i /\ i > 0
      BY <1>1
    <3> QED BY <3>1 DEF Due
  <2> QED BY <2>1, <2>2, <1>13
<1>16. handled[c] <= handled'[c] + 0 /\ at'[c] <= Cardinality(Subscriber) + 1 /\ thrown[c] <= thrown'[c]
  BY <1>1, <1>2, <1>7
<1> QED BY <1>2, <1>8, <1>9, <1>10, <1>11, <1>12, <1>14, <1>15, <1>16, FeedGoesOn

(* The loop begins: the message is due to those who have a callback. *)
LEMMA OnMessageInv ==
  ASSUME ChannelAssumption, ChannelInv, NEW c \in Client, OnMessage(c)
  PROVE  ChannelInv'
<1>1. /\ Typed /\ At(c) /\ reading[c] \in Nat /\ reading[c] > 0 /\ at[c] = 0 /\ handled[c] \in Nat /\ buffered[c] \in Nat
      /\ thrown[c] \in Nat /\ fromBroker[c] \in Seq(ChannelAnswer) /\ Cardinality(Subscriber) \in Nat
      /\ fromBroker[c][reading[c]].type = "Message"
  BY FS_CardinalityType DEF ChannelInv, Typed, OnMessage, Handles, ChannelAssumption
<1>2. /\ UNCHANGED <<connections, subscriptions, subscribed, published, alive, listener, callbacks, status,
                     reading, buffered, rest, handled, thrown, delivered, since, skipped, toBroker, fromBroker>>
      /\ at' = [at EXCEPT ![c] = 1]
  BY DEF OnMessage, serverVars, channelVars, feedVars
<1>3. reading[c] \in DOMAIN fromBroker[c] /\ at'[c] = 1
  BY <1>1, <1>2 DEF At, ReadAt, Typed
<1>4. c \in alive
  BY <1>1 DEF At, EndedAt
<1>5. Typed'
  <2>1. at' \in [Client -> Nat]
    BY <1>1, <1>2 DEF Typed
  <2> QED BY <2>1, <1>1, <1>2 DEF Typed
<1>6. ASSUME NEW d \in Client \ {c} PROVE SameAt(d)
  BY <1>1, <1>2 DEF Typed, SameAt, Items
<1>7. ReadAt(c)'
  BY <1>1, <1>2, <1>3 DEF At, ReadAt, IsMessage
<1>8. Behind(c, 0)
  BY <1>2, ItemsKept
<1>9. ASSUME NEW t \in Subscriber, OwnerOf[t] = c, NEW i
      PROVE  /\ Due(t, i)' => Due(t, i)
             /\ Due(t, i) /\ t \in Items(callbacks[c]) => Due(t, i)'
  <2>1. t \in Items(callbacks[c]) => Looping(t)'
    <3>1. \A k \in DOMAIN callbacks[c] : k >= 1
      BY <1>1 DEF Typed
    <3> QED BY <3>1, <1>2, <1>3, <1>9 DEF Looping, Items
  <2> QED BY <2>1, <1>1, <1>2, <1>3, <1>9 DEF Due, Ahead
<1>10. \A t \in Subscriber : OwnerOf[t] = c => \A i : Due(t, i)' => Due(t, i + 0)
  <2>1. \A t, i : Due(t, i)' /\ OwnerOf[t] = c => i + 0 = i
    BY <1>1, <1>2 DEF Due
  <2> QED BY <2>1, <1>9
<1>11. \A t \in Items(callbacks[c]) : \A i : Due(t, i) => i > 0 /\ Due(t, i - 0)'
  <2>1. \A t \in Items(callbacks[c]) : t \in Subscriber /\ OwnerOf[t] = c
    BY <1>1 DEF Typed, At, CallbacksAt, Items
  <2>2. \A t, i : Due(t, i) /\ OwnerOf[t] = c => i - 0 = i /\ i > 0
    <3>1. \A i \in DOMAIN fromBroker[c] : i - 0 = i /\ i > 0
      BY <1>1
    <3> QED BY <3>1 DEF Due
  <2> QED BY <2>1, <2>2, <1>9
<1>12. handled[c] <= handled'[c] + 0 /\ at'[c] <= Cardinality(Subscriber) + 1 /\ thrown[c] <= thrown'[c]
  BY <1>1, <1>2, <1>3
<1> QED BY <1>2, <1>4, <1>5, <1>6, <1>7, <1>8, <1>10, <1>11, <1>12, FeedGoesOn

(* On to the next one in hand: what has been handled is due no more.       *)
LEMMA Proceeds ==
  ASSUME ChannelAssumption, ChannelInv, NEW c \in Client, reading[c] > 0, Proceed(c),
         UNCHANGED <<connections, subscriptions, subscribed, published, alive, listener, callbacks,
                     thrown, delivered, since, skipped, toBroker>>,
         status' \in [Subscriber -> {"new", "subscribing", "active", "done"}],
         \A t \in Subscriber :
           \/ status'[t] = status[t]
           \/ /\ status'[t] = "active" /\ IsAck(c, reading[c]) /\ fromBroker[c][reading[c]].of = t,
         \A t \in Items(callbacks[c]) : ~Due(t, reading[c])
  PROVE  ChannelInv'
<1>0. Typed /\ At(c) /\ Cardinality(Subscriber) \in Nat
  BY FS_CardinalityType DEF ChannelInv, ChannelAssumption
<1>n. PICK n : n = reading[c]
  OBVIOUS
<1>k. PICK k : k = (IF n < buffered[c] THEN 0 ELSE buffered[c])
  OBVIOUS
<1>1. /\ Typed /\ At(c) /\ n \in Nat /\ n >= 1 /\ handled[c] \in Nat /\ buffered[c] \in Nat
      /\ thrown[c] \in Nat /\ fromBroker[c] \in Seq(ChannelAnswer) /\ Cardinality(Subscriber) \in Nat
      /\ toBroker[c] \in Seq(ChannelRequest)
  <2>1. reading[c] \in Nat /\ handled[c] \in Nat /\ buffered[c] \in Nat /\ thrown[c] \in Nat
    BY <1>0 DEF Typed
  <2>2. fromBroker[c] \in Seq(ChannelAnswer) /\ toBroker[c] \in Seq(ChannelRequest)
    BY <1>0 DEF Typed
  <2>3. reading[c] >= 1
    BY <2>1
  <2> QED BY <1>0, <1>n, <2>1, <2>2, <2>3
<1>2. /\ n \in DOMAIN fromBroker[c] /\ n <= buffered[c] /\ handled[c] <= buffered[c]
      /\ buffered[c] <= Len(fromBroker[c]) /\ Len(fromBroker[c]) \in Nat
      /\ \A i \in DOMAIN fromBroker[c] : i \in Nat /\ i >= 1
  BY <1>1, <1>n DEF At, ReadAt
<1>3. c \in alive
  BY <1>1, <1>2 DEF At, EndedAt
<1>4. at' = [at EXCEPT ![c] = 0] /\ at' \in [Client -> Nat] /\ at'[c] = 0
  BY <1>1 DEF Proceed, Typed
<1>5. /\ Behind(c, k) /\ k \in Nat
      /\ fromBroker' \in [Client -> Seq(ChannelAnswer)]
      /\ reading' \in [Client -> Nat] /\ buffered' \in [Client -> Nat]
      /\ rest' \in [Client -> BOOLEAN] /\ handled' \in [Client -> Nat]
      /\ reading'[c] <= buffered'[c] /\ handled'[c] <= buffered'[c] /\ buffered'[c] <= Len(fromBroker'[c])
      /\ handled[c] <= handled'[c] + k /\ n <= handled'[c] + k /\ n < reading'[c] + k + 1
      /\ (k = 0 /\ reading'[c] = n + 1) \/ (k = n /\ reading'[c] = 0)
      /\ \A d \in Client \ {c} : /\ fromBroker'[d] = fromBroker[d] /\ reading'[d] = reading[d]
                                 /\ buffered'[d] = buffered[d] /\ handled'[d] = handled[d]
  <2>1. CASE n < buffered[c]
    <3>1. /\ reading' = [reading EXCEPT ![c] = @ + 1]
          /\ handled' = [handled EXCEPT ![c] = IF @ < n THEN n ELSE @]
          /\ UNCHANGED <<buffered, rest, fromBroker>>
      BY <2>1, <1>n DEF Proceed
    <3>2. /\ reading \in [Client -> Nat] /\ buffered \in [Client -> Nat] /\ rest \in [Client -> BOOLEAN]
          /\ handled \in [Client -> Nat] /\ fromBroker \in [Client -> Seq(ChannelAnswer)]
      BY <1>1 DEF Typed
    <3>3. k = 0 /\ Behind(c, 0)
      BY <2>1, <3>1, <1>k, ItemsKept
    <3>4. /\ reading' \in [Client -> Nat] /\ handled' \in [Client -> Nat]
          /\ reading'[c] = n + 1 /\ handled'[c] = IF handled[c] < n THEN n ELSE handled[c]
          /\ \A d \in Client \ {c} : reading'[d] = reading[d] /\ handled'[d] = handled[d]
      BY <3>1, <3>2, <1>1, <1>n
    <3> QED BY <2>1, <3>1, <3>2, <3>3, <3>4, <1>1, <1>2
  <2>2. CASE ~(n < buffered[c])
    <3>1. Consumed(c)
      BY <2>2, <1>n DEF Proceed
    <3>2. k = buffered[c] /\ k = n
      BY <2>2, <1>1, <1>2, <1>k
    <3>3. /\ Behind(c, k) /\ k \in Nat
          /\ fromBroker' \in [Client -> Seq(ChannelAnswer)]
          /\ reading' \in [Client -> Nat] /\ buffered' \in [Client -> Nat]
          /\ rest' \in [Client -> BOOLEAN] /\ handled' \in [Client -> Nat]
          /\ reading'[c] = 0 /\ buffered'[c] = 0 /\ handled'[c] = 0 /\ Len(fromBroker'[c]) \in Nat
          /\ \A d \in Client \ {c} : /\ fromBroker'[d] = fromBroker[d] /\ reading'[d] = reading[d]
                                     /\ buffered'[d] = buffered[d] /\ handled'[d] = handled[d]
      BY <3>1, <3>2, <1>1, ItemsConsumed
    <3>4. 0 <= Len(fromBroker'[c]) /\ handled[c] <= 0 + k /\ n <= 0 + k /\ n < 0 + k + 1
      BY <3>2, <3>3, <1>1, <1>2
    <3> QED BY <3>2, <3>3, <3>4
  <2> QED BY <2>1, <2>2
<1>6. Typed'
  BY <1>1, <1>4, <1>5 DEF Typed
<1>7. ReadAt(c)'
  BY <1>4, <1>5 DEF ReadAt
<1>8. \A t \in Subscriber : OwnerOf[t] = c => status'[t] = status[t] \/ Answered(c, t)
  <2>1. SUFFICES ASSUME NEW t \in Subscriber, status'[t] # status[t], IsAck(c, n), fromBroker[c][n].of = t,
                        status'[t] = "active"
                 PROVE  Answered(c, t)
    BY <1>n
  <2>2. /\ status[t] = "subscribing"
        /\ \A j \in DOMAIN fromBroker[c] : IsAck(c, j) /\ fromBroker[c][j].of = t => n = j
    BY <2>1, <1>1, <1>2 DEF At, AcksAt
  <2>3. ASSUME NEW i \in DOMAIN fromBroker'[c], IsAck(c, i)', fromBroker'[c][i].of = t
        PROVE  FALSE
    <3>1. i \in Nat /\ i + k \in DOMAIN fromBroker[c] /\ fromBroker'[c][i] = fromBroker[c][i + k]
      BY <1>5 DEF Behind
    <3>2. i > handled'[c] /\ handled'[c] \in Nat
      BY <2>3, <1>5 DEF IsAck
    <3>3. i + k > n /\ i + k > handled[c]
      <4>1. /\ i > handled'[c] /\ handled'[c] \in Nat /\ i \in Nat /\ k \in Nat
            /\ handled[c] <= handled'[c] + k /\ n <= handled'[c] + k /\ n \in Nat /\ handled[c] \in Nat
        BY <3>1, <3>2, <1>1, <1>5
      <4>2. \A x, y, z, w \in Nat : x > y /\ z <= y + w => x + w > z
        OBVIOUS
      <4> QED BY <4>1, <4>2
    <3>4. IsAck(c, i + k)
      BY <3>1, <3>3, <2>3 DEF IsAck
    <3>5. n = i + k
      BY <3>1, <3>4, <2>2, <2>3
    <3> QED BY <3>1, <3>3, <3>5, <1>1, <1>5
  <2>4. \A i \in DOMAIN toBroker[c] : toBroker[c][i].type = "Subscribe" => toBroker[c][i].of # t
    BY <2>1, <1>1, <1>2 DEF At, AcksAt
  <2> QED BY <2>1, <2>2, <2>3, <2>4 DEF Answered
<1>9. ASSUME NEW d \in Client \ {c} PROVE SameAt(d)
  <2>1. \A t \in Subscriber : OwnerOf[t] = d => status'[t] = status[t]
    <3>1. IsAck(c, n) => OwnerOf[fromBroker[c][n].of] = c
      BY <1>1, <1>2 DEF At, AcksAt
    <3> QED BY <3>1, <1>n
  <2>2. at'[d] = at[d]
    BY <1>1, <1>4 DEF Typed
  <2> QED BY <2>1, <2>2, <1>5 DEF SameAt, Items
<1>10. ASSUME NEW t \in Subscriber, OwnerOf[t] = c, NEW i, Due(t, i)' PROVE Due(t, i + k)
  <2>1. i \in DOMAIN fromBroker'[c] /\ fromBroker'[c][i].type = "Message" /\ (i > reading'[c] \/ i = reading'[c])
    BY <1>10 DEF Due, Ahead
  <2>2. i \in Nat /\ i >= 1 /\ i + k \in DOMAIN fromBroker[c] /\ fromBroker'[c][i] = fromBroker[c][i + k]
    BY <2>1, <1>5 DEF Behind
  <2>3. i + k > n
    BY <2>1, <2>2, <1>1, <1>5
  <2> QED BY <2>1, <2>2, <2>3, <1>10, <1>n DEF Due, Ahead
<1>11. ASSUME NEW t \in Items(callbacks[c]), NEW i, Due(t, i) PROVE i > k /\ Due(t, i - k)'
  <2>1. t \in Subscriber /\ OwnerOf[t] = c /\ i # n
    BY <1>1, <1>11, <1>n DEF Typed, At, CallbacksAt, Items
  <2>2. i \in DOMAIN fromBroker[c] /\ fromBroker[c][i].type = "Message" /\ (i > n \/ i = n)
    BY <2>1, <1>11, <1>n DEF Due, Ahead
  <2>3. i \in Nat /\ i > n
    BY <2>1, <2>2, <1>2
  <2>4. i > k /\ i - k \in Nat
    BY <2>3, <1>1, <1>5
  <2>5. i - k \in DOMAIN fromBroker'[c] /\ fromBroker'[c][i - k] = fromBroker[c][i]
    BY <2>2, <2>4, <1>5 DEF Behind
  <2>6. i - k > reading'[c] \/ i - k = reading'[c]
    BY <2>3, <2>4, <1>1, <1>5
  <2>j. PICK j : j = i - k
    OBVIOUS
  <2>7. j \in DOMAIN fromBroker'[c] /\ fromBroker'[c][j].type = "Message" /\ (j > reading'[c] \/ j = reading'[c])
    BY <2>2, <2>5, <2>6, <2>j
  <2>8. Due(t, j)'
    <3>1. Due(t, j)' <=> /\ j \in DOMAIN fromBroker'[c] /\ fromBroker'[c][j].type = "Message"
                         /\ j > reading'[c] \/ (j = reading'[c] /\ (at'[c] = 0 \/ Looping(t)'))
      BY <2>1 DEF Due, Ahead
    <3> QED BY <3>1, <2>7, <1>4
  <2> QED BY <2>4, <2>8, <2>j
<1>12. at'[c] <= Cardinality(Subscriber) + 1 /\ thrown[c] <= thrown'[c] /\ skipped \subseteq skipped'
  BY <1>1, <1>4
<1> QED BY <1>3, <1>5, <1>6, <1>7, <1>8, <1>9, <1>10, <1>11, <1>12, FeedGoesOn

LEMMA OnAckInv ==
  ASSUME ChannelAssumption, ChannelInv, NEW c \in Client, OnAck(c)
  PROVE  ChannelInv'
<1>1. /\ Typed /\ At(c) /\ reading[c] \in Nat /\ reading[c] > 0 /\ reading[c] > handled[c]
      /\ fromBroker[c][reading[c]].type = "Ack" /\ fromBroker[c] \in Seq(ChannelAnswer)
  BY DEF ChannelInv, Typed, OnAck, Handles
<1>2. reading[c] \in DOMAIN fromBroker[c]
  BY <1>1 DEF At, ReadAt, Typed
<1>3. IsAck(c, reading[c])
  BY <1>1, <1>2 DEF IsAck
<1> DEFINE s == fromBroker[c][reading[c]].of
<1>4. s \in Subscriber /\ status' = [status EXCEPT ![s] = "active"]
  BY <1>1, <1>2, Kinds DEF OnAck
<1>5. /\ UNCHANGED <<connections, subscriptions, subscribed, published, alive, listener, callbacks,
                     thrown, delivered, since, skipped, toBroker>>
      /\ Proceed(c)
  BY DEF OnAck, serverVars
<1>6. /\ status' \in [Subscriber -> {"new", "subscribing", "active", "done"}]
      /\ \A t \in Subscriber : status'[t] = status[t] \/ (status'[t] = "active" /\ s = t)
  BY <1>1, <1>4 DEF Typed
<1>7. \A t \in Items(callbacks[c]) : ~Due(t, reading[c])
  <2>1. \A t \in Items(callbacks[c]) : OwnerOf[t] = c
    BY <1>1 DEF At, CallbacksAt
  <2> QED BY <2>1, <1>1 DEF Due, Ahead
<1> QED BY <1>1, <1>3, <1>5, <1>6, <1>7, Proceeds

LEMMA OnDoneInv ==
  ASSUME ChannelAssumption, ChannelInv, NEW c \in Client, OnDone(c)
  PROVE  ChannelInv'
<1>1. Typed /\ At(c) /\ reading[c] > 0 /\ fromBroker[c][reading[c]].type = "Done"
  BY DEF ChannelInv, OnDone, Handles
<1>2. /\ UNCHANGED <<connections, subscriptions, subscribed, published, alive, listener, callbacks, status,
                     thrown, delivered, since, skipped, toBroker>>
      /\ Proceed(c)
  BY DEF OnDone, serverVars, channelVars
<1>3. \A t \in Items(callbacks[c]) : ~Due(t, reading[c])
  <2>1. \A t \in Items(callbacks[c]) : OwnerOf[t] = c
    BY <1>1 DEF At, CallbacksAt
  <2> QED BY <2>1, <1>1 DEF Due, Ahead
<1>4. status' \in [Subscriber -> {"new", "subscribing", "active", "done"}]
  BY <1>1, <1>2 DEF Typed
<1> QED BY <1>1, <1>2, <1>3, <1>4, Proceeds

(* An exception leaves feed: what it kept is due again in the next pass.   *)
LEMMA Throwing ==
  ASSUME ChannelAssumption, ChannelInv, NEW c \in Client, reading[c] > 0, Throws(c),
         UNCHANGED <<connections, subscriptions, subscribed, published, alive, listener, callbacks, status,
                     delivered, since, toBroker>>,
         skipped' \in SUBSET Subscriber, skipped \subseteq skipped',
         \A t \in Subscriber : t \in skipped' \ skipped => OwnerOf[t] = c,
         LetGo(c) => \A t \in Items(callbacks[c]) : Due(t, reading[c]) => t \in skipped'
  PROVE  ChannelInv'
<1>0. Typed /\ At(c) /\ Cardinality(Subscriber) \in Nat
  BY FS_CardinalityType DEF ChannelInv, ChannelAssumption
<1>n. PICK n : n = reading[c]
  OBVIOUS
<1>k. PICK k : k = (IF LetGo(c) THEN buffered[c] ELSE 0)
  OBVIOUS
<1>1. /\ Typed /\ At(c) /\ n \in Nat /\ n >= 1 /\ handled[c] \in Nat /\ buffered[c] \in Nat
      /\ thrown[c] \in Nat /\ fromBroker[c] \in Seq(ChannelAnswer) /\ Cardinality(Subscriber) \in Nat
  <2>1. reading[c] \in Nat /\ handled[c] \in Nat /\ buffered[c] \in Nat /\ thrown[c] \in Nat
        /\ fromBroker[c] \in Seq(ChannelAnswer)
    BY <1>0 DEF Typed
  <2>2. reading[c] >= 1
    BY <2>1
  <2> QED BY <1>0, <1>n, <2>1, <2>2
<1>2. /\ n \in DOMAIN fromBroker[c] /\ n <= buffered[c] /\ handled[c] <= buffered[c]
      /\ buffered[c] <= Len(fromBroker[c]) /\ Len(fromBroker[c]) \in Nat
      /\ \A i \in DOMAIN fromBroker[c] : i \in Nat /\ i >= 1
  <2>1. n <= buffered[c] /\ handled[c] <= buffered[c] /\ buffered[c] <= Len(fromBroker[c])
    <3>1. ReadAt(c)
      BY <1>1 DEF At
    <3> QED BY <3>1, <1>n DEF ReadAt
  <2> QED BY <2>1, <1>1
<1>3. c \in alive
  BY <1>1, <1>2 DEF At, EndedAt
<1>4. /\ at' = [at EXCEPT ![c] = 0] /\ at' \in [Client -> Nat] /\ at'[c] = 0
      /\ thrown' = [thrown EXCEPT ![c] = @ + 1] /\ thrown' \in [Client -> Nat] /\ thrown'[c] = thrown[c] + 1
  BY <1>1 DEF Throws, Typed
<1>5. /\ Behind(c, k) /\ k \in Nat
      /\ fromBroker' \in [Client -> Seq(ChannelAnswer)]
      /\ reading' \in [Client -> Nat] /\ buffered' \in [Client -> Nat]
      /\ rest' \in [Client -> BOOLEAN] /\ handled' \in [Client -> Nat]
      /\ reading'[c] = 0 /\ handled'[c] <= buffered'[c] /\ buffered'[c] <= Len(fromBroker'[c])
      /\ handled[c] <= handled'[c] + k
      /\ \A d \in Client \ {c} : /\ fromBroker'[d] = fromBroker[d] /\ reading'[d] = reading[d]
                                 /\ buffered'[d] = buffered[d] /\ handled'[d] = handled[d]
  <2>1. CASE ~LetGo(c)
    <3>1. reading' = [reading EXCEPT ![c] = 0] /\ UNCHANGED <<buffered, rest, handled, fromBroker>>
      BY <2>1 DEF Throws
    <3>2. /\ reading \in [Client -> Nat] /\ buffered \in [Client -> Nat] /\ rest \in [Client -> BOOLEAN]
          /\ handled \in [Client -> Nat] /\ fromBroker \in [Client -> Seq(ChannelAnswer)]
      BY <1>1 DEF Typed
    <3>3. k = 0 /\ Behind(c, 0)
      BY <2>1, <3>1, <1>k, ItemsKept
    <3>4. reading' \in [Client -> Nat] /\ reading'[c] = 0 /\ \A d \in Client \ {c} : reading'[d] = reading[d]
      BY <3>1, <3>2
    <3> QED BY <3>1, <3>2, <3>3, <3>4, <1>1, <1>2
  <2>2. CASE LetGo(c)
    <3>1. Consumed(c)
      BY <2>2 DEF Throws
    <3>2. k = buffered[c]
      BY <2>2, <1>k
    <3>3. /\ Behind(c, k) /\ k \in Nat
          /\ fromBroker' \in [Client -> Seq(ChannelAnswer)]
          /\ reading' \in [Client -> Nat] /\ buffered' \in [Client -> Nat]
          /\ rest' \in [Client -> BOOLEAN] /\ handled' \in [Client -> Nat]
          /\ reading'[c] = 0 /\ buffered'[c] = 0 /\ handled'[c] = 0 /\ Len(fromBroker'[c]) \in Nat
          /\ \A d \in Client \ {c} : /\ fromBroker'[d] = fromBroker[d] /\ reading'[d] = reading[d]
                                     /\ buffered'[d] = buffered[d] /\ handled'[d] = handled[d]
      BY <3>1, <3>2, <1>1, ItemsConsumed
    <3>4. 0 <= Len(fromBroker'[c]) /\ handled[c] <= 0 + k
      BY <3>2, <3>3, <1>1, <1>2
    <3> QED BY <3>3, <3>4
  <2> QED BY <2>1, <2>2
<1>6. (LetGo(c) /\ k = n) \/ (~LetGo(c) /\ k = 0)
  <2>1. LetGo(c) => buffered[c] = reading[c]
    BY DEF LetGo
  <2>2. CASE LetGo(c)
    <3>1. k = buffered[c]
      BY <2>2, <1>k
    <3>2. k = n
      BY <2>1, <2>2, <3>1, <1>n
    <3> QED BY <2>2, <3>2
  <2>3. CASE ~LetGo(c)
    BY <2>3, <1>k
  <2> QED BY <2>2, <2>3
<1>7. Typed'
  BY <1>1, <1>4, <1>5 DEF Typed
<1>8. ReadAt(c)'
  <2>1. buffered'[c] \in Nat /\ 0 <= buffered'[c]
    BY <1>5
  <2> QED BY <2>1, <1>4, <1>5 DEF ReadAt
<1>9. ASSUME NEW d \in Client \ {c} PROVE SameAt(d)
  <2>1. at'[d] = at[d] /\ thrown'[d] = thrown[d]
    BY <1>1, <1>4 DEF Typed
  <2> QED BY <2>1, <1>5 DEF SameAt, Items
<1>10. ASSUME NEW t \in Items(callbacks[c]), NEW i, Due(t, i) PROVE t \in skipped' \/ (i > k /\ Due(t, i - k)')
  <2>1. t \in Subscriber /\ OwnerOf[t] = c
    BY <1>1, <1>10 DEF Typed, At, CallbacksAt, Items
  <2>2. i \in DOMAIN fromBroker[c] /\ fromBroker[c][i].type = "Message" /\ (i > n \/ i = n)
    BY <2>1, <1>10, <1>n DEF Due, Ahead
  <2>3. i \in Nat /\ i >= 1
    BY <2>2, <1>2
  <2>4. CASE i > k
    <3>1. i - k \in DOMAIN fromBroker'[c] /\ fromBroker'[c][i - k] = fromBroker[c][i]
      BY <2>2, <2>4, <1>5 DEF Behind
    <3>2. i - k > reading'[c]
      BY <2>3, <2>4, <1>5
    <3>j. PICK j : j = i - k
      OBVIOUS
    <3>3. j \in DOMAIN fromBroker'[c] /\ fromBroker'[c][j].type = "Message" /\ j > reading'[c]
      BY <2>2, <3>1, <3>2, <3>j
    <3>4. Due(t, j)'
      <4>1. Due(t, j)' <=> /\ j \in DOMAIN fromBroker'[c] /\ fromBroker'[c][j].type = "Message"
                           /\ j > reading'[c] \/ (j = reading'[c] /\ (at'[c] = 0 \/ Looping(t)'))
        BY <2>1 DEF Due, Ahead
      <4> QED BY <4>1, <3>3
    <3> QED BY <2>4, <3>4, <3>j
  <2>5. CASE ~(i > k)
    <3>1. LetGo(c) /\ i = n
      BY <2>2, <2>3, <2>5, <1>1, <1>5, <1>6
    <3> QED BY <3>1, <1>10, <1>n
  <2> QED BY <2>4, <2>5
<1>11. at'[c] <= Cardinality(Subscriber) + 1 /\ thrown[c] <= thrown'[c] /\ thrown'[c] # thrown[c]
  BY <1>1, <1>4
<1>12. \A t \in Subscriber : OwnerOf[t] = c => status'[t] = status[t] \/ Answered(c, t)
  OBVIOUS
<1>13. \A t \in Subscriber : OwnerOf[t] = c /\ thrown'[c] = thrown[c] => \A i : Due(t, i)' => Due(t, i + k)
  BY <1>11
<1> QED BY <1>3, <1>5, <1>7, <1>8, <1>9, <1>10, <1>11, <1>12, <1>13, FeedGoesOn

LEMMA StaleAckInv ==
  ASSUME ChannelAssumption, ChannelInv, NEW c \in Client, StaleAck(c)
  PROVE  ChannelInv'
<1>1. Typed /\ At(c) /\ reading[c] > 0 /\ fromBroker[c][reading[c]].type # "Message"
  BY DEF ChannelInv, StaleAck, Handles
<1>2. /\ UNCHANGED <<connections, subscriptions, subscribed, published, alive, listener, callbacks, status,
                     delivered, since, skipped, toBroker>>
      /\ Throws(c)
  BY DEF StaleAck, serverVars, channelVars
<1>3. \A t \in Items(callbacks[c]) : ~Due(t, reading[c])
  <2>1. \A t \in Items(callbacks[c]) : OwnerOf[t] = c
    BY <1>1 DEF At, CallbacksAt
  <2> QED BY <2>1, <1>1 DEF Due, Ahead
<1>4. skipped' \in SUBSET Subscriber
  BY <1>1, <1>2 DEF Typed
<1> QED BY <1>1, <1>2, <1>3, <1>4, Throwing

(* Who was left out of a message that is lost counts as skipped.           *)
LEMMA CallbackThrowsInv ==
  ASSUME ChannelAssumption, ChannelInv, NEW c \in Client, CallbackThrows(c)
  PROVE  ChannelInv'
<1>1. Typed /\ At(c) /\ at[c] \in Nat /\ at[c] > 1 /\ reading[c] \in Nat /\ fromBroker[c] \in Seq(ChannelAnswer)
  BY DEF ChannelInv, Typed, CallbackThrows
<1>2. /\ UNCHANGED <<connections, subscriptions, subscribed, published, alive, listener, callbacks, status,
                     delivered, since, toBroker>>
      /\ Throws(c)
      /\ skipped' = skipped \cup {callbacks[c][i] : i \in {k \in DOMAIN callbacks[c] : LetGo(c) /\ k >= at[c]}}
  BY DEF CallbackThrows, serverVars, channelVars
<1>3. reading[c] > 0
  <2>1. reading[c] \in DOMAIN fromBroker[c]
    BY <1>1 DEF At, ReadAt, IsMessage
  <2> QED BY <2>1, <1>1
<1>4. \A k \in DOMAIN callbacks[c] : callbacks[c][k] \in Subscriber /\ OwnerOf[callbacks[c][k]] = c
  <2>1. \A k \in DOMAIN callbacks[c] : callbacks[c][k] \in Subscriber /\ callbacks[c][k] \in Items(callbacks[c])
    BY <1>1 DEF Typed, Items
  <2> QED BY <2>1, <1>1 DEF At, CallbacksAt
<1>5. /\ skipped' \in SUBSET Subscriber /\ skipped \subseteq skipped'
      /\ \A t \in Subscriber : t \in skipped' \ skipped => OwnerOf[t] = c
  BY <1>1, <1>2, <1>4 DEF Typed
<1>6. ASSUME LetGo(c), NEW t \in Items(callbacks[c]), Due(t, reading[c]) PROVE t \in skipped'
  <2>1. OwnerOf[t] = c
    BY <1>1, <1>6 DEF At, CallbacksAt
  <2>2. Looping(t)
    BY <2>1, <1>1, <1>6 DEF Due, Ahead
  <2> QED BY <2>1, <2>2, <1>2, <1>6 DEF Looping
<1> QED BY <1>2, <1>3, <1>5, <1>6, Throwing

(* A callback is called: the message is no longer due to it, and what it   *)
(* got in this pass is earlier.                                            *)
LEMMA Delivers ==
  ASSUME ChannelAssumption, ChannelInv, NEW c \in Client, at[c] > 0, NEW n \in DOMAIN callbacks[c], at[c] = n,
         NEW s \in Subscriber, callbacks[c][n] = s, Calls(c, s), at' = [at EXCEPT ![c] = @ + 1],
         UNCHANGED <<connections, subscriptions, subscribed, published, alive, listener, callbacks, status,
                     reading, buffered, rest, handled, thrown, since, skipped, toBroker, fromBroker>>
  PROVE  ChannelInv'
<1>1. /\ Typed /\ RouteList /\ At(c) /\ n \in Nat /\ n > 0 /\ Distinct(callbacks[c]) /\ callbacks[c] \in Seq(Subscriber)
      /\ published \in Nat /\ thrown[c] \in Nat /\ fromBroker[c] \in Seq(ChannelAnswer)
      /\ Len(callbacks[c]) \in Nat /\ n <= Len(callbacks[c])
  <2>1. Typed /\ RouteList /\ At(c)
    BY DEF ChannelInv
  <2>2. callbacks[c] \in Seq(Subscriber) /\ published \in Nat /\ thrown[c] \in Nat /\ fromBroker[c] \in Seq(ChannelAnswer)
    BY <2>1 DEF Typed
  <2>3. Distinct(callbacks[c])
    BY <2>1 DEF At, CallbacksAt
  <2>4. n \in 1 .. Len(callbacks[c]) /\ Len(callbacks[c]) \in Nat
    BY <2>2
  <2> QED BY <2>1, <2>2, <2>3, <2>4
<1>2. c \in alive
  BY <1>1 DEF At, EndedAt
<1>3. Len(callbacks[c]) <= Cardinality(Subscriber) /\ Cardinality(Subscriber) \in Nat
  BY <1>1, DistinctLength DEF ChannelAssumption
<1>4. RouteList'
  BY <1>1 DEF RouteList, Items, Distinct
<1>5. s \in Items(callbacks[c]) /\ OwnerOf[s] = c /\ status[s] # "new"
  <2>1. s \in Items(callbacks[c])
    BY DEF Items
  <2> QED BY <2>1, <1>1 DEF At, CallbacksAt
<1>6. PICK m : m = fromBroker[c][reading[c]].v
  OBVIOUS
<1>7. IsMessage(c, reading[c]) /\ m \in 1 .. published /\ m \in Nat
  <2>1. IsMessage(c, reading[c])
    BY <1>1 DEF At, ReadAt
  <2>2. m \in 1 .. published
    BY <2>1, <1>1, <1>6 DEF At, InLineAt, IsMessage
  <2> QED BY <2>1, <2>2, <1>1
<1>8. PICK x : x = [pass |-> thrown[c], v |-> m]
  OBVIOUS
<1>9. x \in Delivery /\ x.pass = thrown[c] /\ x.v = m
  BY <1>1, <1>7, <1>8 DEF Delivery
<1>10. PICK r : r = delivered[s]
  OBVIOUS
<1>11. r \in Seq(Delivery) /\ delivered \in [Subscriber -> Seq(Delivery)]
  BY <1>1, <1>10 DEF Typed
<1>12. /\ Append(r, x) \in Seq(Delivery)
       /\ DOMAIN Append(r, x) = DOMAIN r \cup {Len(r) + 1}
       /\ DOMAIN r = 1 .. Len(r) /\ Len(r) \in Nat
       /\ \A i \in DOMAIN r : Append(r, x)[i] = r[i]
       /\ Append(r, x)[Len(r) + 1] = x
  BY <1>9, <1>11, Appended
<1>13. delivered' = [delivered EXCEPT ![s] = Append(r, x)]
  BY <1>6, <1>8, <1>10 DEF Calls
<1>14. /\ delivered' \in [Subscriber -> Seq(Delivery)] /\ delivered'[s] = Append(r, x)
       /\ \A t \in Subscriber \ {s} : delivered'[t] = delivered[t]
  BY <1>11, <1>12, <1>13
<1>15. at' \in [Client -> Nat] /\ at'[c] = n + 1 /\ \A d \in Client \ {c} : at'[d] = at[d]
  BY <1>1 DEF Typed
<1>16. Typed'
  BY <1>1, <1>14, <1>15 DEF Typed
<1>17. ASSUME NEW d \in Client \ {c} PROVE SameAt(d)
  BY <1>5, <1>14, <1>15 DEF SameAt, Items
<1>18. At(c)'
  <2>1. EndedAt(c)' /\ AcksAt(c)' /\ RouteAt(c)' /\ InLineAt(c)'
    BY <1>1, <1>2 DEF At, EndedAt, AcksAt, IsAck, RouteAt, RouteList, Asked, Items, InLineAt, IsMessage
  <2>2. at'[c] <= Cardinality(Subscriber) + 1
    BY <1>1, <1>3, <1>15
  <2>3. CallbacksAt(c)'
    BY <2>2, <1>1 DEF At, CallbacksAt
  <2>4. ReadAt(c)'
    BY <1>1, <1>7 DEF At, ReadAt, IsMessage
  <2> QED BY <2>1, <2>3, <2>4 DEF At
<1>19. ASSUME NEW t \in Subscriber, OwnerOf[t] = c
       PROVE  \A i \in DOMAIN fromBroker[c] : Due(t, i)' <=> Due(t, i) /\ (t = s => i # reading[c])
  <2>1. Looping(t)' <=> Looping(t) /\ t # s
    <3>1. \A k \in DOMAIN callbacks[c] : k \in Nat /\ (callbacks[c][k] = s <=> k = n)
      BY <1>1, <1>5 DEF Distinct
    <3>2. \A k \in Nat : (k >= n + 1 <=> k >= n /\ k # n)
      BY <1>1
    <3>3. n + 1 > 0
      BY <1>1
    <3>4. Looping(t)' <=> \E k \in DOMAIN callbacks[c] : k >= n + 1 /\ callbacks[c][k] = t
      BY <3>3, <1>15, <1>19 DEF Looping
    <3>5. Looping(t) <=> \E k \in DOMAIN callbacks[c] : k >= n /\ callbacks[c][k] = t
      BY <1>1, <1>19 DEF Looping
    <3> QED BY <3>1, <3>2, <3>4, <3>5
  <2>2. ASSUME NEW i \in DOMAIN fromBroker[c]
        PROVE  /\ Due(t, i)' <=> fromBroker[c][i].type = "Message" /\ (i > reading[c] \/ (i = reading[c] /\ Looping(t)'))
               /\ Due(t, i) <=> fromBroker[c][i].type = "Message" /\ (i > reading[c] \/ (i = reading[c] /\ Looping(t)))
    <3>1. at'[c] # 0 /\ at[c] # 0
      BY <1>1, <1>15
    <3> QED BY <3>1, <1>19 DEF Due, Ahead
  <2>3. Looping(s)
    BY <1>1, <1>5 DEF Looping
  <2>4. \A i \in DOMAIN fromBroker[c] : i > reading[c] => i # reading[c]
    BY <1>1 DEF Typed
  <2> QED BY <2>1, <2>2, <2>3, <2>4
<1>20. Due(s, reading[c])
  <2>1. Looping(s)
    BY <1>1, <1>5 DEF Looping
  <2> QED BY <2>1, <1>5, <1>7 DEF Due, Ahead, IsMessage
<1>g. /\ \A i, j \in DOMAIN r : i < j => \/ r[i].pass < r[j].pass
                                         \/ r[i].pass = r[j].pass /\ r[i].v < r[j].v
      /\ \A k \in DOMAIN r : r[k].v \in 1 .. published /\ r[k].pass <= thrown[c]
      /\ \A i \in DOMAIN fromBroker[c], k \in DOMAIN r :
           Due(s, i) /\ r[k].pass = thrown[c] => r[k].v < fromBroker[c][i].v
  <2>1. Of(s)
    BY DEF ChannelInv
  <2>2. GotBy(s)
    BY <2>1 DEF Of
  <2>3. /\ \A i, j \in DOMAIN delivered[s] :
             i < j => \/ delivered[s][i].pass < delivered[s][j].pass
                      \/ /\ delivered[s][i].pass = delivered[s][j].pass
                         /\ delivered[s][i].v < delivered[s][j].v
        /\ \A k \in DOMAIN delivered[s] : delivered[s][k].v \in 1 .. published /\ delivered[s][k].pass <= thrown[c]
    BY <2>2, <1>5 DEF GotBy
  <2>4. \A i \in DOMAIN fromBroker[c], k \in DOMAIN delivered[s] :
          Due(s, i) /\ delivered[s][k].pass = thrown[c] => delivered[s][k].v < fromBroker[c][i].v
    BY <2>2, <1>5 DEF GotBy
  <2> QED BY <2>3, <2>4, <1>10
<1>21. ASSUME NEW t \in Subscriber, OwnerOf[t] = c PROVE Of(t)'
  <2>1. Of(t)
    BY DEF ChannelInv
  <2>2. Routed(c)' <=> Routed(c)
    BY DEF Routed, Asked
  <2>3. RoutedSince(t)'
    BY <2>1, <2>2, <1>21 DEF Of, RoutedSince
  <2>4. CASE t = s
    <3>1. ASSUME NEW k \in DOMAIN r
          PROVE  /\ r[k].pass \in Nat /\ r[k].pass <= thrown[c] /\ r[k].v \in 1 .. published
                 /\ r[k].pass = thrown[c] => r[k].v < m
      <4>1. r[k] \in Delivery
        BY <1>11
      <4>2. r[k].pass <= thrown[c] /\ r[k].v \in 1 .. published
        BY <1>g
      <4>3. r[k].pass = thrown[c] => r[k].v < m
        BY <1>6, <1>7, <1>g, <1>20 DEF IsMessage
      <4> QED BY <4>1, <4>2, <4>3 DEF Delivery
    <3>2. \A i, j \in DOMAIN delivered'[s] :
            i < j => \/ delivered'[s][i].pass < delivered'[s][j].pass
                     \/ /\ delivered'[s][i].pass = delivered'[s][j].pass
                        /\ delivered'[s][i].v < delivered'[s][j].v
      <4>1. SUFFICES ASSUME NEW i \in DOMAIN delivered'[s], NEW j \in DOMAIN delivered'[s], i < j
                     PROVE  \/ delivered'[s][i].pass < delivered'[s][j].pass
                            \/ /\ delivered'[s][i].pass = delivered'[s][j].pass
                               /\ delivered'[s][i].v < delivered'[s][j].v
        OBVIOUS
      <4>2. i \in DOMAIN r /\ (j \in DOMAIN r \/ j = Len(r) + 1)
        BY <4>1, <1>12, <1>14
      <4>3. CASE j \in DOMAIN r
        BY <4>1, <4>2, <4>3, <1>g, <1>12, <1>14
      <4>4. CASE j = Len(r) + 1
        <5>1. delivered'[s][j].pass = thrown[c] /\ delivered'[s][j].v = m /\ delivered'[s][i] = r[i]
          BY <4>2, <4>4, <1>9, <1>12, <1>14
        <5>2. r[i].pass < thrown[c] \/ (r[i].pass = thrown[c] /\ r[i].v < m)
          <6>1. r[i].pass \in Nat /\ r[i].pass <= thrown[c] /\ (r[i].pass = thrown[c] => r[i].v < m)
            BY <4>2, <3>1
          <6> QED BY <6>1, <1>1
        <5> QED BY <5>1, <5>2
      <4> QED BY <4>2, <4>3, <4>4
    <3>3. \A k \in DOMAIN delivered'[s] : delivered'[s][k].v \in 1 .. published /\ delivered'[s][k].pass <= thrown[c]
      <4>1. SUFFICES ASSUME NEW k \in DOMAIN delivered'[s]
                     PROVE  delivered'[s][k].v \in 1 .. published /\ delivered'[s][k].pass <= thrown[c]
        OBVIOUS
      <4>2. CASE k \in DOMAIN r
        BY <4>2, <1>g, <1>12, <1>14
      <4>3. CASE k = Len(r) + 1
        <5>1. delivered'[s][k].v = m /\ delivered'[s][k].pass = thrown[c]
          BY <4>3, <1>9, <1>12, <1>14
        <5> QED BY <5>1, <1>1, <1>7
      <4> QED BY <4>2, <4>3, <1>12, <1>14
    <3>4. ASSUME NEW i \in DOMAIN fromBroker[c], NEW k \in DOMAIN delivered'[s], Due(s, i)',
                 delivered'[s][k].pass = thrown[c]
          PROVE  delivered'[s][k].v < fromBroker[c][i].v
      <4>1. Due(s, i) /\ i # reading[c]
        BY <3>4, <1>5, <1>19
      <4>2. m < fromBroker[c][i].v
        <5>1. IsMessage(c, i) /\ i > reading[c]
          BY <4>1, <1>5 DEF Due, Ahead, IsMessage
        <5> QED BY <5>1, <1>1, <1>6, <1>7 DEF At, InLineAt, IsMessage
      <4>3. CASE k \in DOMAIN r
        <5>1. delivered'[s][k] = r[k]
          BY <4>3, <1>12, <1>14
        <5> QED BY <3>4, <4>1, <4>3, <5>1, <1>g
      <4>4. CASE k = Len(r) + 1
        BY <4>2, <4>4, <1>9, <1>12, <1>14
      <4> QED BY <4>3, <4>4, <1>12, <1>14
    <3>5. GotBy(t)'
      <4>1. \A i : Due(s, i)' => i \in DOMAIN fromBroker[c]
        BY <1>5 DEF Due
      <4>2. GotBy(s)'
        <5>1. status'[s] # "new" /\ published' = published /\ thrown'[c] = thrown[c] /\ fromBroker'[c] = fromBroker[c]
          BY <1>5
        <5>2. \A i \in DOMAIN fromBroker'[c], k \in DOMAIN delivered'[s] :
                Due(s, i)' /\ delivered'[s][k].pass = thrown'[c] => delivered'[s][k].v < fromBroker'[c][i].v
          <6>1. \A i \in DOMAIN fromBroker[c], k \in DOMAIN delivered'[s] :
                  Due(s, i)' /\ delivered'[s][k].pass = thrown[c] => delivered'[s][k].v < fromBroker[c][i].v
            BY <3>4
          <6> QED BY <6>1, <5>1
        <5> QED BY <3>2, <3>3, <5>1, <5>2, <1>5 DEF GotBy
      <4> QED BY <4>2, <2>4
    <3>6. NothingMissed(t)'
      <4>1. ASSUME NEW y, Arrived(s, y) \/ y = m PROVE Arrived(s, y)'
        <5>1. Arrived(s, y)' <=> \E k \in DOMAIN delivered'[s] : delivered'[s][k].v = y
          BY DEF Arrived
        <5>2. Arrived(s, y) <=> \E k \in DOMAIN r : r[k].v = y
          BY <1>10 DEF Arrived
        <5> QED BY <4>1, <5>1, <5>2, <1>9, <1>12, <1>14
      <4>2. ASSUME NEW y, OnItsWay(s, y) PROVE y = m \/ OnItsWay(s, y)'
        <5>1. PICK i \in DOMAIN fromBroker[c] : Due(s, i) /\ fromBroker[c][i].v = y
          BY <4>2, <1>5 DEF OnItsWay
        <5>2. i = reading[c] \/ Due(s, i)'
          BY <5>1, <1>5, <1>19
        <5> QED BY <5>1, <5>2, <1>5, <1>6 DEF OnItsWay
      <4> QED BY <4>1, <4>2, <2>1, <2>4 DEF Of, NothingMissed
    <3> QED BY <2>3, <3>5, <3>6 DEF Of
  <2>5. CASE t # s
    <3>1. \A i : Due(t, i)' <=> Due(t, i)
      <4>1. \A i : Due(t, i)' \/ Due(t, i) => i \in DOMAIN fromBroker[c]
        BY <1>21 DEF Due
      <4> QED BY <4>1, <2>5, <1>19, <1>21
    <3>2. delivered'[t] = delivered[t]
      BY <2>5, <1>14
    <3>3. GotBy(t)'
      BY <3>1, <3>2, <2>1, <1>21 DEF Of, GotBy
    <3>4. NothingMissed(t)'
      BY <3>1, <3>2, <2>1, <1>21 DEF Of, NothingMissed, Arrived, OnItsWay
    <3> QED BY <2>3, <3>3, <3>4 DEF Of
  <2> QED BY <2>4, <2>5
<1> QED BY <1>4, <1>16, <1>17, <1>18, <1>21, OneClient

LEMMA NextCallbackInv ==
  ASSUME ChannelAssumption, ChannelInv, NEW c \in Client, NextCallback(c)
  PROVE  ChannelInv'
<1>1. /\ Typed /\ At(c) /\ at[c] \in Nat /\ at[c] > 0 /\ callbacks[c] \in Seq(Subscriber)
      /\ reading[c] \in Nat /\ fromBroker[c] \in Seq(ChannelAnswer)
      /\ DOMAIN callbacks[c] = 1 .. Len(callbacks[c]) /\ Len(callbacks[c]) \in Nat
  <2>1. Typed /\ At(c) /\ at[c] > 0
    BY DEF ChannelInv, NextCallback
  <2>2. at[c] \in Nat /\ callbacks[c] \in Seq(Subscriber) /\ reading[c] \in Nat /\ fromBroker[c] \in Seq(ChannelAnswer)
    BY <2>1 DEF Typed
  <2> QED BY <2>1, <2>2
<1>2. UNCHANGED <<connections, subscriptions, subscribed, published, alive, listener, callbacks, status,
                  thrown, since, skipped, toBroker>>
  BY DEF NextCallback, serverVars, channelVars
<1>3. CASE at[c] <= Len(callbacks[c])
  <2>1. /\ Calls(c, callbacks[c][at[c]]) /\ at' = [at EXCEPT ![c] = @ + 1]
        /\ UNCHANGED <<reading, buffered, rest, handled, fromBroker>>
    BY <1>3 DEF NextCallback, feedVars
  <2>2. PICK n \in DOMAIN callbacks[c] : n = at[c]
    BY <1>1, <1>3
  <2>3. PICK s \in Subscriber : s = callbacks[c][n]
    BY <1>1, <2>2
  <2>4. Calls(c, s)
    BY <2>1, <2>2, <2>3
  <2> QED BY <1>1, <1>2, <2>1, <2>2, <2>3, <2>4, Delivers
<1>4. CASE ~(at[c] <= Len(callbacks[c]))
  <2>1. Proceed(c) /\ delivered' = delivered
    BY <1>4 DEF NextCallback
  <2>2. reading[c] > 0
    <3>1. reading[c] \in DOMAIN fromBroker[c]
      BY <1>1 DEF At, ReadAt, IsMessage
    <3> QED BY <3>1, <1>1
  <2>3. ASSUME NEW t \in Items(callbacks[c]) PROVE ~Due(t, reading[c])
    <3>1. OwnerOf[t] = c
      BY <1>1 DEF At, CallbacksAt
    <3>2. ~Looping(t)
      <4>1. \A k \in DOMAIN callbacks[c] : ~(k >= at[c])
        BY <1>1, <1>4
      <4> QED BY <3>1, <4>1 DEF Looping
    <3>3. at[c] # 0 /\ ~(reading[c] > reading[c])
      BY <1>1
    <3> QED BY <3>1, <3>2, <3>3 DEF Due, Ahead
  <2>4. status' \in [Subscriber -> {"new", "subscribing", "active", "done"}]
    BY <1>1, <1>2 DEF Typed
  <2> QED BY <1>2, <2>1, <2>2, <2>3, <2>4, Proceeds
<1> QED BY <1>3, <1>4

(* With the client goes all it had; its connection stays for now.          *)
LEMMA DieInv ==
  ASSUME ChannelAssumption, ChannelInv, NEW c \in Client, Die(c)
  PROVE  ChannelInv'
<1>1. Typed /\ RouteList /\ At(c) /\ published \in Nat
  BY DEF ChannelInv, Typed
<1>2. /\ UNCHANGED <<connections, subscriptions, subscribed, published, status, thrown, delivered, since,
                     skipped, toBroker>>
      /\ alive' = alive \ {c}
      /\ at' = [at EXCEPT ![c] = 0] /\ reading' = [reading EXCEPT ![c] = 0] /\ buffered' = [buffered EXCEPT ![c] = 0]
      /\ rest' = [rest EXCEPT ![c] = FALSE] /\ handled' = [handled EXCEPT ![c] = 0]
      /\ listener' = [listener EXCEPT ![c] = 0]
      /\ callbacks' = [callbacks EXCEPT ![c] = <<>>]
      /\ fromBroker' = [fromBroker EXCEPT ![c] = <<>>]
  BY DEF Die, serverVars
<1>3. /\ at'[c] = 0 /\ reading'[c] = 0 /\ buffered'[c] = 0 /\ handled'[c] = 0
      /\ listener'[c] = 0 /\ callbacks'[c] = <<>> /\ fromBroker'[c] = <<>>
      /\ c \notin alive'
  BY <1>1, <1>2 DEF Typed
<1>4. Typed'
  <2>1. at' \in [Client -> Nat] /\ reading' \in [Client -> Nat] /\ buffered' \in [Client -> Nat]
        /\ rest' \in [Client -> BOOLEAN] /\ handled' \in [Client -> Nat] /\ listener' \in [Client -> Nat]
    BY <1>1, <1>2 DEF Typed
  <2>2. callbacks' \in [Client -> Seq(Subscriber)]
    BY <1>1, <1>2 DEF Typed
  <2>3. fromBroker' \in [Client -> Seq(ChannelAnswer)]
    BY <1>1, <1>2 DEF Typed
  <2> QED BY <2>1, <2>2, <2>3, <1>1, <1>2 DEF Typed
<1>5. RouteList'
  BY <1>1, <1>2 DEF RouteList, Items, Distinct
<1>6. ASSUME NEW d \in Client \ {c} PROVE SameAt(d)
  BY <1>1, <1>2 DEF Typed, SameAt, Items
<1>7. DOMAIN callbacks'[c] = {} /\ DOMAIN fromBroker'[c] = {} /\ Len(callbacks'[c]) = 0
  BY <1>3
<1>8. At(c)'
  <2>1. EndedAt(c)'
    BY <1>1, <1>2, <1>3 DEF At, EndedAt
  <2>2. CallbacksAt(c)'
    <3>1. Cardinality(Subscriber) \in Nat
      BY FS_CardinalityType DEF ChannelAssumption
    <3> QED BY <3>1, <1>3, <1>7 DEF CallbacksAt, Distinct, Items
  <2>3. AcksAt(c)'
    BY <1>1, <1>2, <1>7 DEF At, AcksAt, IsAck
  <2>4. RouteAt(c)'
    BY <1>1, <1>2, <1>3 DEF At, RouteAt, Asked, Items
  <2>5. InLineAt(c)'
    BY <1>1, <1>2, <1>3, <1>7 DEF InLineAt, IsMessage
  <2>6. ReadAt(c)'
    <3>1. Len(fromBroker'[c]) = 0
      BY <1>3
    <3> QED BY <3>1, <1>3 DEF ReadAt
  <2> QED BY <2>1, <2>2, <2>3, <2>4, <2>5, <2>6 DEF At
<1>9. ASSUME NEW t \in Subscriber, OwnerOf[t] = c PROVE Of(t)'
  <2>1. Of(t)
    BY DEF ChannelInv
  <2>2. GotBy(t)'
    BY <2>1, <1>2, <1>3, <1>7, <1>9 DEF Of, GotBy, Items
  <2>3. RoutedSince(t)' /\ NothingMissed(t)'
    BY <2>1, <1>2, <1>3, <1>9 DEF Of, RoutedSince, NothingMissed
  <2> QED BY <2>2, <2>3 DEF Of
<1> QED BY <1>2, <1>4, <1>5, <1>6, <1>8, <1>9, OneClient

(* What is due depends on nothing the server keeps.                        *)
LEMMA StaysAll ==
  ASSUME NEW t \in Subscriber, NEW c \in Client, OwnerOf[t] = c, at'[c] = at[c], reading'[c] = reading[c],
         fromBroker'[c] = fromBroker[c], callbacks'[c] = callbacks[c]
  PROVE  \A i : Due(t, i)' <=> Due(t, i)
<1>1. Looping(t)' <=> Looping(t)
  BY DEF Looping
<1> QED BY <1>1, StaysDue

(* The server forgets a closed connection, in the list and on the way.     *)
LEMMA ChannelsCloseInv ==
  ASSUME ChannelAssumption, ChannelInv, NEW c \in Client, CloseChannels(c)
  PROVE  ChannelInv'
<1>1. Typed /\ RouteList /\ At(c) /\ published \in Nat /\ c \notin alive /\ c \in connections
  BY DEF ChannelInv, Typed, CloseChannels
<1>2. /\ UNCHANGED <<subscribed, published, alive, listener, callbacks, status, at, reading, buffered, rest,
                     handled, thrown, delivered, since, skipped, fromBroker>>
      /\ connections' = connections \ {c}
      /\ subscriptions' = IF subscribed[c] > 0 THEN arrayRemoveItem(subscriptions, c) ELSE subscriptions
      /\ toBroker' = [toBroker EXCEPT ![c] = <<>>]
  BY DEF CloseChannels, channelVars, loopVars, feedVars
<1>3. /\ subscriptions' \in Seq(Client)
      /\ Items(subscriptions') = Items(subscriptions) \ {c}
      /\ Distinct(subscriptions')
  <2>1. subscriptions \in Seq(Client) /\ Distinct(subscriptions)
    BY <1>1 DEF Typed, RouteList
  <2>2. CASE subscribed[c] > 0
    BY <2>1, <2>2, <1>2, RemoveItem
  <2>3. CASE ~(subscribed[c] > 0)
    <3>1. c \notin Items(subscriptions)
      BY <2>3, <1>1 DEF At, RouteAt
    <3> QED BY <2>1, <2>3, <3>1, <1>2
  <2> QED BY <2>2, <2>3
<1>4. toBroker'[c] = <<>> /\ DOMAIN toBroker'[c] = {} /\ c \notin connections' /\ c \notin alive'
  BY <1>1, <1>2 DEF Typed
<1>5. Typed'
  <2>1. toBroker' \in [Client -> Seq(ChannelRequest)]
    BY <1>1, <1>2 DEF Typed
  <2> QED BY <2>1, <1>1, <1>2, <1>3 DEF Typed
<1>6. RouteList'
  BY <1>1, <1>2, <1>3 DEF RouteList
<1>7. ASSUME NEW d \in Client \ {c} PROVE SameAt(d)
  <2>1. toBroker'[d] = toBroker[d]
    BY <1>1, <1>2 DEF Typed
  <2>2. Items(subscriptions)' = Items(subscriptions')
    BY DEF Items
  <2> QED BY <2>1, <2>2, <1>2, <1>3 DEF SameAt
<1>8. At(c)'
  <2>1. EndedAt(c)' /\ CallbacksAt(c)' /\ ReadAt(c)' /\ InLineAt(c)'
    BY <1>1, <1>2, <1>4 DEF At, EndedAt, CallbacksAt, ReadAt, InLineAt, IsMessage
  <2>2. AcksAt(c)' /\ RouteAt(c)'
    BY <1>1, <1>2, <1>4 DEF At, AcksAt, IsAck, RouteAt, Asked
  <2> QED BY <2>1, <2>2 DEF At
<1>9. ASSUME NEW t \in Subscriber, OwnerOf[t] = c PROVE Of(t)'
  <2>1. Of(t)
    BY DEF ChannelInv
  <2>2. GotBy(t)'
    BY <2>1, <1>2, <1>9, StaysAll DEF Of, GotBy
  <2>3. RoutedSince(t)' /\ NothingMissed(t)'
    BY <2>1, <1>2, <1>4, <1>9 DEF Of, RoutedSince, NothingMissed
  <2> QED BY <2>2, <2>3 DEF Of
<1> QED BY <1>2, <1>5, <1>6, <1>7, <1>8, <1>9, OneClient


(* What a handler of the server leaves of the requests of its client.      *)
LEMMA Requests ==
  ASSUME ChannelAssumption, ChannelInv, NEW c \in Client, NEW type, Next1(c, type)
  PROVE  /\ toBroker' \in [Client -> Seq(ChannelRequest)]
         /\ \A d \in Client \ {c} : toBroker'[d] = toBroker[d]
         /\ 1 \in DOMAIN toBroker[c] /\ toBroker[c][1].type = type /\ Head(toBroker[c]) = toBroker[c][1]
         /\ \A i \in DOMAIN toBroker[c] : i \in Nat /\ i >= 1
         /\ \A i \in DOMAIN toBroker'[c] :
              i \in Nat /\ i >= 1 /\ i + 1 \in DOMAIN toBroker[c] /\ toBroker'[c][i] = toBroker[c][i + 1]
         /\ \A i \in DOMAIN toBroker[c] :
              i = 1 \/ (i - 1 \in DOMAIN toBroker'[c] /\ toBroker'[c][i - 1] = toBroker[c][i])
         /\ c \in connections
<1> DEFINE q == toBroker[c]
<1>1. /\ toBroker \in [Client -> Seq(ChannelRequest)] /\ q \in Seq(ChannelRequest) /\ q # <<>>
      /\ toBroker' = [toBroker EXCEPT ![c] = Tail(q)]
      /\ Head(q).type = type
  BY DEF ChannelInv, Typed, Next1
<1>2. /\ Tail(q) \in Seq(ChannelRequest)
      /\ DOMAIN Tail(q) = 1 .. Len(q) - 1
      /\ DOMAIN q = 1 .. Len(q) /\ Len(q) \in Nat \ {0}
      /\ \A i \in DOMAIN Tail(q) : i + 1 \in DOMAIN q /\ Tail(q)[i] = q[i + 1]
      /\ \A i \in DOMAIN q : i = 1 \/ (i - 1 \in DOMAIN Tail(q) /\ Tail(q)[i - 1] = q[i])
      /\ Head(q) = q[1] /\ Head(q) \in ChannelRequest /\ 1 \in DOMAIN q
  BY <1>1, Shifted
<1>3. \A i \in DOMAIN Tail(q) : i \in Nat /\ i >= 1
  BY <1>2
<1>4. \A i \in DOMAIN q : i \in Nat /\ i >= 1
  BY <1>2
<1>5. toBroker'[c] = Tail(q) /\ toBroker' \in [Client -> Seq(ChannelRequest)]
  BY <1>1, <1>2
<1>6. \A d \in Client \ {c} : toBroker'[d] = toBroker[d]
  BY <1>1
<1>7. c \in connections
  BY DEF Next1
<1> QED BY <1>1, <1>2, <1>3, <1>4, <1>5, <1>6, <1>7

(* Items that come behind others leave it as it is which of these are due. *)
LEMMA DueBefore ==
  ASSUME NEW t \in Subscriber, NEW d \in Client, OwnerOf[t] = d, at'[d] = at[d], reading'[d] = reading[d],
         callbacks'[d] = callbacks[d], NEW i \in DOMAIN fromBroker[d], i \in DOMAIN fromBroker'[d],
         fromBroker'[d][i] = fromBroker[d][i]
  PROVE  Due(t, i)' <=> Due(t, i)
<1>1. Looping(t)' <=> Looping(t)
  BY DEF Looping
<1>2. Due(t, i)' <=> /\ fromBroker[d][i].type = "Message"
                     /\ i > reading[d] \/ (i = reading[d] /\ (at[d] = 0 \/ Looping(t)'))
  BY DEF Due, Ahead
<1>3. Due(t, i) <=> /\ fromBroker[d][i].type = "Message"
                    /\ i > reading[d] \/ (i = reading[d] /\ (at[d] = 0 \/ Looping(t)))
  BY DEF Due, Ahead
<1> QED BY <1>1, <1>2, <1>3

(* The server has a route now, and its ack is the only one of its kind.    *)
LEMMA HandleSubscribeInv ==
  ASSUME ChannelAssumption, ChannelInv, NEW c \in Client, HandleSubscribe(c)
  PROVE  ChannelInv'
<1> DEFINE p == fromBroker[c]
           s == Head(toBroker[c]).of
           x == [type |-> "Ack", of |-> s]
<1>1. Typed /\ RouteList /\ At(c) /\ published \in Nat /\ Next1(c, "Subscribe") /\ p \in Seq(ChannelAnswer)
  BY DEF ChannelInv, Typed, HandleSubscribe
<1>2. /\ UNCHANGED <<connections, published, alive, listener, callbacks, status, at, reading, buffered, rest,
                     handled, thrown, delivered, skipped>>
      /\ subscriptions' = Append(subscriptions, c)
      /\ subscribed' = [subscribed EXCEPT ![c] = @ + 1]
      /\ since' = [t \in Subscriber |-> IF \E i \in DOMAIN callbacks[c] : callbacks[c][i] = t THEN published ELSE since[t]]
  BY DEF HandleSubscribe, channelVars, loopVars, feedVars
<1>3. fromBroker' = [fromBroker EXCEPT ![c] = IF c \in alive THEN Append(p, x) ELSE p]
  <2>1. \A y : p \o <<y>> = Append(p, y)
    BY <1>1
  <2> QED BY <2>1 DEF HandleSubscribe, Sent
<1>4. /\ toBroker' \in [Client -> Seq(ChannelRequest)]
      /\ \A d \in Client \ {c} : toBroker'[d] = toBroker[d]
      /\ 1 \in DOMAIN toBroker[c] /\ toBroker[c][1].type = "Subscribe" /\ Head(toBroker[c]) = toBroker[c][1]
      /\ \A i \in DOMAIN toBroker'[c] :
           i \in Nat /\ i >= 1 /\ i + 1 \in DOMAIN toBroker[c] /\ toBroker'[c][i] = toBroker[c][i + 1]
      /\ c \in connections
  BY <1>1, Requests
<1>5. s \in Subscriber /\ OwnerOf[s] = c /\ status[s] = "subscribing" /\ x \in ChannelAnswer
      /\ \A j \in DOMAIN p : IsAck(c, j) => p[j].of # s
  <2>1. toBroker[c] \in Seq(ChannelRequest)
    BY <1>1 DEF Typed
  <2>2. s \in Subscriber
    BY <2>1, <1>4, Kinds
  <2> QED BY <2>2, <1>1, <1>4 DEF At, AcksAt, ChannelAnswer
<1>6. /\ Append(p, x) \in Seq(ChannelAnswer)
      /\ DOMAIN Append(p, x) = DOMAIN p \cup {Len(p) + 1}
      /\ DOMAIN p = 1 .. Len(p) /\ Len(p) \in Nat
      /\ \A i \in DOMAIN p : Append(p, x)[i] = p[i]
      /\ Append(p, x)[Len(p) + 1] = x
  <2> HIDE DEF p, x
  <2> QED BY <1>1, <1>5, Appended
<1>7. fromBroker'[c] = (IF c \in alive THEN Append(p, x) ELSE p)
  BY <1>1, <1>3 DEF Typed
<1> HIDE DEF s
<1>8. x.type = "Ack" /\ x.of = s
  OBVIOUS
<1> HIDE DEF x, p
<1>9. ~Asked(c, "Unsubscribe") /\ Asked(c, "Subscribe")
  <2>1. \A j \in DOMAIN toBroker[c] : toBroker[c][j].type # "Publish" => j <= 1
    BY <1>1, <1>4 DEF At, RouteAt
  <2>2. \A j \in DOMAIN toBroker[c] : j \in Nat /\ j >= 1
    BY <1>1, Requests
  <2> QED BY <2>1, <2>2, <1>4 DEF Asked
<1>10. c \notin Items(subscriptions) /\ subscribed[c] = 0 /\ (c \in alive => listener[c] > 0)
  BY <1>1, <1>4, <1>9 DEF At, RouteAt
<1>11. /\ subscriptions' \in Seq(Client)
       /\ Items(subscriptions') = Items(subscriptions) \cup {c}
       /\ Distinct(subscriptions')
  BY <1>1, <1>2, <1>10, AppendItem DEF Typed, RouteList
<1>12. \A j \in DOMAIN toBroker'[c] : toBroker'[c][j].type \notin {"Subscribe", "Unsubscribe"}
  <2>1. \A j \in DOMAIN toBroker[c] : toBroker[c][j].type # "Publish" => j <= 1
    BY <1>1, <1>4 DEF At, RouteAt
  <2>2. \A j \in DOMAIN toBroker'[c] : ~(j + 1 <= 1)
    BY <1>4
  <2> QED BY <2>1, <2>2, <1>4
<1>13. Typed'
  <2>1. fromBroker' \in [Client -> Seq(ChannelAnswer)]
    BY <1>1, <1>3, <1>6 DEF Typed, p
  <2>2. subscribed' \in [Client -> {0, 1}]
    BY <1>1, <1>2, <1>10 DEF Typed
  <2>3. since' \in [Subscriber -> Nat \cup {Unrouted}]
    BY <1>1, <1>2 DEF Typed
  <2> QED BY <2>1, <2>2, <2>3, <1>1, <1>2, <1>4, <1>11 DEF Typed
<1>14. RouteList'
  BY <1>1, <1>2, <1>4, <1>11 DEF RouteList
<1>15. \A t \in Subscriber : since'[t] = IF t \in Items(callbacks[c]) THEN published ELSE since[t]
  BY <1>2 DEF Items
<1>16. \A t \in Items(callbacks[c]) : OwnerOf[t] = c
  BY <1>1 DEF At, CallbacksAt
<1>17. ASSUME NEW d \in Client \ {c} PROVE SameAt(d)
  <2>1. fromBroker'[d] = fromBroker[d] /\ subscribed'[d] = subscribed[d]
    BY <1>1, <1>2, <1>3 DEF Typed
  <2>2. Items(subscriptions)' = Items(subscriptions')
    BY DEF Items
  <2> QED BY <2>1, <2>2, <1>2, <1>4, <1>11, <1>15, <1>16 DEF SameAt
<1>18. /\ \A i \in DOMAIN fromBroker'[c] :
            (i \in DOMAIN fromBroker[c] /\ fromBroker'[c][i] = fromBroker[c][i]) \/ (i = Len(p) + 1 /\ fromBroker'[c][i] = x)
       /\ \A i \in DOMAIN fromBroker[c] : i \in DOMAIN fromBroker'[c] /\ fromBroker'[c][i] = fromBroker[c][i]
  BY <1>6, <1>7 DEF p
<1>19. \A i : IsMessage(c, i)' <=> IsMessage(c, i)
  BY <1>8, <1>18 DEF IsMessage
<1>a. \A i \in DOMAIN fromBroker'[c] : IsAck(c, i)' =>
        \/ i \in DOMAIN fromBroker[c] /\ IsAck(c, i) /\ fromBroker'[c][i] = fromBroker[c][i]
        \/ i = Len(p) + 1 /\ fromBroker'[c][i] = x
  BY <1>2, <1>18 DEF IsAck
<1>20. At(c)'
  <2>1. EndedAt(c)' /\ CallbacksAt(c)'
    BY <1>1, <1>2, <1>4, <1>7 DEF At, EndedAt, CallbacksAt, p
  <2>5. ReadAt(c)'
    <3>1. Len(fromBroker'[c]) \in Nat /\ Len(p) <= Len(fromBroker'[c]) /\ buffered[c] \in Nat
      <4>1. Len(Append(p, x)) = Len(p) + 1
        BY <1>1 DEF p
      <4> QED BY <4>1, <1>1, <1>6, <1>7 DEF Typed
    <3>2. buffered[c] <= Len(fromBroker'[c])
      BY <3>1, <1>1, <1>6 DEF At, ReadAt, p
    <3> QED BY <3>2, <1>1, <1>2, <1>19 DEF At, ReadAt
  <2>2. AcksAt(c)'
    <3>1. \A i \in DOMAIN fromBroker'[c] : IsAck(c, i)' =>
            /\ OwnerOf[fromBroker'[c][i].of] = c /\ status[fromBroker'[c][i].of] = "subscribing"
            /\ \A j \in DOMAIN fromBroker'[c] :
                 IsAck(c, j)' /\ fromBroker'[c][j].of = fromBroker'[c][i].of => i = j
      BY <1>1, <1>5, <1>8, <1>a DEF At, AcksAt, p
    <3> QED BY <3>1, <1>2, <1>12 DEF AcksAt
  <2>3. RouteAt(c)'
    <3>1. Items(subscriptions)' = Items(subscriptions') /\ ~Asked(c, "Subscribe")' /\ ~Asked(c, "Unsubscribe")'
      BY <1>12 DEF Items, Asked
    <3>2. subscribed'[c] = 1
      BY <1>1, <1>2, <1>10 DEF Typed
    <3> QED BY <3>1, <3>2, <1>2, <1>10, <1>11, <1>12 DEF RouteAt
  <2>4. InLineAt(c)'
    BY <1>1, <1>2, <1>18, <1>19 DEF At, InLineAt, IsMessage
  <2> QED BY <2>1, <2>2, <2>3, <2>4, <2>5 DEF At
<1>21. ASSUME NEW t \in Subscriber, OwnerOf[t] = c PROVE Of(t)'
  <2>1. Of(t)
    BY DEF ChannelInv
  <2>2. Routed(c)'
    <3>1. \E i \in DOMAIN subscriptions' : subscriptions'[i] = c
      BY <1>11 DEF Items
    <3> QED BY <3>1, <1>12 DEF Routed, Asked
  <2>3. \A i \in DOMAIN fromBroker'[c] : Due(t, i)' =>
          i \in DOMAIN fromBroker[c] /\ Due(t, i) /\ fromBroker'[c][i] = fromBroker[c][i]
    <3>1. SUFFICES ASSUME NEW i \in DOMAIN fromBroker'[c], Due(t, i)'
                   PROVE  i \in DOMAIN fromBroker[c] /\ Due(t, i) /\ fromBroker'[c][i] = fromBroker[c][i]
      OBVIOUS
    <3>2. fromBroker'[c][i].type = "Message"
      BY <3>1, <1>21 DEF Due, Ahead
    <3>3. i \in DOMAIN fromBroker[c] /\ fromBroker'[c][i] = fromBroker[c][i]
      BY <3>2, <1>8, <1>18
    <3> QED BY <3>1, <3>3, <1>2, <1>21, DueBefore
  <2>4. GotBy(t)'
    BY <2>1, <2>3, <1>2, <1>21 DEF Of, GotBy
  <2>5. since[t] # Unrouted /\ c \in alive => t \in Items(callbacks[c])
    BY <2>1, <1>21 DEF Of, RoutedSince
  <2>6. RoutedSince(t)'
    BY <2>1, <2>2, <2>5, <1>1, <1>2, <1>15, <1>21 DEF Of, RoutedSince
  <2>7. NothingMissed(t)'
    <3>1. CASE t \in Items(callbacks[c])
      <4>1. since'[t] = published /\ published' = published
        BY <3>1, <1>2, <1>15
      <4> QED BY <4>1, <1>1 DEF NothingMissed
    <3>2. CASE t \notin Items(callbacks[c])
      BY <3>2, <2>5, <1>2, <1>15, <1>21 DEF NothingMissed
    <3> QED BY <3>1, <3>2
  <2> QED BY <2>4, <2>6, <2>7 DEF Of
<1> QED BY <1>2, <1>13, <1>14, <1>17, <1>20, <1>21, OneClient

(* The server takes its route down, which the client no longer counts on.  *)
LEMMA HandleUnsubscribeInv ==
  ASSUME ChannelAssumption, ChannelInv, NEW c \in Client, HandleUnsubscribe(c)
  PROVE  ChannelInv'
<1> DEFINE p == fromBroker[c]
           x == [type |-> "Done"]
<1>1. /\ Typed /\ RouteList /\ At(c) /\ published \in Nat /\ Next1(c, "Unsubscribe")
      /\ p \in Seq(ChannelAnswer) /\ x \in ChannelAnswer /\ x.type = "Done"
  BY DEF ChannelInv, Typed, HandleUnsubscribe, ChannelAnswer
<1>2. /\ UNCHANGED <<connections, published, alive, listener, callbacks, status, at, reading, buffered, rest,
                     handled, thrown, delivered, since, skipped>>
      /\ subscriptions' = arrayRemoveItem(subscriptions, c)
      /\ subscribed' = [subscribed EXCEPT ![c] = IF @ > 0 THEN @ - 1 ELSE 0]
  BY DEF HandleUnsubscribe, channelVars, loopVars, feedVars
<1>a. fromBroker' = [fromBroker EXCEPT ![c] = IF c \in alive THEN Append(p, x) ELSE p]
  <2>1. \A y : p \o <<y>> = Append(p, y)
    BY <1>1
  <2> QED BY <2>1 DEF HandleUnsubscribe, Sent
<1> HIDE DEF x
<1>b. /\ Append(p, x) \in Seq(ChannelAnswer)
      /\ DOMAIN Append(p, x) = DOMAIN p \cup {Len(p) + 1}
      /\ DOMAIN p = 1 .. Len(p) /\ Len(p) \in Nat
      /\ \A i \in DOMAIN p : Append(p, x)[i] = p[i]
      /\ Append(p, x)[Len(p) + 1] = x
  <2> HIDE DEF p
  <2> QED BY <1>1, Appended
<1>c. fromBroker'[c] = (IF c \in alive THEN Append(p, x) ELSE p)
  BY <1>1, <1>a DEF Typed
<1> HIDE DEF p
<1>d. /\ \A i \in DOMAIN fromBroker'[c] :
           (i \in DOMAIN fromBroker[c] /\ fromBroker'[c][i] = fromBroker[c][i]) \/ fromBroker'[c][i].type = "Done"
      /\ \A i \in DOMAIN fromBroker[c] : i \in DOMAIN fromBroker'[c] /\ fromBroker'[c][i] = fromBroker[c][i]
  BY <1>1, <1>b, <1>c DEF p
<1>e. Len(fromBroker'[c]) \in Nat /\ Len(fromBroker[c]) <= Len(fromBroker'[c]) /\ Len(fromBroker[c]) \in Nat
  <2>1. Len(Append(p, x)) = Len(p) + 1
    BY <1>1 DEF p
  <2> QED BY <2>1, <1>b, <1>c DEF p
<1>3. /\ toBroker' \in [Client -> Seq(ChannelRequest)]
      /\ \A d \in Client \ {c} : toBroker'[d] = toBroker[d]
      /\ 1 \in DOMAIN toBroker[c] /\ toBroker[c][1].type = "Unsubscribe"
      /\ \A i \in DOMAIN toBroker'[c] :
           i \in Nat /\ i >= 1 /\ i + 1 \in DOMAIN toBroker[c] /\ toBroker'[c][i] = toBroker[c][i + 1]
      /\ \A i \in DOMAIN toBroker[c] :
           i = 1 \/ (i - 1 \in DOMAIN toBroker'[c] /\ toBroker'[c][i - 1] = toBroker[c][i])
      /\ c \in connections
  BY <1>1, Requests
<1>4. Asked(c, "Unsubscribe") /\ c \in Items(subscriptions) /\ subscribed[c] = 1
  <2>1. Asked(c, "Unsubscribe")
    BY <1>3 DEF Asked
  <2> QED BY <2>1, <1>1, <1>3 DEF At, RouteAt
<1>5. ~Asked(c, "Unsubscribe")'
  <2>1. \A i \in DOMAIN toBroker[c] : toBroker[c][i].type = "Unsubscribe" => i = 1
    BY <1>1, <1>3 DEF At, RouteAt
  <2>2. \A i \in DOMAIN toBroker'[c] : i + 1 # 1
    BY <1>3
  <2> QED BY <2>1, <2>2, <1>3 DEF Asked
<1>6. Asked(c, "Subscribe")' <=> Asked(c, "Subscribe")
  <2>1. Asked(c, "Subscribe")' => Asked(c, "Subscribe")
    BY <1>3 DEF Asked
  <2>2. ASSUME Asked(c, "Subscribe") PROVE Asked(c, "Subscribe")'
    <3>1. PICK i \in DOMAIN toBroker[c] : toBroker[c][i].type = "Subscribe"
      BY <2>2 DEF Asked
    <3>2. i # 1
      BY <3>1, <1>3
    <3> QED BY <3>1, <3>2, <1>3 DEF Asked
  <2> QED BY <2>1, <2>2
<1>7. /\ subscriptions' \in Seq(Client)
      /\ Items(subscriptions') = Items(subscriptions) \ {c}
      /\ Distinct(subscriptions')
  BY <1>1, <1>2, RemoveItem DEF Typed, RouteList
<1>8. Typed'
  <2>1. subscribed' \in [Client -> {0, 1}]
    BY <1>1, <1>2, <1>4 DEF Typed
  <2>2. fromBroker' \in [Client -> Seq(ChannelAnswer)]
    BY <1>1, <1>a, <1>b DEF Typed, p
  <2> QED BY <2>1, <2>2, <1>1, <1>2, <1>3, <1>7 DEF Typed
<1>9. RouteList'
  BY <1>1, <1>2, <1>7 DEF RouteList
<1>10. Items(subscriptions)' = Items(subscriptions')
  BY DEF Items
<1>11. ASSUME NEW d \in Client \ {c} PROVE SameAt(d)
  <2>1. subscribed'[d] = subscribed[d] /\ fromBroker'[d] = fromBroker[d]
    BY <1>1, <1>2, <1>a DEF Typed
  <2> QED BY <2>1, <1>2, <1>3, <1>7, <1>10 DEF SameAt
<1>12. At(c)'
  <2>1. EndedAt(c)' /\ CallbacksAt(c)'
    BY <1>1, <1>2, <1>3, <1>c DEF At, EndedAt, CallbacksAt, p
  <2>2. AcksAt(c)'
    <3>1. \A i \in DOMAIN fromBroker'[c] : IsAck(c, i)' =>
            i \in DOMAIN fromBroker[c] /\ IsAck(c, i) /\ fromBroker'[c][i] = fromBroker[c][i]
      BY <1>2, <1>d DEF IsAck
    <3>2. \A i \in DOMAIN toBroker'[c] : toBroker'[c][i].type = "Subscribe" =>
            /\ OwnerOf[toBroker'[c][i].of] = c /\ status[toBroker'[c][i].of] = "subscribing"
            /\ \A j \in DOMAIN fromBroker'[c] : IsAck(c, j)' => fromBroker'[c][j].of # toBroker'[c][i].of
      <4>1. SUFFICES ASSUME NEW i \in DOMAIN toBroker'[c], toBroker'[c][i].type = "Subscribe"
                     PROVE  /\ OwnerOf[toBroker'[c][i].of] = c /\ status[toBroker'[c][i].of] = "subscribing"
                            /\ \A j \in DOMAIN fromBroker'[c] : IsAck(c, j)' => fromBroker'[c][j].of # toBroker'[c][i].of
        OBVIOUS
      <4>2. PICK k \in DOMAIN toBroker[c] : toBroker'[c][i] = toBroker[c][k]
        BY <4>1, <1>3
      <4>3. /\ OwnerOf[toBroker[c][k].of] = c /\ status[toBroker[c][k].of] = "subscribing"
            /\ \A j \in DOMAIN fromBroker[c] : IsAck(c, j) => fromBroker[c][j].of # toBroker[c][k].of
        BY <4>1, <4>2, <1>1 DEF At, AcksAt
      <4> QED BY <4>2, <4>3, <3>1
    <3>3. \A i \in DOMAIN fromBroker'[c] : IsAck(c, i)' =>
            /\ OwnerOf[fromBroker'[c][i].of] = c /\ status[fromBroker'[c][i].of] = "subscribing"
            /\ \A j \in DOMAIN fromBroker'[c] :
                 IsAck(c, j)' /\ fromBroker'[c][j].of = fromBroker'[c][i].of => i = j
      BY <3>1, <1>1 DEF At, AcksAt
    <3> QED BY <3>2, <3>3, <1>2 DEF AcksAt
  <2>4. \A i \in DOMAIN fromBroker'[c] : IsMessage(c, i)' =>
          i \in DOMAIN fromBroker[c] /\ IsMessage(c, i) /\ fromBroker'[c][i] = fromBroker[c][i]
    BY <1>d DEF IsMessage
  <2>5. InLineAt(c)'
    BY <2>4, <1>1, <1>2 DEF At, InLineAt
  <2>6. ReadAt(c)'
    <3>1. IsMessage(c, reading[c]) => IsMessage(c, reading[c])'
      BY <1>2, <1>d DEF IsMessage
    <3>2. buffered[c] \in Nat
      BY <1>1 DEF Typed
    <3>3. buffered[c] <= Len(fromBroker'[c])
      BY <3>2, <1>1, <1>e DEF At, ReadAt
    <3> QED BY <3>1, <3>3, <1>1, <1>2 DEF At, ReadAt
  <2>3. RouteAt(c)'
    <3>1. /\ \A i, j \in DOMAIN toBroker'[c] :
               toBroker'[c][i].type = "Subscribe" /\ toBroker'[c][j].type # "Publish" => j <= i
          /\ \A i, j \in DOMAIN toBroker'[c] :
               toBroker'[c][i].type = "Unsubscribe" /\ toBroker'[c][j].type = "Unsubscribe" => i = j
      <4>1. \A i, j \in Nat : j + 1 <= i + 1 => j <= i
        OBVIOUS
      <4> QED BY <4>1, <1>1, <1>3, <1>5 DEF At, RouteAt, Asked
    <3>2. subscribed'[c] = 0
      BY <1>1, <1>2, <1>4 DEF Typed
    <3>3. c \in alive => /\ Asked(c, "Subscribe") => listener[c] > 0
                         /\ ~Asked(c, "Subscribe") => listener[c] = 0
      BY <1>1, <1>4 DEF At, RouteAt
    <3> QED BY <3>1, <3>2, <3>3, <1>2, <1>5, <1>6, <1>7, <1>10 DEF RouteAt
  <2> QED BY <2>1, <2>2, <2>3, <2>5, <2>6 DEF At
<1>13. ASSUME NEW t \in Subscriber, OwnerOf[t] = c PROVE Of(t)'
  <2>1. Of(t)
    BY DEF ChannelInv
  <2>2. since[t] = Unrouted \/ c \notin alive
    BY <2>1, <1>4, <1>13 DEF Of, RoutedSince, Routed
  <2>3. \A i \in DOMAIN fromBroker'[c] : Due(t, i)' =>
          i \in DOMAIN fromBroker[c] /\ Due(t, i) /\ fromBroker'[c][i] = fromBroker[c][i]
    <3>1. SUFFICES ASSUME NEW i \in DOMAIN fromBroker'[c], Due(t, i)'
                   PROVE  i \in DOMAIN fromBroker[c] /\ Due(t, i) /\ fromBroker'[c][i] = fromBroker[c][i]
      OBVIOUS
    <3>2. fromBroker'[c][i].type = "Message"
      BY <3>1, <1>13 DEF Due, Ahead
    <3>3. i \in DOMAIN fromBroker[c] /\ fromBroker'[c][i] = fromBroker[c][i]
      BY <3>2, <1>d
    <3> QED BY <3>1, <3>3, <1>2, <1>13, DueBefore
  <2>4. GotBy(t)'
    BY <2>1, <2>3, <1>2, <1>13 DEF Of, GotBy
  <2>5. RoutedSince(t)' /\ NothingMissed(t)'
    BY <2>1, <2>2, <1>2, <1>13 DEF Of, RoutedSince, NothingMissed
  <2> QED BY <2>4, <2>5 DEF Of
<1> QED BY <1>2, <1>8, <1>9, <1>11, <1>12, <1>13, OneClient


(* What the server writes to one client: the message if it has a route,    *)
(* and the ack behind it.                                                  *)
Writes(x, k, e) == [i \in 1 .. k |-> x] \o e

LEMMA Written ==
  ASSUME NEW S, NEW x \in S, NEW y \in S, NEW k \in {0, 1}, NEW e \in Seq(S),
         \A i \in DOMAIN e : e[i] = y, NEW w, w = Writes(x, k, e)
  PROVE  /\ w \in Seq(S)
         /\ \A i \in DOMAIN w : (i = 1 /\ k = 1 /\ w[i] = x) \/ w[i] = y
         /\ k = 1 => 1 \in DOMAIN w /\ w[1] = x
<1>1. PICK u : u = [i \in 1 .. k |-> x]
  OBVIOUS
<1>2. u \in Seq(S) /\ DOMAIN u = 1 .. k /\ Len(u) = k /\ \A i \in DOMAIN u : u[i] = x
  BY <1>1
<1>4. /\ u \o e \in Seq(S) /\ DOMAIN (u \o e) = 1 .. Len(u) + Len(e)
      /\ DOMAIN u = 1 .. Len(u) /\ Len(u) \in Nat /\ DOMAIN e = 1 .. Len(e) /\ Len(e) \in Nat
      /\ \A i \in DOMAIN u : (u \o e)[i] = u[i]
      /\ \A i \in 1 .. Len(u) + Len(e) : i > Len(u) => (u \o e)[i] = e[i - Len(u)]
  BY <1>2, Suffixed
<1>5. w = u \o e
  BY <1>1 DEF Writes
<1>6. ASSUME NEW i \in DOMAIN w PROVE (i = 1 /\ k = 1 /\ w[i] = x) \/ w[i] = y
  <2>1. i \in 1 .. Len(u) + Len(e)
    BY <1>4, <1>5, <1>6
  <2>2. CASE i > Len(u)
    <3>1. i - Len(u) \in DOMAIN e
      BY <2>1, <2>2, <1>4
    <3> QED BY <2>1, <2>2, <3>1, <1>4, <1>5
  <2>3. CASE ~(i > Len(u))
    <3>1. i \in DOMAIN u /\ i = 1 /\ k = 1
      BY <2>1, <2>3, <1>2, <1>4
    <3> QED BY <3>1, <1>2, <1>4, <1>5
  <2> QED BY <2>2, <2>3
<1>7. ASSUME k = 1 PROVE 1 \in DOMAIN w /\ w[1] = x
  <2>1. 1 \in DOMAIN u /\ 1 \in 1 .. Len(u) + Len(e)
    BY <1>2, <1>4, <1>7
  <2> QED BY <2>1, <1>2, <1>4, <1>5
<1> QED BY <1>4, <1>5, <1>6, <1>7

(* The new message is the last one of every living client with a route.    *)
LEMMA HandlePublishInv ==
  ASSUME ChannelAssumption, ChannelInv, NEW c \in Client, HandlePublish(c)
  PROVE  ChannelInv'
<1> DEFINE Gets(d) == d \in alive /\ d \in Items(subscriptions)
<1>0. PICK N, x, y : N = published + 1 /\ x = [type |-> "Message", v |-> N] /\ y = [type |-> "Done"]
  OBVIOUS
<1>1. /\ Typed /\ RouteList /\ At(c) /\ published \in Nat /\ N \in Nat /\ Next1(c, "Publish")
      /\ x \in ChannelAnswer /\ y \in ChannelAnswer
  <2>1. Typed /\ RouteList /\ At(c) /\ Next1(c, "Publish")
    BY DEF ChannelInv, HandlePublish
  <2>2. published \in Nat /\ N \in Nat
    BY <2>1, <1>0 DEF Typed
  <2>3. x \in ChannelAnswer /\ y \in ChannelAnswer
    BY <2>2, <1>0 DEF ChannelAnswer
  <2> QED BY <2>1, <2>2, <2>3
<1>2. /\ UNCHANGED <<connections, subscriptions, subscribed, alive, listener, callbacks, status, at, reading,
                     buffered, rest, handled, thrown, delivered, since, skipped>>
      /\ published' = N
  BY <1>0 DEF HandlePublish, channelVars, loopVars, feedVars
<1>3. ASSUME NEW d \in Client
      PROVE  \E w \in Seq(ChannelAnswer) :
               /\ fromBroker'[d] = fromBroker[d] \o w
               /\ \A i \in DOMAIN w : (i = 1 /\ Gets(d) /\ w[i] = x) \/ w[i] = y
               /\ Gets(d) => 1 \in DOMAIN w /\ w[1] = x
               /\ d \notin alive => w = <<>>
  <2>1. PICK w : w = [i \in 1 .. Routes(d) |-> x] \o (IF d = c THEN <<y>> ELSE <<>>)
    OBVIOUS
  <2>2. fromBroker'[d] = IF d \in alive THEN fromBroker[d] \o w ELSE fromBroker[d]
    BY <2>1, <1>0, <1>2 DEF HandlePublish, Sent
  <2>3. Routes(d) \in {0, 1} /\ (Routes(d) = 1 <=> d \in Items(subscriptions))
    <3>1. Routes(d) = IF d \in Items(subscriptions) THEN 1 ELSE 0
      BY <1>1, Places DEF Typed, RouteList, Routes
    <3> QED BY <3>1
  <2>4. fromBroker[d] \in Seq(ChannelAnswer)
    BY <1>1 DEF Typed
  <2>5. PICK k \in {0, 1} : k = Routes(d)
    BY <2>3
  <2>6. PICK e : e = IF d = c THEN <<y>> ELSE <<>>
    OBVIOUS
  <2>a. e \in Seq(ChannelAnswer) /\ \A i \in DOMAIN e : e[i] = y
    <3>1. CASE d = c
      <4>1. DOMAIN <<y>> = {1} /\ <<y>>[1] = y /\ <<y>> \in Seq(ChannelAnswer)
        BY <1>1
      <4> QED BY <2>6, <3>1, <4>1
    <3>2. CASE d # c
      <4>1. DOMAIN <<>> = {} /\ <<>> \in Seq(ChannelAnswer)
        OBVIOUS
      <4> QED BY <2>6, <3>2, <4>1
    <3> QED BY <3>1, <3>2
  <2>7. w = Writes(x, k, e)
    BY <2>1, <2>5, <2>6 DEF Writes
  <2>8. /\ w \in Seq(ChannelAnswer)
        /\ \A i \in DOMAIN w : (i = 1 /\ k = 1 /\ w[i] = x) \/ w[i] = y
        /\ k = 1 => 1 \in DOMAIN w /\ w[1] = x
    BY <2>7, <2>a, <1>1, Written
  <2>9. CASE d \in alive
    BY <2>2, <2>3, <2>5, <2>8, <2>9
  <2>10. CASE d \notin alive
    <3>1. fromBroker'[d] = fromBroker[d] \o <<>> /\ <<>> \in Seq(ChannelAnswer) /\ DOMAIN <<>> = {}
      BY <2>2, <2>4, <2>10
    <3> QED BY <3>1, <2>10
  <2> QED BY <2>9, <2>10
<1>4. /\ toBroker' \in [Client -> Seq(ChannelRequest)]
      /\ \A d \in Client \ {c} : toBroker'[d] = toBroker[d]
      /\ 1 \in DOMAIN toBroker[c] /\ toBroker[c][1].type = "Publish"
      /\ \A i \in DOMAIN toBroker'[c] :
           i \in Nat /\ i >= 1 /\ i + 1 \in DOMAIN toBroker[c] /\ toBroker'[c][i] = toBroker[c][i + 1]
      /\ \A i \in DOMAIN toBroker[c] :
           i = 1 \/ (i - 1 \in DOMAIN toBroker'[c] /\ toBroker'[c][i - 1] = toBroker[c][i])
      /\ c \in connections
  BY <1>1, Requests
<1>5. ASSUME NEW d \in Client, NEW type \in {"Subscribe", "Unsubscribe"}
      PROVE  Asked(d, type)' <=> Asked(d, type)
  <2>1. CASE d # c
    BY <2>1, <1>4 DEF Asked
  <2>2. CASE d = c
    <3>1. Asked(c, type)' => Asked(c, type)
      BY <1>4 DEF Asked
    <3>2. ASSUME Asked(c, type) PROVE Asked(c, type)'
      <4>1. PICK i \in DOMAIN toBroker[c] : toBroker[c][i].type = type
        BY <3>2 DEF Asked
      <4>2. i # 1
        BY <4>1, <1>4
      <4> QED BY <4>1, <4>2, <1>4 DEF Asked
    <3> QED BY <2>2, <3>1, <3>2
  <2> QED BY <2>1, <2>2
<1>6. ASSUME NEW d \in Client
      PROVE  \E k \in {0, 1} : \A i \in DOMAIN toBroker'[d] :
               i \in Nat /\ i + k \in DOMAIN toBroker[d] /\ toBroker'[d][i] = toBroker[d][i + k]
  <2>1. CASE d # c
    <3>1. \A i \in DOMAIN toBroker[d] : i \in Nat /\ i + 0 = i
      <4>1. toBroker[d] \in Seq(ChannelRequest)
        BY <1>1 DEF Typed
      <4> QED BY <4>1
    <3> QED BY <2>1, <3>1, <1>4
  <2>2. CASE d = c
    BY <2>2, <1>4
  <2> QED BY <2>1, <2>2
<1>7. x.type = "Message" /\ x.v = N /\ y.type = "Done"
  BY <1>0
<1>8. ASSUME NEW d \in Client
      PROVE  /\ fromBroker'[d] \in Seq(ChannelAnswer)
             /\ Len(fromBroker'[d]) \in Nat /\ Len(fromBroker[d]) \in Nat /\ Len(fromBroker[d]) <= Len(fromBroker'[d])
             /\ \A i \in DOMAIN fromBroker[d] : i \in DOMAIN fromBroker'[d] /\ fromBroker'[d][i] = fromBroker[d][i]
             /\ \A i \in DOMAIN fromBroker'[d] :
                  \/ i \in DOMAIN fromBroker[d]
                  \/ Gets(d) /\ i = Len(fromBroker[d]) + 1 /\ fromBroker'[d][i] = x
                  \/ fromBroker'[d][i].type = "Done"
             /\ \A i \in DOMAIN fromBroker[d] : i \in Nat /\ i < Len(fromBroker[d]) + 1
             /\ \A i \in DOMAIN fromBroker'[d] : i \in Nat /\ i >= 1
             /\ Gets(d) => /\ Len(fromBroker[d]) + 1 \in DOMAIN fromBroker'[d]
                           /\ fromBroker'[d][Len(fromBroker[d]) + 1] = x
             /\ d \notin alive => fromBroker'[d] = fromBroker[d]
  <2>1. PICK w \in Seq(ChannelAnswer) :
          /\ fromBroker'[d] = fromBroker[d] \o w
          /\ \A i \in DOMAIN w : (i = 1 /\ Gets(d) /\ w[i] = x) \/ w[i] = y
          /\ Gets(d) => 1 \in DOMAIN w /\ w[1] = x
          /\ d \notin alive => w = <<>>
    BY <1>3
  <2>2. PICK p \in Seq(ChannelAnswer) : p = fromBroker[d]
    BY <1>1 DEF Typed
  <2> HIDE DEF Gets
  <2>3. /\ p \o w \in Seq(ChannelAnswer)
        /\ DOMAIN (p \o w) = 1 .. Len(p) + Len(w) /\ Len(p \o w) = Len(p) + Len(w)
        /\ DOMAIN p = 1 .. Len(p) /\ Len(p) \in Nat
        /\ DOMAIN w = 1 .. Len(w) /\ Len(w) \in Nat
        /\ \A i \in DOMAIN p : (p \o w)[i] = p[i]
        /\ \A i \in 1 .. Len(p) + Len(w) : i > Len(p) => (p \o w)[i] = w[i - Len(p)]
    BY Suffixed
  <2>4. PICK q : q = p \o w
    OBVIOUS
  <2>5. /\ \A i \in DOMAIN p : i \in Nat /\ i < Len(p) + 1 /\ i \in DOMAIN q /\ q[i] = p[i]
        /\ \A i \in DOMAIN q : i \in Nat /\ i >= 1
        /\ Len(q) \in Nat /\ Len(p) <= Len(q)
    BY <2>3, <2>4
  <2>6. ASSUME NEW i \in DOMAIN q, i \notin DOMAIN p
        PROVE  (Gets(d) /\ i = Len(p) + 1 /\ q[i] = x) \/ q[i].type = "Done"
    <3>1. i > Len(p) /\ i - Len(p) \in DOMAIN w /\ q[i] = w[i - Len(p)] /\ (i - Len(p) = 1 => i = Len(p) + 1)
      BY <2>3, <2>4, <2>6
    <3> QED BY <3>1, <2>1, <1>7
  <2>7. Gets(d) => Len(p) + 1 \in DOMAIN q /\ q[Len(p) + 1] = x
    <3>1. 1 \in DOMAIN w => /\ Len(p) + 1 \in DOMAIN q /\ Len(p) + 1 \in 1 .. Len(p) + Len(w) /\ Len(p) + 1 > Len(p)
                            /\ (Len(p) + 1) - Len(p) = 1
      BY <2>3, <2>4
    <3> QED BY <3>1, <2>1, <2>3, <2>4
  <2>8. d \notin alive => q = p
    BY <2>1, <2>4
  <2>9. fromBroker'[d] = q /\ fromBroker[d] = p
    BY <2>1, <2>2, <2>4
  <2>10. q \in Seq(ChannelAnswer) /\ Len(p) \in Nat
    BY <2>3, <2>4
  <2>11. \A i \in DOMAIN q : \/ i \in DOMAIN p
                             \/ Gets(d) /\ i = Len(p) + 1 /\ q[i] = x
                             \/ q[i].type = "Done"
    BY <2>6
  <2> QED BY <2>5, <2>7, <2>8, <2>9, <2>10, <2>11, Zenon
<1> HIDE DEF Gets
<1>9. Typed'
  <2>1. fromBroker' \in [Client -> Seq(ChannelAnswer)]
    <3>1. fromBroker' = [d \in Client |-> fromBroker'[d]]
      BY DEF HandlePublish
    <3> QED BY <3>1, <1>8
  <2> QED BY <2>1, <1>1, <1>2, <1>4 DEF Typed
<1>10. RouteList'
  BY <1>1, <1>2 DEF RouteList, Items, Distinct
<1>11. N = published + 1 /\ N \in Nat
  BY <1>0, <1>1
<1>12. ASSUME NEW d \in Client PROVE At(d)'
  <2>1. At(d)
    BY DEF ChannelInv
  <2>2. EndedAt(d)'
    <3>1. d \notin alive => fromBroker'[d] = fromBroker[d]
      BY <1>8
    <3>2. d \notin connections => toBroker'[d] = toBroker[d]
      BY <1>4
    <3> QED BY <3>1, <3>2, <2>1, <1>2 DEF At, EndedAt
  <2>3. CallbacksAt(d)'
    BY <2>1, <1>2 DEF At, CallbacksAt
  <2>4. \A i \in DOMAIN fromBroker'[d] : IsAck(d, i)' =>
          i \in DOMAIN fromBroker[d] /\ IsAck(d, i) /\ fromBroker'[d][i] = fromBroker[d][i]
    BY <1>2, <1>7, <1>8 DEF IsAck
  <2>5. PICK k \in {0, 1} : \A i \in DOMAIN toBroker'[d] :
           i \in Nat /\ i + k \in DOMAIN toBroker[d] /\ toBroker'[d][i] = toBroker[d][i + k]
    BY <1>6
  <2>6. AcksAt(d)'
    <3>1. ASSUME NEW i \in DOMAIN toBroker'[d], toBroker'[d][i].type = "Subscribe"
          PROVE  /\ OwnerOf[toBroker'[d][i].of] = d /\ status[toBroker'[d][i].of] = "subscribing"
                 /\ \A j \in DOMAIN fromBroker'[d] : IsAck(d, j)' => fromBroker'[d][j].of # toBroker'[d][i].of
      <4>1. PICK n \in DOMAIN toBroker[d] : toBroker'[d][i] = toBroker[d][n]
        BY <2>5
      <4>2. /\ OwnerOf[toBroker[d][n].of] = d /\ status[toBroker[d][n].of] = "subscribing"
            /\ \A j \in DOMAIN fromBroker[d] : IsAck(d, j) => fromBroker[d][j].of # toBroker[d][n].of
        BY <3>1, <4>1, <2>1 DEF At, AcksAt
      <4> QED BY <4>1, <4>2, <2>4
    <3>2. \A i \in DOMAIN fromBroker'[d] : IsAck(d, i)' =>
            /\ OwnerOf[fromBroker'[d][i].of] = d /\ status[fromBroker'[d][i].of] = "subscribing"
            /\ \A j \in DOMAIN fromBroker'[d] :
                 IsAck(d, j)' /\ fromBroker'[d][j].of = fromBroker'[d][i].of => i = j
      BY <2>1, <2>4 DEF At, AcksAt
    <3> QED BY <3>1, <3>2, <1>2 DEF AcksAt
  <2>9. ReadAt(d)'
    <3>1. IsMessage(d, reading[d]) => IsMessage(d, reading[d])'
      BY <1>2, <1>8 DEF IsMessage
    <3>2. buffered[d] \in Nat /\ buffered[d] <= Len(fromBroker[d])
      BY <2>1, <1>1 DEF Typed, At, ReadAt
    <3>3. buffered[d] <= Len(fromBroker'[d])
      BY <3>2, <1>8
    <3> QED BY <3>1, <3>3, <2>1, <1>2 DEF At, ReadAt
  <2>7. RouteAt(d)'
    <3>1. /\ \A i, j \in DOMAIN toBroker'[d] :
               toBroker'[d][i].type = "Subscribe" /\ toBroker'[d][j].type # "Publish" => j <= i
          /\ \A i, j \in DOMAIN toBroker'[d] :
               toBroker'[d][i].type = "Unsubscribe" /\ toBroker'[d][j].type = "Unsubscribe" => i = j
      <4>1. \A i, j \in Nat : (j + k <= i + k => j <= i) /\ (i + k = j + k => i = j)
        OBVIOUS
      <4> QED BY <4>1, <2>1, <2>5 DEF At, RouteAt
    <3>2. Items(subscriptions)' = Items(subscriptions)
      BY <1>2 DEF Items
    <3> QED BY <3>1, <3>2, <2>1, <1>2, <1>5 DEF At, RouteAt
  <2>8. InLineAt(d)'
    <3>2. \A i : IsMessage(d, i)' =>
            \/ IsMessage(d, i) /\ fromBroker'[d][i] = fromBroker[d][i] /\ i \in DOMAIN fromBroker[d]
            \/ i = Len(fromBroker[d]) + 1 /\ fromBroker'[d][i].v = N
      BY <1>7, <1>8 DEF IsMessage
    <3>3. \A i : IsMessage(d, i) => fromBroker[d][i].v \in 1 .. published
      BY <2>1 DEF At, InLineAt, IsMessage
    <3>4. N \in 1 .. N /\ \A m \in 1 .. published : m < N /\ m \in 1 .. N
      BY <1>1, <1>11
    <3>5. \A i \in DOMAIN fromBroker'[d] : IsMessage(d, i)' => fromBroker'[d][i].v \in 1 .. N
      BY <3>2, <3>3, <3>4
    <3>6. \A i, j \in DOMAIN fromBroker'[d] :
             IsMessage(d, i)' /\ IsMessage(d, j)' /\ i < j => fromBroker'[d][i].v < fromBroker'[d][j].v
      <4>1. SUFFICES ASSUME NEW i \in DOMAIN fromBroker'[d], NEW j \in DOMAIN fromBroker'[d],
                            IsMessage(d, i)', IsMessage(d, j)', i < j
                     PROVE  fromBroker'[d][i].v < fromBroker'[d][j].v
        OBVIOUS
      <4>2. CASE j \in DOMAIN fromBroker[d]
        <5>1. IsMessage(d, j) /\ fromBroker'[d][j] = fromBroker[d][j] /\ j < Len(fromBroker[d]) + 1
          BY <4>1, <4>2, <1>8 DEF IsMessage
        <5>2. i # Len(fromBroker[d]) + 1
          BY <4>1, <4>2, <1>8
        <5> QED BY <4>1, <5>1, <5>2, <4>2, <3>2, <2>1 DEF At, InLineAt
      <4>3. CASE j = Len(fromBroker[d]) + 1
        <5>1. i # j /\ fromBroker'[d][j].v = N
          <6>1. i \in Nat /\ j \in Nat
            BY <1>8
          <6> QED BY <6>1, <4>1, <4>3, <3>2, <1>8
        <5> QED BY <4>1, <4>3, <5>1, <3>2, <3>3, <3>4
      <4> QED BY <4>1, <4>2, <4>3, <3>2
    <3> QED BY <3>5, <3>6, <1>2 DEF InLineAt
  <2> QED BY <2>2, <2>3, <2>6, <2>7, <2>8, <2>9 DEF At
<1>13. ASSUME NEW t \in Subscriber PROVE Of(t)'
  <2> DEFINE d == OwnerOf[t]
  <2>1. Of(t) /\ d \in Client /\ At(d)
    BY DEF ChannelInv, ChannelAssumption
  <2>2. Routed(d)' <=> Routed(d)
    BY <2>1, <1>2, <1>5 DEF Routed
  <2>3. \A i \in DOMAIN fromBroker[d] : Due(t, i)' <=> Due(t, i)
    BY <2>1, <1>2, <1>8, DueBefore
  <2>4. \A k \in DOMAIN delivered[t] : delivered[t][k].v < N /\ delivered[t][k].v \in 1 .. N
    <3>1. \A m \in 1 .. published : m < N /\ m \in 1 .. N
      BY <1>1, <1>11
    <3> QED BY <3>1, <2>1 DEF Of, GotBy
  <2>5. \A i \in DOMAIN fromBroker'[d] : Due(t, i)' =>
          \/ Due(t, i) /\ fromBroker'[d][i] = fromBroker[d][i] /\ i \in DOMAIN fromBroker[d]
          \/ i = Len(fromBroker[d]) + 1 /\ fromBroker'[d][i].v = N
    <3>1. \A i : Due(t, i)' => fromBroker'[d][i].type = "Message"
      BY DEF Due, Ahead
    <3> QED BY <3>1, <2>1, <2>3, <1>7, <1>8
  <2>6. GotBy(t)'
    BY <2>1, <2>4, <2>5, <1>2 DEF Of, GotBy
  <2>7. RoutedSince(t)'
    <3>1. since[t] <= N
      <4>1. since[t] \in Nat \cup {Unrouted} /\ since[t] <= published
        BY <2>1, <1>1 DEF Typed, Of, RoutedSince
      <4> QED BY <4>1, <1>1, <1>11 DEF Unrouted
    <3> QED BY <3>1, <2>1, <2>2, <1>2 DEF Of, RoutedSince
  <2>8. NothingMissed(t)'
    <3>1. SUFFICES ASSUME d \in alive, t \notin skipped, since[t] # Unrouted,
                          NEW m \in Nat, since[t] < m, m <= N
                   PROVE  Arrived(t, m)' \/ OnItsWay(t, m)'
      BY <1>2 DEF NothingMissed
    <3>2. CASE m = N
      <4>1. d \in Items(subscriptions)
        BY <2>1, <3>1 DEF Of, RoutedSince, Routed, Items
      <4>2. Gets(d)
        BY <4>1, <3>1 DEF Gets
      <4>3. PICK n : n = Len(fromBroker[d]) + 1
        OBVIOUS
      <4>4. n \in DOMAIN fromBroker'[d] /\ fromBroker'[d][n] = x
        BY <4>2, <4>3, <2>1, <1>8
      <4>5. n > reading'[d]
        <5>1. reading[d] \in Nat /\ buffered[d] \in Nat /\ reading[d] <= buffered[d] /\ buffered[d] <= Len(fromBroker[d])
          BY <2>1, <1>1 DEF Typed, At, ReadAt
        <5>2. Len(fromBroker[d]) \in Nat
          BY <2>1, <1>8
        <5> QED BY <5>1, <5>2, <4>3, <1>2
      <4>6. Due(t, n)'
        BY <4>4, <4>5, <1>7 DEF Due, Ahead
      <4> QED BY <3>2, <4>4, <4>6, <1>7 DEF OnItsWay
    <3>3. CASE m # N
      <4>1. m <= published
        BY <3>1, <3>3, <1>1, <1>11
      <4>2. Arrived(t, m) \/ OnItsWay(t, m)
        BY <3>1, <4>1, <2>1 DEF Of, NothingMissed
      <4>3. Arrived(t, m) => Arrived(t, m)'
        BY <1>2 DEF Arrived
      <4>4. OnItsWay(t, m) => OnItsWay(t, m)'
        BY <2>1, <2>3, <1>8 DEF OnItsWay
      <4> QED BY <4>2, <4>3, <4>4
    <3> QED BY <3>2, <3>3
  <2> QED BY <2>6, <2>7, <2>8 DEF Of
<1> QED BY <1>9, <1>10, <1>12, <1>13 DEF ChannelInv
-----------------------------------------------------------------------------
LEMMA ChannelStep ==
  ASSUME ChannelAssumption, ChannelInv, [ChannelNext]_brokerChannelVars
  PROVE  ChannelInv'
<1>1. CASE UNCHANGED brokerChannelVars
  <2>1. UNCHANGED <<connections, subscriptions, subscribed, published, alive, listener, callbacks, status,
                    at, reading, buffered, rest, handled, thrown, delivered, since, skipped, toBroker, fromBroker>>
    BY <1>1 DEF brokerChannelVars, serverVars, channelVars, loopVars, feedVars
  <2>2. Typed' /\ RouteList'
    BY <2>1 DEF ChannelInv, Typed, RouteList, Items, Distinct
  <2>3. \A d \in Client : SameAt(d)
    BY <2>1 DEF SameAt, Items
  <2>4. \A d \in Client : At(d)'
    BY <2>1, <2>3, Elsewhere
  <2>5. \A s \in Subscriber : OwnerOf[s] \in Client
    BY DEF ChannelAssumption
  <2>6. \A s \in Subscriber : Of(s)'
    BY <2>1, <2>3, <2>5, Elsewhere
  <2> QED BY <2>2, <2>4, <2>6 DEF ChannelInv
<1>2. ASSUME NEW s \in Subscriber, Subscribe(s) PROVE ChannelInv'
  BY <1>2, SubscribeInv
<1>3. ASSUME NEW s \in Subscriber, Unsubscribe(s) PROVE ChannelInv'
  BY <1>3, UnsubscribeInv
<1>4. ASSUME NEW c \in Client,
             \/ Publish(c) \/ OnData(c) \/ OnAck(c) \/ OnDone(c) \/ StaleAck(c)
             \/ OnMessage(c) \/ NextCallback(c) \/ CallbackThrows(c)
      PROVE  ChannelInv'
  BY <1>4, PublishInv, OnDataInv, OnAckInv, OnDoneInv, StaleAckInv, OnMessageInv, NextCallbackInv, CallbackThrowsInv
<1>5. ASSUME NEW c \in Client,
             HandleSubscribe(c) \/ HandleUnsubscribe(c) \/ HandlePublish(c) \/ Die(c) \/ CloseChannels(c)
      PROVE  ChannelInv'
  BY <1>5, HandleSubscribeInv, HandleUnsubscribeInv, HandlePublishInv, DieInv, ChannelsCloseInv
<1> QED BY <1>1, <1>2, <1>3, <1>4, <1>5 DEF ChannelNext

(* How the clients, their callbacks, the server's list and the messages on *)
(* their way belong together, at any moment.                               *)
THEOREM ChannelInvariance ==
  ASSUME ChannelAssumption
  PROVE  ChannelSpec => []ChannelInv
<1>1. ChannelInit => ChannelInv
  BY ChannelsInitInv
<1>2. ChannelInv /\ [ChannelNext]_brokerChannelVars => ChannelInv'
  BY ChannelStep
<1> QED BY <1>1, <1>2, PTL DEF ChannelSpec

LEMMA InvType ==
  ASSUME ChannelAssumption, ChannelInv
  PROVE  ChannelTypeOK
<1>1. Typed /\ published \in Nat /\ Cardinality(Subscriber) \in Nat
  BY FS_CardinalityType DEF ChannelInv, Typed, ChannelAssumption
<1>2. ASSUME NEW c \in Client
      PROVE  listener[c] \in 0 .. Cardinality(Subscriber) /\ at[c] \in 0 .. Cardinality(Subscriber) + 1
  <2>1. At(c) /\ callbacks[c] \in Seq(Subscriber) /\ listener[c] \in Nat /\ at[c] \in Nat
    BY <1>1 DEF ChannelInv, Typed
  <2>2. Distinct(callbacks[c]) /\ listener[c] = Len(callbacks[c])
    BY <2>1 DEF At, CallbacksAt
  <2>3. Len(callbacks[c]) <= Cardinality(Subscriber)
    BY <2>1, <2>2, DistinctLength DEF ChannelAssumption
  <2>4. at[c] <= Cardinality(Subscriber) + 1
    BY <2>1 DEF At, CallbacksAt
  <2> QED BY <1>1, <2>1, <2>2, <2>3, <2>4
<1>3. ASSUME NEW s \in Subscriber
      PROVE  delivered[s] \in Seq([pass : Nat, v : 1 .. published]) /\ since[s] \in Unrouted .. published
  <2>1. Of(s) /\ delivered[s] \in Seq(Delivery) /\ since[s] \in Nat \cup {Unrouted}
    BY <1>1 DEF ChannelInv, Typed
  <2>2. DOMAIN delivered[s] = 1 .. Len(delivered[s]) /\ Len(delivered[s]) \in Nat
    BY <2>1
  <2>3. ASSUME NEW k \in 1 .. Len(delivered[s]) PROVE delivered[s][k] \in [pass : Nat, v : 1 .. published]
    <3>1. delivered[s][k] \in Delivery /\ delivered[s][k].v \in 1 .. published
      BY <2>1, <2>2 DEF Of, GotBy
    <3> QED BY <3>1 DEF Delivery
  <2>4. delivered[s] \in Seq([pass : Nat, v : 1 .. published])
    <3>1. delivered[s] = [k \in 1 .. Len(delivered[s]) |-> delivered[s][k]]
      BY <2>1, <2>2
    <3>2. delivered[s] \in [1 .. Len(delivered[s]) -> [pass : Nat, v : 1 .. published]]
      BY <2>3, <3>1
    <3> QED BY <2>2, <3>2, SeqDef
  <2>5. since[s] <= published
    BY <2>1 DEF Of, RoutedSince
  <2> QED BY <1>1, <2>1, <2>4, <2>5 DEF Unrouted
<1>4. /\ listener \in [Client -> 0 .. Cardinality(Subscriber)]
      /\ at \in [Client -> 0 .. Cardinality(Subscriber) + 1]
  BY <1>1, <1>2 DEF Typed
<1>5. /\ delivered \in [Subscriber -> Seq([pass : Nat, v : 1 .. published])]
      /\ since \in [Subscriber -> Unrouted .. published]
  BY <1>1, <1>3 DEF Typed
<1>6. subscribed \in [Client -> 0 .. 1]
  BY <1>1 DEF Typed
<1> QED BY <1>1, <1>4, <1>5, <1>6 DEF Typed, ChannelTypeOK

LEMMA InvRoutes ==
  ASSUME ChannelAssumption, ChannelInv
  PROVE  RoutesAreListeners
<1>1. Typed /\ RouteList
  BY DEF ChannelInv
<1>2. ASSUME NEW i \in DOMAIN subscriptions PROVE subscriptions[i] \in connections
  BY <1>1 DEF RouteList, Items
<1>3. ASSUME NEW c \in alive
      PROVE  Routes(c) + OnTheWay(c, "Subscribe")
               = (IF listener[c] > 0 THEN 1 ELSE 0) + OnTheWay(c, "Unsubscribe")
  <2>1. c \in Client /\ At(c) /\ listener[c] \in Nat
    BY <1>1 DEF ChannelInv, Typed
  <2>2. Routes(c) = IF c \in Items(subscriptions) THEN 1 ELSE 0
    BY <1>1, Places DEF Typed, RouteList, Routes
  <2>3. DOMAIN toBroker[c] \subseteq Nat
    <3>1. toBroker[c] \in Seq(ChannelRequest)
      BY <1>1, <2>1 DEF Typed
    <3> QED BY <3>1
  <2>4. ASSUME NEW type \in {"Subscribe", "Unsubscribe"}
        PROVE  OnTheWay(c, type) = IF Asked(c, type) THEN 1 ELSE 0
    <3>1. \A i, j \in DOMAIN toBroker[c] : toBroker[c][i].type = type /\ toBroker[c][j].type = type => i = j
      BY <2>1, <2>3, <2>4 DEF At, RouteAt
    <3> DEFINE at1 == {i \in DOMAIN toBroker[c] : toBroker[c][i].type = type}
    <3>2. CASE Asked(c, type)
      <4>1. PICK i \in DOMAIN toBroker[c] : toBroker[c][i].type = type
        BY <3>2 DEF Asked
      <4>2. at1 = {i}
        BY <3>1, <4>1
      <4> QED BY <3>2, <4>2, FS_Singleton DEF OnTheWay
    <3>3. CASE ~Asked(c, type)
      <4>1. at1 = {}
        BY <3>3 DEF Asked
      <4> QED BY <3>3, <4>1, FS_EmptySet DEF OnTheWay
    <3> QED BY <3>2, <3>3
  <2> QED BY <2>1, <2>2, <2>4 DEF At, RouteAt
<1> QED BY <1>2, <1>3 DEF RoutesAreListeners

LEMMA InvOrder ==
  ASSUME ChannelInv
  PROVE  DeliversInOrder
BY DEF ChannelInv, Of, GotBy, DeliversInOrder

LEMMA InvNothingMissed ==
  ASSUME ChannelAssumption, ChannelInv
  PROVE  MissesNothing
<1>1. SUFFICES ASSUME NEW s \in Subscriber, OwnerOf[s] \in alive, s \notin skipped, since[s] # Unrouted,
                      NEW m \in since[s] + 1 .. published
               PROVE  m \in Got(s) \cup Coming(s)
  BY DEF MissesNothing
<1>2. Typed /\ Of(s)
  BY DEF ChannelInv
<1>3. since[s] \in Nat /\ published \in Nat
  BY <1>1, <1>2 DEF Typed
<1>4. m \in Nat /\ since[s] < m /\ m <= published
  BY <1>1, <1>3
<1>5. Arrived(s, m) \/ OnItsWay(s, m)
  BY <1>1, <1>2, <1>4 DEF Of, NothingMissed
<1>6. OnItsWay(s, m) => m \in Coming(s)
  BY DEF OnItsWay, Coming, Due
<1> QED BY <1>5, <1>6 DEF Arrived, Got

(* At any moment the server has a route to a client exactly if the client  *)
(* has callbacks, up to the requests under way; a callback gets messages   *)
(* in the order of the server, and one again only behind an exception that *)
(* left feed; and from the route on none passes it by.                     *)
THEOREM ChannelsAreSafe ==
  ASSUME ChannelAssumption
  PROVE  ChannelSpec => []ChannelSafety
<1>1. ChannelInv => ChannelSafety
  BY InvType, InvRoutes, InvOrder, InvNothingMissed DEF ChannelSafety
<1> QED BY <1>1, ChannelInvariance, PTL


(***************************************************************************)
(* The lock of the process: every safety property of ProcessLocker, and    *)
(* that it implements LockService.                                         *)
(***************************************************************************)
(* A ttl timer is armed only for the lock it was armed for: unlock clears  *)
(* it, so it never fires on a later holder's time.                         *)
TtlTimerOfHolder == \A l \in Lock : ttlTimer[l] => holding[l] /\ ttl[l]

(* A deleted entry leaves no waiting request behind. *)
FreeIsEmpty == \A i \in Id : ~entry[i] => queue[i] = <<>>

(* The inductive invariant: none of the parts is inductive alone, since    *)
(* who holds an id after a hand over is read from the queue.               *)
IInv ==
  /\ TypeOK
  /\ MutualExclusion
  /\ EntryIffHeld
  /\ HolderWasTold
  /\ QueueIsPending
  /\ TtlTimerOfHolder
  /\ FreeIsEmpty

USE IdOfAssumption

(* A fresh instance holds nothing and waits nowhere. *)
LEMMA FreshIsIdle ==
  ASSUME IInv, NEW l \in Lock, Fresh(l)
  PROVE  ~holding[l] /\ \A i \in Id : l \notin Items(queue[i])
BY DEF IInv, HolderWasTold, QueueIsPending, Fresh, CallerState

LEMMA InitInv == Init => IInv
<1> SUFFICES ASSUME Init PROVE IInv
  OBVIOUS
<1>1. TypeOK
  BY DEF Init, TypeOK, CallerState
<1>2. QueueIsPending
  BY DEF Init, QueueIsPending, Distinct, Items
<1> QED BY <1>1, <1>2 DEF Init, IInv, MutualExclusion, EntryIffHeld,
           HolderWasTold, TtlTimerOfHolder, FreeIsEmpty

(* Taking an id that nobody holds. *)
LEMMA TakeFreeInv ==
  ASSUME IInv, NEW l \in Lock, NEW hasTtl \in BOOLEAN, Fresh(l),
         TakeFree(l, hasTtl), waitTimer' \in [Lock -> BOOLEAN]
  PROVE  IInv'
<1> USE DEF TakeFree
<1>1. IdOf[l] \in Id /\ queue[IdOf[l]] = <<>> /\ queue' = queue
  BY DEF IInv, TypeOK, FreeIsEmpty
<1>2. TypeOK'
  BY <1>1 DEF IInv, TypeOK, CallerState
<1>3. \A m \in Lock : IdOf[m] = IdOf[l] => ~holding[m]
  BY <1>1 DEF IInv, EntryIffHeld
<1>4. MutualExclusion'
  BY <1>3 DEF IInv, TypeOK, MutualExclusion
<1>5. EntryIffHeld'
  <2> SUFFICES ASSUME NEW i \in Id
               PROVE  entry'[i] <=> \E m \in Lock : IdOf[m] = i /\ holding'[m]
    BY DEF EntryIffHeld
  <2>1. CASE i = IdOf[l]
    BY <2>1 DEF IInv, TypeOK
  <2>2. CASE i # IdOf[l]
    <3>1. entry'[i] = entry[i]
      BY <2>2 DEF IInv, TypeOK
    <3>2. \A m \in Lock : IdOf[m] = i => holding'[m] = holding[m]
      BY <2>2 DEF IInv, TypeOK
    <3>3. entry[i] <=> \E m \in Lock : IdOf[m] = i /\ holding[m]
      BY DEF IInv, EntryIffHeld
    <3> HIDE DEF TakeFree
    <3> QED BY <3>1, <3>2, <3>3
  <2> QED BY <2>1, <2>2
<1>6. HolderWasTold'
  BY DEF IInv, TypeOK, HolderWasTold
<1>7. QueueIsPending'
  <2>1. \A i \in Id : l \notin Items(queue[i])
    BY FreshIsIdle
  <2> QED BY <2>1, <1>1 DEF IInv, TypeOK, QueueIsPending
<1>8. TtlTimerOfHolder'
  BY DEF IInv, TypeOK, TtlTimerOfHolder
<1>9. FreeIsEmpty'
  BY <1>1 DEF IInv, TypeOK, FreeIsEmpty
<1> QED BY <1>2, <1>4, <1>5, <1>6, <1>7, <1>8, <1>9 DEF IInv

(* Waiting for an id that somebody holds. *)
LEMMA EnqueueInv ==
  ASSUME IInv, NEW l \in Lock, NEW hasTtl \in BOOLEAN, Fresh(l),
         Enqueue(l, hasTtl), waitTimer' \in [Lock -> BOOLEAN]
  PROVE  IInv'
<1> USE DEF Enqueue
<1>1. IdOf[l] \in Id /\ queue[IdOf[l]] \in Seq(Lock) /\ ~holding[l]
  BY FreshIsIdle DEF IInv, TypeOK
<1>2. /\ Append(queue[IdOf[l]], l) \in Seq(Lock)
      /\ Items(Append(queue[IdOf[l]], l)) = Items(queue[IdOf[l]]) \cup {l}
      /\ Distinct(Append(queue[IdOf[l]], l))
  BY <1>1, FreshIsIdle, AppendItem DEF IInv, QueueIsPending
<1>3. TypeOK'
  BY <1>1, <1>2 DEF IInv, TypeOK, CallerState
<1>4. MutualExclusion' /\ EntryIffHeld'
  BY DEF IInv, MutualExclusion, EntryIffHeld
<1>5. HolderWasTold'
  BY <1>1 DEF IInv, TypeOK, HolderWasTold
<1>6. QueueIsPending'
  <2>1. \A i \in Id : i # IdOf[l] => queue'[i] = queue[i]
    BY DEF IInv, TypeOK
  <2>2. queue'[IdOf[l]] = Append(queue[IdOf[l]], l)
    BY <1>1 DEF IInv, TypeOK
  <2>3. \A i \in Id : Distinct(queue'[i])
    BY <1>2, <2>1, <2>2 DEF IInv, QueueIsPending
  <2>4. ASSUME NEW m \in Lock, NEW i \in Id
        PROVE  m \in Items(queue'[i]) <=> caller'[m] = "pending" /\ IdOf[m] = i
    <3>1. CASE i = IdOf[l]
      BY <3>1, <1>2, <2>2 DEF IInv, TypeOK, QueueIsPending
    <3>2. CASE i # IdOf[l]
      BY <3>2, <2>1 DEF IInv, TypeOK, QueueIsPending
    <3> QED BY <3>1, <3>2
  <2> QED BY <2>3, <2>4 DEF QueueIsPending
<1>7. TtlTimerOfHolder'
  BY <1>1 DEF IInv, TypeOK, TtlTimerOfHolder
<1>8. FreeIsEmpty'
  BY DEF IInv, TypeOK, FreeIsEmpty
<1> QED BY <1>3, <1>4, <1>5, <1>6, <1>7, <1>8 DEF IInv

(* unlock() that passes the id on to the longest waiting instance. *)
LEMMA HandOverInv ==
  ASSUME IInv, NEW l \in Lock, HandOver(l), UNCHANGED <<ttl, waitTimer>>
  PROVE  IInv'
<1> DEFINE i == IdOf[l]
           next == Head(queue[i])
<1>1. /\ i \in Id /\ queue[i] \in Seq(Lock) /\ queue[i] # <<>> /\ holding[l]
      /\ Distinct(queue[i]) /\ UNCHANGED entry
  BY DEF IInv, TypeOK, QueueIsPending, HandOver
<1>2. /\ next \in Lock /\ next \in Items(queue[i])
      /\ Tail(queue[i]) \in Seq(Lock)
      /\ Items(Tail(queue[i])) = Items(queue[i]) \ {next}
      /\ Distinct(Tail(queue[i]))
  BY <1>1, ShiftItem
<1>3. /\ queue' = [queue EXCEPT ![i] = Tail(@)]
      /\ holding' = [holding EXCEPT ![l] = FALSE, ![next] = TRUE]
      /\ ttlTimer' = [ttlTimer EXCEPT ![l] = FALSE, ![next] = ttl[next]]
      /\ caller' = [caller EXCEPT ![next] = IF @ = "pending" THEN "resolved" ELSE @]
  BY DEF HandOver
<1> HIDE DEF next, i
<1>4. caller[next] = "pending" /\ IdOf[next] = i /\ ~holding[next] /\ next # l
  BY <1>1, <1>2 DEF IInv, QueueIsPending, HolderWasTold
<1>5. TypeOK'
  BY <1>1, <1>2, <1>3 DEF IInv, TypeOK, CallerState
<1>6. \A m \in Lock : holding'[m] = IF m = next THEN TRUE
                                    ELSE IF m = l THEN FALSE ELSE holding[m]
  BY <1>2, <1>3, <1>4 DEF IInv, TypeOK
<1>7. \A m \in Lock : IdOf[m] = i /\ holding[m] => m = l
  BY <1>1 DEF IInv, MutualExclusion, i
<1>8. MutualExclusion'
  BY <1>4, <1>6, <1>7 DEF IInv, MutualExclusion
<1>9. EntryIffHeld'
  <2> SUFFICES ASSUME NEW j \in Id
               PROVE  entry[j] <=> \E m \in Lock : IdOf[m] = j /\ holding'[m]
    BY <1>1 DEF EntryIffHeld
  <2>1. entry[j] <=> \E m \in Lock : IdOf[m] = j /\ holding[m]
    BY DEF IInv, EntryIffHeld
  <2>2. IdOf[l] = i
    BY DEF i
  <2> QED BY <1>1, <1>2, <1>4, <1>6, <2>1, <2>2
<1>10. \A m \in Lock : caller'[m] = IF m = next THEN "resolved" ELSE caller[m]
  BY <1>2, <1>3, <1>4 DEF IInv, TypeOK
<1>11. HolderWasTold'
  BY <1>6, <1>10 DEF IInv, HolderWasTold
<1>12. \A j \in Id : queue'[j] = IF j = i THEN Tail(queue[i]) ELSE queue[j]
  BY <1>1, <1>3 DEF IInv, TypeOK
<1>13. QueueIsPending'
  <2>1. \A j \in Id : Distinct(queue'[j])
    BY <1>2, <1>12 DEF IInv, QueueIsPending
  <2>2. ASSUME NEW m \in Lock, NEW j \in Id
        PROVE  m \in Items(queue'[j]) <=> caller'[m] = "pending" /\ IdOf[m] = j
    <3>1. m \in Items(queue[j]) <=> caller[m] = "pending" /\ IdOf[m] = j
      BY DEF IInv, QueueIsPending
    <3> QED BY <1>2, <1>4, <1>10, <1>12, <3>1
  <2> QED BY <2>1, <2>2 DEF QueueIsPending
<1>14. TtlTimerOfHolder'
  <2>1. \A m \in Lock : ttlTimer'[m] = IF m = next THEN ttl[next]
                                       ELSE IF m = l THEN FALSE ELSE ttlTimer[m]
    BY <1>2, <1>3, <1>4 DEF IInv, TypeOK
  <2> QED BY <1>6, <2>1 DEF IInv, TtlTimerOfHolder
<1>15. FreeIsEmpty'
  <2>1. entry[i]
    BY <1>1 DEF IInv, EntryIffHeld, i
  <2> QED BY <1>1, <1>12, <2>1 DEF IInv, FreeIsEmpty
<1> QED BY <1>5, <1>8, <1>9, <1>11, <1>13, <1>14, <1>15 DEF IInv

(* unlock() that nobody waits for. *)
LEMMA FreeInv ==
  ASSUME IInv, NEW l \in Lock, Free(l), UNCHANGED <<ttl, waitTimer>>
  PROVE  IInv'
<1>1. /\ holding[l] /\ queue[IdOf[l]] = <<>> /\ UNCHANGED <<queue, caller>>
      /\ IdOf[l] \in Id
  BY DEF Free
<1>2. TypeOK'
  BY DEF IInv, TypeOK, Free
<1>3. \A m \in Lock : holding'[m] = IF m = l THEN FALSE ELSE holding[m]
  BY DEF IInv, TypeOK, Free
<1>4. \A j \in Id : entry'[j] = IF j = IdOf[l] THEN FALSE ELSE entry[j]
  BY DEF IInv, TypeOK, Free
<1>5. MutualExclusion' /\ HolderWasTold'
  BY <1>1, <1>3 DEF IInv, MutualExclusion, HolderWasTold
<1>6. EntryIffHeld'
  <2> SUFFICES ASSUME NEW j \in Id
               PROVE  entry'[j] <=> \E m \in Lock : IdOf[m] = j /\ holding'[m]
    BY DEF EntryIffHeld
  <2>1. entry[j] <=> \E m \in Lock : IdOf[m] = j /\ holding[m]
    BY DEF IInv, EntryIffHeld
  <2>2. \A m \in Lock : IdOf[m] = IdOf[l] /\ holding[m] => m = l
    BY <1>1 DEF IInv, MutualExclusion
  <2> QED BY <1>3, <1>4, <2>1, <2>2
<1>7. QueueIsPending'
  BY <1>1 DEF IInv, QueueIsPending
<1>8. TtlTimerOfHolder'
  <2>1. \A m \in Lock : ttlTimer'[m] = IF m = l THEN FALSE ELSE ttlTimer[m]
    BY DEF IInv, TypeOK, Free
  <2> QED BY <1>3, <2>1 DEF IInv, TtlTimerOfHolder
<1>9. FreeIsEmpty'
  BY <1>1, <1>4 DEF IInv, FreeIsEmpty
<1> QED BY <1>2, <1>5, <1>6, <1>7, <1>8, <1>9 DEF IInv

(* Any unlock, by the caller or by the ttl timer. *)
LEMMA ReleaseInv ==
  ASSUME IInv, NEW l \in Lock, Release(l)
  PROVE  IInv'
<1>1. CASE HandOver(l)
  BY <1>1, HandOverInv DEF Release
<1>2. CASE Free(l)
  BY <1>2, FreeInv DEF Release
<1>3. CASE LateUnlock(l)
  <2>1. ttlTimer' = ttlTimer
    BY <1>3 DEF LateUnlock, IInv, TypeOK, TtlTimerOfHolder
  <2> QED BY <2>1, <1>3 DEF Release, LateUnlock, IInv, TypeOK,
             MutualExclusion, EntryIffHeld, HolderWasTold, QueueIsPending,
             TtlTimerOfHolder, FreeIsEmpty
<1> QED BY <1>1, <1>2, <1>3 DEF Release

(* The timeout timer, before or after the lock was granted. *)
LEMMA WaitTimesOutInv ==
  ASSUME IInv, NEW l \in Lock, WaitTimesOut(l)
  PROVE  IInv'
<1> DEFINE i == IdOf[l]
           remaining == arrayRemoveItem(queue[i], l)
<1>1. i \in Id /\ queue[i] \in Seq(Lock) /\ Distinct(queue[i])
  BY DEF IInv, TypeOK, QueueIsPending
<1>2. remaining \in Seq(Lock) /\ Items(remaining) = Items(queue[i]) \ {l} /\ Distinct(remaining)
  BY <1>1, RemoveItem
<1>3. /\ UNCHANGED <<entry, holding, ttl, ttlTimer>>
      /\ waitTimer' = [waitTimer EXCEPT ![l] = FALSE]
      /\ caller' = [caller EXCEPT ![l] = IF @ = "pending" THEN "rejected" ELSE @]
      /\ queue' = IF entry[i] THEN [queue EXCEPT ![i] = remaining] ELSE queue
  BY DEF WaitTimesOut
<1> HIDE DEF remaining
<1>4. \A m \in Lock : caller'[m] = IF m = l /\ caller[l] = "pending"
                                   THEN "rejected" ELSE caller[m]
  BY <1>3 DEF IInv, TypeOK
<1>5. \A j \in Id : queue'[j] = IF j = i /\ entry[i] THEN remaining ELSE queue[j]
  BY <1>1, <1>3 DEF IInv, TypeOK
<1>6. TypeOK'
  BY <1>1, <1>2, <1>3 DEF IInv, TypeOK, CallerState
<1>7. MutualExclusion' /\ EntryIffHeld' /\ TtlTimerOfHolder'
  BY <1>3 DEF IInv, MutualExclusion, EntryIffHeld, TtlTimerOfHolder
<1>8. HolderWasTold'
  BY <1>3, <1>4 DEF IInv, HolderWasTold
<1>9. QueueIsPending'
  <2>1. \A j \in Id : Distinct(queue'[j])
    BY <1>2, <1>5 DEF IInv, QueueIsPending
  <2>2. ASSUME NEW m \in Lock, NEW j \in Id
        PROVE  m \in Items(queue'[j]) <=> caller'[m] = "pending" /\ IdOf[m] = j
    <3>1. m \in Items(queue[j]) <=> caller[m] = "pending" /\ IdOf[m] = j
      BY DEF IInv, QueueIsPending
    <3>2. ~entry[i] => Items(queue[i]) = {}
      BY <1>1 DEF IInv, FreeIsEmpty, Items
    <3> QED BY <1>1, <1>2, <1>4, <1>5, <3>1, <3>2
  <2> QED BY <2>1, <2>2 DEF QueueIsPending
<1>10. FreeIsEmpty'
  BY <1>3, <1>5 DEF IInv, FreeIsEmpty
<1> QED BY <1>6, <1>7, <1>8, <1>9, <1>10 DEF IInv

LEMMA ForgetInv ==
  ASSUME IInv, NEW l \in Lock, Forget(l)
  PROVE  IInv'
<1>1. \A m \in Lock : caller'[m] = IF m = l THEN "none" ELSE caller[m]
  BY DEF IInv, TypeOK, Forget
<1>2. /\ UNCHANGED <<entry, queue, holding, ttl, ttlTimer, waitTimer>>
      /\ caller[l] # "pending" /\ ~holding[l]
  BY DEF Forget
<1>3. TypeOK'
  BY <1>2 DEF IInv, TypeOK, Forget, CallerState
<1> QED BY <1>1, <1>2, <1>3 DEF IInv, MutualExclusion, EntryIffHeld,
           HolderWasTold, QueueIsPending, TtlTimerOfHolder, FreeIsEmpty

(* One case per action of the lock. *)
LEMMA NextInv == IInv /\ [Next]_lockVars => IInv'
<1> SUFFICES ASSUME IInv, [Next]_lockVars PROVE IInv'
  OBVIOUS
<1>1. CASE UNCHANGED lockVars
  BY <1>1 DEF lockVars, IInv, TypeOK, MutualExclusion, EntryIffHeld,
     HolderWasTold, QueueIsPending, TtlTimerOfHolder, FreeIsEmpty
<1>2. ASSUME NEW l \in Lock, NEW hasTtl \in BOOLEAN, NEW hasTimeout \in BOOLEAN,
             AcquireLock(l, hasTtl, hasTimeout)
      PROVE  IInv'
  <2>1. waitTimer' \in [Lock -> BOOLEAN]
    BY <1>2 DEF AcquireLock, IInv, TypeOK
  <2> QED BY <1>2, <2>1, TakeFreeInv, EnqueueInv DEF AcquireLock
<1>3. ASSUME NEW l \in Lock, NEW hasTtl \in BOOLEAN, TryLock(l, hasTtl)
      PROVE  IInv'
  <2>1. waitTimer' \in [Lock -> BOOLEAN]
    BY <1>3 DEF TryLock, IInv, TypeOK
  <2> QED BY <1>3, <2>1, TakeFreeInv DEF TryLock
<1>4. ASSUME NEW l \in Lock, Unlock(l) \/ TtlExpires(l)
      PROVE  IInv'
  BY <1>4, ReleaseInv DEF Unlock, TtlExpires
<1>5. ASSUME NEW l \in Lock, WaitTimesOut(l)
      PROVE  IInv'
  BY <1>5, WaitTimesOutInv
<1>6. ASSUME NEW l \in Lock, Forget(l)
      PROVE  IInv'
  BY <1>6, ForgetInv
<1> QED BY <1>1, <1>2, <1>3, <1>4, <1>5, <1>6 DEF Next

(* The inductive invariant holds in every reachable state. *)
THEOREM Invariance == Spec => []IInv
BY InitInv, NextInv, PTL DEF Spec

(* The types of process-locker.ts's state. *)
THEOREM TypeCorrect == Spec => []TypeOK
<1>1. IInv => TypeOK
  BY DEF IInv
<1> QED BY <1>1, Invariance, PTL

(* At most one instance holds an id. *)
THEOREM Exclusive == Spec => []MutualExclusion
<1>1. IInv => MutualExclusion
  BY DEF IInv
<1> QED BY <1>1, Invariance, PTL

(* LOCKS[id] exists exactly while an instance holds the id. *)
THEOREM EntriesAreHeld == Spec => []EntryIffHeld
<1>1. IInv => EntryIffHeld
  BY DEF IInv
<1> QED BY <1>1, Invariance, PTL

(* Whoever holds an id was told so. *)
THEOREM HoldersKnow == Spec => []HolderWasTold
<1>1. IInv => HolderWasTold
  BY DEF IInv
<1> QED BY <1>1, Invariance, PTL

(* The queues hold the pending requests and nothing else. *)
THEOREM QueuesArePending == Spec => []QueueIsPending
<1>1. IInv => QueueIsPending
  BY DEF IInv
<1> QED BY <1>1, Invariance, PTL

(* All the invariants of the lock at once, as the run checks them.         *)
THEOREM Safe == Spec => []LockSafety
<1>1. IInv => LockSafety
  BY DEF IInv, LockSafety
<1> QED BY <1>1, Invariance, PTL

(* One step of the lock keeps later requests behind a waiting one.         *)
LEMMA OrderStep ==
  ASSUME IInv, [Next]_lockVars, NEW l \in Lock, NEW m \in Lock,
         IdOf[m] = IdOf[l], m # l, caller[l] = "pending", caller'[l] = "pending",
         ~holding[m], ~Precedes(queue[IdOf[l]], m, l)
  PROVE  ~holding'[m] /\ ~Precedes(queue'[IdOf[l]], m, l)
<1> DEFINE i == IdOf[l]
<1>1. /\ i \in Id /\ queue[i] \in Seq(Lock) /\ Distinct(queue[i])
      /\ l \in Items(queue[i]) /\ queue[i] # <<>> /\ entry[i]
  <2>1. i \in Id /\ queue[i] \in Seq(Lock)
    BY DEF IInv, TypeOK
  <2>2. l \in Items(queue[i]) /\ Distinct(queue[i])
    BY <2>1 DEF IInv, QueueIsPending
  <2>3. queue[i] # <<>>
    BY <2>2 DEF Items
  <2> QED BY <2>1, <2>2, <2>3 DEF IInv, FreeIsEmpty
<1>2. CASE UNCHANGED lockVars
  BY <1>2 DEF lockVars
<1>3. ASSUME NEW k \in Lock, NEW hasTtl \in BOOLEAN, TakeFree(k, hasTtl)
      PROVE  ~holding'[m] /\ queue'[i] = queue[i]
  BY <1>1, <1>3 DEF TakeFree, IInv, TypeOK
<1>4. ASSUME NEW k \in Lock, NEW hasTtl \in BOOLEAN, Fresh(k), Enqueue(k, hasTtl)
      PROVE  ~holding'[m] /\ ~Precedes(queue'[i], m, l)
  <2>1. l # k /\ holding' = holding
    BY <1>4 DEF Fresh, Enqueue
  <2>2. queue'[i] = queue[i] \/ queue'[i] = Append(queue[i], k)
    BY <1>1, <1>4 DEF Enqueue, IInv, TypeOK
  <2>3. ~Precedes(Append(queue[i], k), m, l)
    BY <1>1, <2>1, AppendOrder
  <2> HIDE DEF i
  <2> QED BY <2>1, <2>2, <2>3 DEF i
<1>5. ASSUME NEW k \in Lock, Release(k)
      PROVE  ~holding'[m] /\ ~Precedes(queue'[i], m, l)
  <2>1. CASE HandOver(k)
    <3> DEFINE next == Head(queue[IdOf[k]])
    <3>1. /\ queue[IdOf[k]] # <<>> /\ queue[IdOf[k]] \in Seq(Lock)
          /\ Distinct(queue[IdOf[k]]) /\ IdOf[k] \in Id
          /\ queue' = [queue EXCEPT ![IdOf[k]] = Tail(@)]
          /\ holding' = [holding EXCEPT ![k] = FALSE, ![next] = TRUE]
      BY <2>1 DEF HandOver, IInv, TypeOK, QueueIsPending
    <3>2. next \in Items(queue[IdOf[k]]) /\ next \in Lock
      BY <3>1, ShiftItem
    <3>3. m # next
      <4>1. CASE next = m
        <5>1. IdOf[k] = i
          BY <3>1, <3>2, <4>1 DEF IInv, QueueIsPending
        <5>2. Precedes(queue[i], m, l)
          BY <1>1, <4>1, <5>1, FirstPrecedes
        <5> QED BY <5>2
      <4> QED BY <4>1
    <3> HIDE DEF next
    <3>4. ~holding'[m]
      BY <3>1, <3>2, <3>3 DEF IInv, TypeOK
    <3>5. queue'[i] = queue[i] \/ queue'[i] = Tail(queue[i])
      BY <1>1, <3>1 DEF IInv, TypeOK
    <3> QED BY <1>1, <3>4, <3>5, ShiftOrder
  <2>2. CASE Free(k)
    BY <2>2 DEF Free, IInv, TypeOK
  <2>3. CASE LateUnlock(k)
    BY <2>3 DEF LateUnlock
  <2> QED BY <1>5, <2>1, <2>2, <2>3 DEF Release
<1>6. ASSUME NEW k \in Lock, WaitTimesOut(k)
      PROVE  ~holding'[m] /\ ~Precedes(queue'[i], m, l)
  <2>1. queue'[i] = queue[i] \/ queue'[i] = arrayRemoveItem(queue[i], k)
    BY <1>1, <1>6 DEF WaitTimesOut, IInv, TypeOK
  <2>2. holding' = holding
    BY <1>6 DEF WaitTimesOut
  <2> QED BY <1>1, <2>1, <2>2, RemoveOrder
<1>7. ASSUME NEW k \in Lock, Forget(k)
      PROVE  ~holding'[m] /\ queue'[i] = queue[i]
  BY <1>7 DEF Forget
<1> QED BY <1>2, <1>3, <1>4, <1>5, <1>6, <1>7
        DEF Next, AcquireLock, TryLock, Unlock, TtlExpires

(* No later request gets ahead of a waiting one or is granted before it. *)
THEOREM NothingOvertakes == Spec => NoOvertaking
<1>1. IInv /\ [Next]_lockVars =>
        [\A l, m \in Lock :
           /\ IdOf[m] = IdOf[l] /\ m # l
           /\ caller[l] = "pending" /\ caller'[l] = "pending"
           /\ ~holding[m] /\ ~Precedes(queue[IdOf[l]], m, l)
           => ~holding'[m] /\ ~Precedes(queue'[IdOf[l]], m, l)]_lockVars
  BY OrderStep
<1> QED BY <1>1, Invariance, PTL DEF Spec, NoOvertaking
-----------------------------------------------------------------------------
(* The refinement: what the lock service sees of one instance. *)
LEMMA ServiceStateOf ==
  /\ \A l \in Lock :
       ServiceState[l] = IF holding[l] THEN "owner"
                         ELSE IF caller[l] = "pending" THEN "waiting" ELSE "idle"
  /\ DOMAIN ServiceState = Lock
  /\ ServiceState = [l \in Lock |-> ServiceState[l]]
BY DEF ServiceState

LEMMA OwnedIsHeld ==
  \A i \in Id : Service!Owned(i) <=> \E l \in Lock : IdOf[l] = i /\ holding[l]
BY DEF Service!Owned, ServiceState

(* Starting acquireLock or tryLock is a request. *)
LEMMA RequestStep ==
  ASSUME IInv, NEW l \in Lock, NEW hasTtl \in BOOLEAN, Fresh(l),
         TakeFree(l, hasTtl) \/ Enqueue(l, hasTtl)
  PROVE  Service!Request(l)
<1> DEFINE s == IF Service!Owned(IdOf[l]) THEN "waiting" ELSE "owner"
<1>1. ServiceState[l] = "idle"
  BY FreshIsIdle, ServiceStateOf DEF Fresh
<1>2. IdOf[l] \in Id /\ (Service!Owned(IdOf[l]) <=> entry[IdOf[l]])
  BY OwnedIsHeld DEF IInv, EntryIffHeld
<1>3. \A m \in Lock : ServiceState'[m] = IF m = l THEN s ELSE ServiceState[m]
  <2>1. CASE TakeFree(l, hasTtl)
    BY <2>1, <1>2 DEF TakeFree, ServiceState, IInv, TypeOK
  <2>2. CASE Enqueue(l, hasTtl)
    BY <2>2, <1>2, FreshIsIdle DEF Enqueue, ServiceState, IInv, TypeOK
  <2> QED BY <2>1, <2>2
<1>4. ServiceState' = [ServiceState EXCEPT ![l] = s]
  BY <1>3 DEF ServiceState
<1> QED BY <1>1, <1>4 DEF Service!Request

(* unlock frees the id, hands it over or does nothing. *)
LEMMA ReleaseStep ==
  ASSUME IInv, NEW l \in Lock, Release(l)
  PROVE  \/ Service!Free(l)
         \/ \E m \in Lock : Service!HandOver(l, m)
         \/ UNCHANGED ServiceState
<1>1. CASE HandOver(l)
  <2> DEFINE next == Head(queue[IdOf[l]])
  <2>1. /\ IdOf[l] \in Id /\ queue[IdOf[l]] # <<>> /\ holding[l]
        /\ queue[IdOf[l]] \in Seq(Lock) /\ Distinct(queue[IdOf[l]])
    BY <1>1 DEF HandOver, IInv, TypeOK, QueueIsPending
  <2>2. next \in Lock /\ next \in Items(queue[IdOf[l]])
    BY <2>1, ShiftItem
  <2>3. /\ holding' = [holding EXCEPT ![l] = FALSE, ![next] = TRUE]
        /\ caller' = [caller EXCEPT ![next] = IF @ = "pending" THEN "resolved" ELSE @]
    BY <1>1 DEF HandOver
  <2> HIDE DEF next
  <2>4. caller[next] = "pending" /\ IdOf[next] = IdOf[l] /\ ~holding[next]
    BY <2>1, <2>2 DEF IInv, QueueIsPending, HolderWasTold
  <2>5. caller[l] = "resolved"
    BY <2>1 DEF IInv, HolderWasTold
  <2>6. next # l /\ ServiceState[l] = "owner" /\ ServiceState[next] = "waiting"
    BY <2>1, <2>2, <2>4, ServiceStateOf
  <2>7. ServiceState' = [ServiceState EXCEPT ![l] = "idle", ![next] = "owner"]
    <3>1. \A m \in Lock : ServiceState'[m] =
            IF m = next THEN "owner" ELSE IF m = l THEN "idle" ELSE ServiceState[m]
      BY <2>2, <2>3, <2>4, <2>5, <2>6 DEF ServiceState, IInv, TypeOK
    <3> QED BY <3>1, <2>2, <2>6 DEF ServiceState
  <2>8. next \in Service!Rivals(l)
    BY <2>2, <2>4, <2>6 DEF Service!Rivals
  <2> QED BY <2>2, <2>6, <2>7, <2>8 DEF Service!HandOver
<1>2. CASE Free(l)
  <2>1. /\ IdOf[l] \in Id /\ Items(queue[IdOf[l]]) = {} /\ holding[l]
        /\ holding' = [holding EXCEPT ![l] = FALSE] /\ caller' = caller
        /\ caller[l] = "resolved"
    BY <1>2 DEF Free, Items, IInv, HolderWasTold
  <2>2. ServiceState[l] = "owner"
    BY <2>1, ServiceStateOf
  <2>3. \A m \in Service!Rivals(l) : ServiceState[m] # "waiting"
    BY <2>1, ServiceStateOf DEF Service!Rivals, IInv, QueueIsPending
  <2>4. ServiceState' = [ServiceState EXCEPT ![l] = "idle"]
    <3>1. \A m \in Lock : ServiceState'[m] = IF m = l THEN "idle" ELSE ServiceState[m]
      BY <2>1 DEF ServiceState, IInv, TypeOK
    <3> QED BY <3>1 DEF ServiceState
  <2> QED BY <2>2, <2>3, <2>4 DEF Service!Free
<1>3. CASE LateUnlock(l)
  BY <1>3 DEF LateUnlock, ServiceState
<1> QED BY <1>1, <1>2, <1>3 DEF Release

(* The timeout of a waiting request gives up; a late one changes nothing. *)
LEMMA WaitTimesOutStep ==
  ASSUME IInv, NEW l \in Lock, WaitTimesOut(l)
  PROVE  Service!GiveUp(l) \/ UNCHANGED ServiceState
<1>1. /\ holding' = holding
      /\ \A m \in Lock : caller'[m] = IF m = l /\ caller[l] = "pending"
                                      THEN "rejected" ELSE caller[m]
  BY DEF WaitTimesOut, IInv, TypeOK
<1>2. CASE caller[l] = "pending"
  <2>1. ServiceState[l] = "waiting" /\ ~holding[l]
    BY <1>2, ServiceStateOf DEF IInv, HolderWasTold
  <2>2. \A m \in Lock : ServiceState'[m] = IF m = l THEN "idle" ELSE ServiceState[m]
    BY <1>1, <1>2, <2>1 DEF ServiceState
  <2>3. ServiceState' = [ServiceState EXCEPT ![l] = "idle"]
    BY <2>2 DEF ServiceState
  <2> QED BY <2>1, <2>3 DEF Service!GiveUp
<1>3. CASE caller[l] # "pending"
  BY <1>1, <1>3 DEF ServiceState
<1> QED BY <1>2, <1>3

LEMMA ForgetStep ==
  ASSUME IInv, NEW l \in Lock, Forget(l)
  PROVE  UNCHANGED ServiceState
BY DEF Forget, ServiceState, IInv, TypeOK

(* ProcessLock implements the lock service: an id that somebody waits for  *)
(* always has an owner, and ownership passes in one step.                  *)
THEOREM Implements == Spec => ImplementsLockService
<1>1. Init => Service!Init
  BY DEF Init, Service!Init, ServiceState
<1>2. IInv /\ [Next]_lockVars => [Service!Next]_ServiceState
  <2> SUFFICES ASSUME IInv, [Next]_lockVars
               PROVE  Service!Next \/ UNCHANGED ServiceState
    OBVIOUS
  <2>1. CASE UNCHANGED lockVars
    BY <2>1 DEF lockVars, ServiceState
  <2>2. ASSUME NEW l \in Lock, NEW hasTtl \in BOOLEAN, NEW hasTimeout \in BOOLEAN,
               AcquireLock(l, hasTtl, hasTimeout) \/ TryLock(l, hasTtl)
        PROVE  Service!Next
    BY <2>2, RequestStep DEF AcquireLock, TryLock, Service!Next
  <2>3. ASSUME NEW l \in Lock, Unlock(l) \/ TtlExpires(l)
        PROVE  Service!Next \/ UNCHANGED ServiceState
    BY <2>3, ReleaseStep DEF Unlock, TtlExpires, Service!Next
  <2>4. ASSUME NEW l \in Lock, WaitTimesOut(l) \/ Forget(l)
        PROVE  Service!Next \/ UNCHANGED ServiceState
    BY <2>4, WaitTimesOutStep, ForgetStep DEF Service!Next
  <2> QED BY <2>1, <2>2, <2>3, <2>4 DEF Next
<1> QED BY <1>1, <1>2, Invariance, PTL DEF Spec, Service!Spec, ImplementsLockService
-----------------------------------------------------------------------------
(***************************************************************************)
(* The locks of the broker. The invariant IInv of the lock of the process  *)
(* is one part of the inductive invariant; the others say how far each     *)
(* request has come at its three places: the Map of its connection, the    *)
(* promise whose continuation waits, and the two directions of the socket. *)
(***************************************************************************)
Registered(l) == l \in locks[ConnOf[l]]

(* What is granted is registered once, by its continuation. *)
Granted(l) ==
  /\ holding[l] => Registered(l) \/ l \in settled
  /\ Registered(l) \/ l \in settled => caller[l] = "resolved"
  /\ l \in settled => holding[l] /\ ~Registered(l)

(* Client and server take turns with the messages of one request. *)
Turn(l) ==
  /\ toServer[l] # "none" => toClient[l] = "none"
  /\ toServer[l] \in {"Lock", "TryLock"} => client[l] = "asked" /\ ~Registered(l)
  /\ toServer[l] = "Unlock" => client[l] = "unlocking" /\ Registered(l)
  /\ l \in settled \/ caller[l] = "pending" =>
       client[l] \in {"asked", "gone"} /\ toServer[l] = "none" /\ toClient[l] = "none"
  /\ client[l] \in {"idle", "has"} => toServer[l] = "none" /\ toClient[l] = "none"
  /\ toClient[l] = "ResponseLock" \/ client[l] = "has" => Registered(l)
  /\ ~open[ConnOf[l]] => client[l] = "gone" /\ toServer[l] = "none" /\ toClient[l] = "none"

(* The answers to one request are true. *)
True(l) ==
  /\ ~ttl[l] /\ (toClient[l] = "ResponseLock" \/ client[l] = "has" \/ toServer[l] = "Unlock")
       => holding[l]
  /\ toClient[l] \in {"ResponseLockFailed", "Error"} => ~holding[l]

Local(l) == Granted(l) /\ Turn(l) /\ True(l)

(* close() runs over the locks of its own connection, and what it has run  *)
(* over is free.                                                           *)
Closes ==
  /\ \A c \in Conn : \A l \in locks[c] : ConnOf[l] = c
  /\ \A l \in toUnlock : closing \in Conn /\ l \in locks[closing]
  /\ closing # NoConn => ~open[closing] /\ \A l \in locks[closing] \ toUnlock : ~holding[l]

BInv ==
  /\ BrokerTypeOK
  /\ IInv
  /\ \A l \in Lock : Local(l)
  /\ Closes

USE IdOfAssumption, ConnAssumption

LEMMA BrokerInitInv == BrokerInit => BInv
<1> SUFFICES ASSUME BrokerInit PROVE BInv
  OBVIOUS
<1>1. IInv
  BY InitInv DEF BrokerInit
<1>2. BrokerTypeOK
  BY <1>1 DEF IInv, BrokerInit, BrokerTypeOK, ClientState, Request, Answer
<1>3. ASSUME NEW l \in Lock PROVE Local(l)
  BY DEF BrokerInit, Init, Local, Granted, Turn, True, Registered
<1>4. Closes
  BY DEF BrokerInit, Closes
<1> QED BY <1>1, <1>2, <1>3, <1>4 DEF BInv

-----------------------------------------------------------------------------
(* What the lock of the process does to the requests.                      *)

(* Unlocking gives up one request and grants at most the one behind it.    *)
LEMMA ReleaseEffect ==
  ASSUME IInv, NEW l \in Lock, Release(l)
  PROVE  /\ ~holding'[l] /\ UNCHANGED ttl
         /\ \A m \in Lock : m # l /\ holding[m] => holding'[m]
         /\ \A m \in Lock : IF holding'[m] /\ ~holding[m]
                            THEN caller[m] = "pending" /\ caller'[m] = "resolved"
                            ELSE caller'[m] = caller[m]
<1>1. CASE HandOver(l)
  <2> DEFINE next == Head(queue[IdOf[l]])
  <2>1. /\ IdOf[l] \in Id /\ queue[IdOf[l]] # <<>> /\ holding[l]
        /\ queue[IdOf[l]] \in Seq(Lock) /\ Distinct(queue[IdOf[l]])
    BY <1>1 DEF HandOver, IInv, TypeOK, QueueIsPending
  <2>2. next \in Lock /\ next \in Items(queue[IdOf[l]])
    BY <2>1, ShiftItem
  <2>3. /\ holding' = [holding EXCEPT ![l] = FALSE, ![next] = TRUE]
        /\ caller' = [caller EXCEPT ![next] = IF @ = "pending" THEN "resolved" ELSE @]
    BY <1>1 DEF HandOver
  <2> HIDE DEF next
  <2>4. caller[next] = "pending" /\ ~holding[next] /\ next # l
    BY <2>1, <2>2 DEF IInv, QueueIsPending, HolderWasTold
  <2>5. \A m \in Lock : holding'[m] = IF m = next THEN TRUE
                                      ELSE IF m = l THEN FALSE ELSE holding[m]
    BY <2>2, <2>3, <2>4 DEF IInv, TypeOK
  <2>6. \A m \in Lock : caller'[m] = IF m = next THEN "resolved" ELSE caller[m]
    BY <2>2, <2>3, <2>4 DEF IInv, TypeOK
  <2> QED BY <2>2, <2>4, <2>5, <2>6 DEF Release
<1>2. CASE Free(l)
  BY <1>2 DEF Release, Free, IInv, TypeOK
<1>3. CASE LateUnlock(l)
  BY <1>3 DEF Release, LateUnlock, IInv, TypeOK
<1> QED BY <1>1, <1>2, <1>3 DEF Release

(* A new request holds the id or waits for it. *)
LEMMA AcquireEffect ==
  ASSUME IInv, NEW l \in Lock, NEW hasTtl \in BOOLEAN, Fresh(l),
         TakeFree(l, hasTtl) \/ Enqueue(l, hasTtl)
  PROVE  /\ caller[l] = "none" /\ ~holding[l]
         /\ caller'[l] = IF holding'[l] THEN "resolved" ELSE "pending"
         /\ \A m \in Lock : m # l => /\ holding'[m] = holding[m]
                                     /\ ttl'[m] = ttl[m] /\ caller'[m] = caller[m]
<1>1. caller[l] = "none" /\ ~holding[l]
  BY FreshIsIdle DEF Fresh
<1>2. CASE TakeFree(l, hasTtl)
  BY <1>1, <1>2 DEF TakeFree, IInv, TypeOK
<1>3. CASE Enqueue(l, hasTtl)
  BY <1>1, <1>3 DEF Enqueue, IInv, TypeOK
<1> QED BY <1>2, <1>3

(* The continuations of what is granted are the only ones that are added.  *)
LEMMA SettleEffect ==
  ASSUME SettleGranted, NEW m \in Lock
  PROVE  m \in settled' <=> m \in settled \/ (holding'[m] /\ ~holding[m])
BY DEF SettleGranted

(* An answer is put on an open connection. *)
LEMMA AnswerEffect ==
  ASSUME BrokerTypeOK, NEW l \in Lock, NEW answer \in Answer, Answers(l, answer)
  PROVE  /\ toClient' \in [Lock -> Answer]
         /\ \A m \in Lock : toClient'[m] = IF m = l /\ open[ConnOf[l]] THEN answer ELSE toClient[m]
BY DEF BrokerTypeOK, Answers
-----------------------------------------------------------------------------
(* The steps of the clients. *)
LEMMA ClientInv ==
  ASSUME BInv, NEW l \in Lock,
         \/ ClientAsks(l, "Lock") \/ ClientAsks(l, "TryLock")
         \/ ClientReceives(l) \/ ClientUnlocks(l)
  PROVE  BInv'
<1>1. /\ UNCHANGED <<lockVars, open, locks, settled, closing, toUnlock>>
      /\ BrokerTypeOK /\ \A m \in Lock : Local(m)
  BY DEF BInv, ClientAsks, ClientReceives, ClientUnlocks
<1>2. IInv' /\ Closes'
  BY <1>1 DEF BInv, lockVars, IInv, TypeOK, MutualExclusion, EntryIffHeld,
     HolderWasTold, QueueIsPending, TtlTimerOfHolder, FreeIsEmpty, Closes
<1>3. BrokerTypeOK'
  BY <1>1, <1>2 DEF BrokerTypeOK, IInv, ClientState, Request, Answer,
     ClientAsks, ClientReceives, ClientUnlocks
<1>4. ASSUME NEW m \in Lock PROVE Local(m)'
  <2>1. Granted(m)'
    BY <1>1 DEF Local, Granted, Registered, lockVars
  <2>2. CASE m # l
    BY <1>1, <2>1, <2>2 DEF Local, Turn, True, Registered, lockVars, BrokerTypeOK,
       ClientAsks, ClientReceives, ClientUnlocks
  <2>3. CASE m = l
    <3>1. CASE ClientAsks(l, "Lock") \/ ClientAsks(l, "TryLock")
      BY <1>1, <2>1, <2>3, <3>1 DEF Local, Granted, Turn, True, Registered, lockVars, BrokerTypeOK,
         ClientAsks, Fresh
    <3>2. CASE ClientReceives(l)
      BY <1>1, <2>1, <2>3, <3>2 DEF Local, Turn, True, Registered, lockVars, BrokerTypeOK,
         ClientReceives
    <3>3. CASE ClientUnlocks(l)
      BY <1>1, <2>1, <2>3, <3>3 DEF Local, Turn, True, Registered, lockVars, BrokerTypeOK,
         ClientUnlocks
    <3> QED BY <3>1, <3>2, <3>3
  <2> QED BY <2>2, <2>3
<1> QED BY <1>2, <1>3, <1>4 DEF BInv
-----------------------------------------------------------------------------
(* The steps of the server. *)

(* A message with a request arrives and the lock answers at once, or the   *)
(* request waits.                                                          *)
LEMMA AskInv ==
  ASSUME BInv, NEW l \in Lock, NEW hasTtl \in BOOLEAN, Calm, toServer[l] \in {"Lock", "TryLock"},
         Fresh(l), TakeFree(l, hasTtl) \/ Enqueue(l, hasTtl), waitTimer' \in [Lock -> BOOLEAN],
         SettleGranted, toServer' = [toServer EXCEPT ![l] = "none"],
         UNCHANGED <<open, locks, closing, toUnlock, client, toClient>>
  PROVE  BInv'
<1>1. BrokerTypeOK /\ IInv /\ Closes /\ closing = NoConn /\ \A m \in Lock : Local(m)
  BY DEF BInv, Calm
<1>2. IInv'
  BY <1>1, TakeFreeInv, EnqueueInv
<1>3. BrokerTypeOK'
  BY <1>1, <1>2 DEF IInv, BrokerTypeOK, SettleGranted, Request
<1>4. /\ caller[l] = "none" /\ ~holding[l]
      /\ caller'[l] = IF holding'[l] THEN "resolved" ELSE "pending"
      /\ \A m \in Lock : m # l => /\ holding'[m] = holding[m]
                                  /\ ttl'[m] = ttl[m] /\ caller'[m] = caller[m]
  BY <1>1, AcquireEffect
<1>5. \A m \in Lock : m \in settled' <=> m \in settled \/ (holding'[m] /\ ~holding[m])
  BY SettleEffect
<1>6. \A m \in Lock : toServer'[m] = IF m = l THEN "none" ELSE toServer[m]
  BY <1>1 DEF BrokerTypeOK
<1>7. ASSUME NEW m \in Lock PROVE Local(m)'
  <2>1. CASE m = l
    BY <1>1, <1>4, <1>5, <1>6, <2>1 DEF Local, Granted, Turn, True, Registered
  <2>2. CASE m # l
    BY <1>1, <1>4, <1>5, <1>6, <2>2 DEF Local, Granted, Turn, True, Registered
  <2> QED BY <2>1, <2>2
<1>8. Closes'
  BY <1>1 DEF Closes
<1> QED BY <1>2, <1>3, <1>7, <1>8 DEF BInv

(* A refused tryLock only answers. *)
LEMMA RefuseInv ==
  ASSUME BInv, NEW l \in Lock, Calm, toServer[l] = "TryLock",
         Answers(l, "ResponseLockFailed"), SettleGranted, UNCHANGED lockVars,
         toServer' = [toServer EXCEPT ![l] = "none"],
         UNCHANGED <<open, locks, closing, toUnlock, client>>
  PROVE  BInv'
<1>1. BrokerTypeOK /\ IInv /\ Closes /\ \A m \in Lock : Local(m)
  BY DEF BInv
<1>2. IInv' /\ Closes'
  BY <1>1 DEF lockVars, IInv, TypeOK, MutualExclusion, EntryIffHeld,
     HolderWasTold, QueueIsPending, TtlTimerOfHolder, FreeIsEmpty, Closes
<1>3. /\ toClient' \in [Lock -> Answer]
      /\ \A m \in Lock : toClient'[m] = IF m = l /\ open[ConnOf[l]] THEN "ResponseLockFailed" ELSE toClient[m]
  BY <1>1, AnswerEffect DEF Answer
<1>4. settled' = settled
  BY DEF SettleGranted, lockVars
<1>5. BrokerTypeOK'
  BY <1>1, <1>2, <1>3, <1>4 DEF IInv, BrokerTypeOK, Request
<1>6. ASSUME NEW m \in Lock PROVE Local(m)'
  <2>1. \A n \in Lock : toServer'[n] = IF n = l THEN "none" ELSE toServer[n]
    BY <1>1 DEF BrokerTypeOK
  <2> QED BY <1>1, <1>3, <1>4, <2>1 DEF Local, Granted, Turn, True, Registered, lockVars
<1> QED BY <1>2, <1>5, <1>6 DEF BInv

(* Unlock is answered by an Ack: the server knows the lock. *)
LEMMA UnlockInv ==
  ASSUME BInv, NEW l \in Lock, HandleUnlock(l)
  PROVE  BInv'
<1>1. BrokerTypeOK /\ IInv /\ Closes /\ closing = NoConn /\ \A m \in Lock : Local(m)
  BY DEF BInv, HandleUnlock, Calm
<1>2. Registered(l) /\ toServer[l] = "Unlock"
  BY <1>1 DEF HandleUnlock, Local, Turn
<1>3. /\ Release(l) /\ Answers(l, "Ack") /\ SettleGranted
      /\ locks' = [locks EXCEPT ![ConnOf[l]] = @ \ {l}]
      /\ toServer' = [toServer EXCEPT ![l] = "none"]
      /\ UNCHANGED <<open, closing, toUnlock, client>>
  BY <1>2 DEF HandleUnlock, Registered
<1>4. IInv'
  BY <1>1, <1>3, ReleaseInv
<1>5. /\ ~holding'[l] /\ UNCHANGED ttl
      /\ \A m \in Lock : m # l /\ holding[m] => holding'[m]
      /\ \A m \in Lock : IF holding'[m] /\ ~holding[m]
                         THEN caller[m] = "pending" /\ caller'[m] = "resolved"
                         ELSE caller'[m] = caller[m]
  BY <1>1, <1>3, ReleaseEffect
<1>6. \A m \in Lock : m \in settled' <=> m \in settled \/ (holding'[m] /\ ~holding[m])
  BY <1>3, SettleEffect
<1>7. /\ toClient' \in [Lock -> Answer]
      /\ \A m \in Lock : toClient'[m] = IF m = l /\ open[ConnOf[l]] THEN "Ack" ELSE toClient[m]
  BY <1>1, <1>3, AnswerEffect DEF Answer
<1>8. BrokerTypeOK'
  BY <1>1, <1>3, <1>4, <1>7 DEF IInv, BrokerTypeOK, SettleGranted, Request
<1>9. ASSUME NEW m \in Lock PROVE Local(m)'
  <2>1. \A n \in Lock : toServer'[n] = IF n = l THEN "none" ELSE toServer[n]
    BY <1>1, <1>3 DEF BrokerTypeOK
  <2>2. Registered(m)' <=> m # l /\ Registered(m)
    BY <1>1, <1>3 DEF BrokerTypeOK, Registered
  <2>3. CASE m = l
    BY <1>1, <1>2, <1>3, <1>5, <1>6, <1>7, <2>1, <2>2, <2>3 DEF Local, Granted, Turn, True
  <2>4. CASE m # l
    BY <1>1, <1>3, <1>5, <1>6, <1>7, <2>1, <2>2, <2>4 DEF Local, Granted, Turn, True
  <2> QED BY <2>3, <2>4
<1>10. Closes'
  <2>1. \A c \in Conn : locks'[c] \subseteq locks[c]
    BY <1>1, <1>3 DEF BrokerTypeOK
  <2>2. toUnlock = {}
    BY <1>1 DEF Closes
  <2> QED BY <1>1, <1>3, <2>1, <2>2 DEF Closes
<1> QED BY <1>4, <1>8, <1>9, <1>10 DEF BInv

(* The continuation of a grant. *)
LEMMA RegisterInv ==
  ASSUME BInv, NEW l \in Lock, Register(l)
  PROVE  BInv'
<1>1. /\ BrokerTypeOK /\ IInv /\ Closes /\ \A m \in Lock : Local(m)
      /\ closing = NoConn /\ l \in settled /\ settled' = settled \ {l}
      /\ UNCHANGED <<lockVars, open, closing, toUnlock, client, toServer>>
  BY DEF BInv, Register
<1>2. IInv'
  BY <1>1 DEF lockVars, IInv, TypeOK, MutualExclusion, EntryIffHeld,
     HolderWasTold, QueueIsPending, TtlTimerOfHolder, FreeIsEmpty
<1>3. /\ toClient' \in [Lock -> Answer]
      /\ \A m \in Lock : toClient'[m] = IF m = l /\ open[ConnOf[l]] THEN "ResponseLock" ELSE toClient[m]
  BY <1>1, AnswerEffect DEF Answer, Register
<1>4. \A c \in Conn : \A m \in Lock :
        m \in locks'[c] <=> m \in locks[c] \/ (m = l /\ c = ConnOf[l])
  BY <1>1 DEF Register, BrokerTypeOK
<1>5. BrokerTypeOK'
  BY <1>1, <1>2, <1>3 DEF IInv, BrokerTypeOK, Register
<1>6. ASSUME NEW m \in Lock PROVE Local(m)'
  <2>1. Registered(m)' <=> m = l \/ Registered(m)
    BY <1>4 DEF Registered
  <2> QED BY <1>1, <1>3, <2>1 DEF Local, Granted, Turn, True, lockVars
<1>7. Closes'
  <2>1. \A c \in Conn : locks[c] \subseteq Lock /\ locks'[c] \subseteq Lock
    BY <1>1, <1>5 DEF BrokerTypeOK
  <2>2. toUnlock = {}
    BY <1>1 DEF Closes
  <2> QED BY <1>1, <1>4, <2>1, <2>2 DEF Closes
<1> QED BY <1>2, <1>5, <1>6, <1>7 DEF BInv

(* A timer that gives up a lock: it had a ttl. *)
LEMMA TtlInv ==
  ASSUME BInv, NEW l \in Lock, TtlTimer(l)
  PROVE  BInv'
<1>1. /\ BrokerTypeOK /\ IInv /\ Closes /\ \A m \in Lock : Local(m)
      /\ closing = NoConn /\ settled = {} /\ ttl[l] /\ Release(l) /\ SettleGranted
      /\ UNCHANGED <<open, locks, closing, toUnlock, client, toServer, toClient>>
  BY DEF BInv, TtlTimer, Calm, TtlExpires, IInv, TtlTimerOfHolder
<1>2. IInv'
  BY <1>1, ReleaseInv
<1>3. /\ ~holding'[l] /\ UNCHANGED ttl
      /\ \A m \in Lock : m # l /\ holding[m] => holding'[m]
      /\ \A m \in Lock : IF holding'[m] /\ ~holding[m]
                         THEN caller[m] = "pending" /\ caller'[m] = "resolved"
                         ELSE caller'[m] = caller[m]
  BY <1>1, ReleaseEffect
<1>4. \A m \in Lock : m \in settled' <=> m \in settled \/ (holding'[m] /\ ~holding[m])
  BY <1>1, SettleEffect
<1>5. BrokerTypeOK'
  BY <1>1, <1>2 DEF IInv, BrokerTypeOK, SettleGranted
<1>6. ASSUME NEW m \in Lock PROVE Local(m)'
  <2>1. CASE m = l
    BY <1>1, <1>3, <1>4, <2>1 DEF Local, Granted, Turn, True, Registered
  <2>2. CASE m # l
    BY <1>1, <1>3, <1>4, <2>2 DEF Local, Granted, Turn, True, Registered
  <2> QED BY <2>1, <2>2
<1>7. Closes'
  BY <1>1 DEF Closes
<1> QED BY <1>2, <1>5, <1>6, <1>7 DEF BInv

(* A timer that ends the wait of a request, or comes too late for that. *)
LEMMA TimeoutInv ==
  ASSUME BInv, NEW l \in Lock, TimeoutTimer(l)
  PROVE  BInv'
<1>1. /\ BrokerTypeOK /\ IInv /\ Closes /\ \A m \in Lock : Local(m)
      /\ WaitTimesOut(l) /\ UNCHANGED <<holding, ttl>>
      /\ UNCHANGED <<open, locks, settled, closing, toUnlock, client, toServer>>
  BY DEF BInv, TimeoutTimer, WaitTimesOut
<1>2. IInv'
  BY <1>1, WaitTimesOutInv
<1>3. \A m \in Lock : caller'[m] = IF m = l /\ caller[l] = "pending" THEN "rejected" ELSE caller[m]
  BY <1>1 DEF WaitTimesOut, IInv, TypeOK
<1>4. /\ toClient' \in [Lock -> Answer]
      /\ \A m \in Lock : toClient'[m] = IF m = l /\ caller[l] = "pending" /\ open[ConnOf[l]]
                                        THEN "Error" ELSE toClient[m]
  <2>1. CASE caller[l] = "pending"
    BY <1>1, <2>1, AnswerEffect DEF Answer, TimeoutTimer
  <2>2. CASE caller[l] # "pending"
    BY <1>1, <2>2 DEF BrokerTypeOK, TimeoutTimer
  <2> QED BY <2>1, <2>2
<1>5. BrokerTypeOK'
  BY <1>1, <1>2, <1>4 DEF IInv, BrokerTypeOK
<1>6. ASSUME NEW m \in Lock PROVE Local(m)'
  <2>1. caller[m] = "pending" => ~holding[m]
    BY <1>1 DEF IInv, HolderWasTold
  <2> QED BY <1>1, <1>3, <1>4, <2>1 DEF Local, Granted, Turn, True, Registered
<1>7. Closes'
  BY <1>1 DEF Closes
<1> QED BY <1>2, <1>5, <1>6, <1>7 DEF BInv
-----------------------------------------------------------------------------
(* close() and the garbage collector. *)

(* The socket closes: nobody is told anything any more. *)
LEMMA CloseInv ==
  ASSUME BInv, NEW c \in Conn, Close(c)
  PROVE  BInv'
<1>1. /\ BrokerTypeOK /\ IInv /\ Closes /\ \A m \in Lock : Local(m)
      /\ UNCHANGED <<lockVars, locks, settled>> /\ closing' = c /\ toUnlock' = locks[c]
      /\ settled = {}
  BY DEF BInv, Close, Calm
<1>2. IInv'
  BY <1>1 DEF lockVars, IInv, TypeOK, MutualExclusion, EntryIffHeld,
     HolderWasTold, QueueIsPending, TtlTimerOfHolder, FreeIsEmpty
<1>3. /\ \A d \in Conn : open'[d] <=> d # c /\ open[d]
      /\ \A m \in Lock : client'[m] = IF ConnOf[m] = c THEN "gone" ELSE client[m]
      /\ \A m \in Lock : toServer'[m] = IF ConnOf[m] = c THEN "none" ELSE toServer[m]
      /\ \A m \in Lock : toClient'[m] = IF ConnOf[m] = c THEN "none" ELSE toClient[m]
  BY <1>1 DEF BrokerTypeOK, Close
<1>4. BrokerTypeOK'
  BY <1>1, <1>2 DEF IInv, BrokerTypeOK, Close, ClientState, Request, Answer
<1>5. ASSUME NEW m \in Lock PROVE Local(m)'
  <2>1. CASE ConnOf[m] = c
    BY <1>1, <1>3, <2>1 DEF Local, Granted, Turn, True, Registered, lockVars
  <2>2. CASE ConnOf[m] # c
    <3>1. /\ open'[ConnOf[m]] <=> open[ConnOf[m]]
          /\ client'[m] = client[m] /\ toServer'[m] = toServer[m] /\ toClient'[m] = toClient[m]
      BY <1>3, <2>2
    <3> QED BY <1>1, <3>1 DEF Local, Granted, Turn, True, Registered, lockVars
  <2> QED BY <2>1, <2>2
<1>6. Closes'
  BY <1>1, <1>3 DEF Closes, lockVars
<1> QED BY <1>2, <1>4, <1>5, <1>6 DEF BInv

(* One turn of the loop of close(): the lock may pass to any connection,   *)
(* even to the one that closes.                                            *)
LEMMA CloseUnlocksInv ==
  ASSUME BInv, NEW l \in Lock, CloseUnlocks(l)
  PROVE  BInv'
<1>1. /\ BrokerTypeOK /\ IInv /\ Closes /\ \A m \in Lock : Local(m)
      /\ l \in toUnlock /\ toUnlock' = toUnlock \ {l} /\ Release(l) /\ SettleGranted
      /\ UNCHANGED <<open, locks, closing, client, toServer, toClient>>
  BY DEF BInv, CloseUnlocks
<1>2. closing \in Conn /\ closing # NoConn /\ ConnOf[l] = closing /\ Registered(l) /\ ~open[ConnOf[l]]
  BY <1>1 DEF Closes, Registered
<1>3. IInv'
  BY <1>1, ReleaseInv
<1>4. /\ ~holding'[l] /\ UNCHANGED ttl
      /\ \A m \in Lock : m # l /\ holding[m] => holding'[m]
      /\ \A m \in Lock : IF holding'[m] /\ ~holding[m]
                         THEN caller[m] = "pending" /\ caller'[m] = "resolved"
                         ELSE caller'[m] = caller[m]
  BY <1>1, ReleaseEffect
<1>5. \A m \in Lock : m \in settled' <=> m \in settled \/ (holding'[m] /\ ~holding[m])
  BY <1>1, SettleEffect
<1>6. BrokerTypeOK'
  BY <1>1, <1>3 DEF IInv, BrokerTypeOK, SettleGranted
<1>7. ASSUME NEW m \in Lock PROVE Local(m)'
  <2>1. CASE m = l
    <3>1. /\ l \notin settled /\ caller[l] = "resolved"
          /\ client[l] = "gone" /\ toServer[l] = "none" /\ toClient[l] = "none"
      BY <1>1, <1>2 DEF Local, Granted, Turn
    <3>2. ~holding'[l] /\ caller'[l] = caller[l] /\ l \notin settled'
      BY <1>4, <1>5, <3>1
    <3>3. Registered(l)' /\ ~open'[ConnOf[l]]
      BY <1>1, <1>2 DEF Registered
    <3> QED BY <1>1, <2>1, <3>1, <3>2, <3>3 DEF Local, Granted, Turn, True
  <2>2. CASE m # l
    BY <1>1, <1>4, <1>5, <2>2 DEF Local, Granted, Turn, True, Registered
  <2> QED BY <2>1, <2>2
<1>8. Closes'
  <2>1. ASSUME NEW m \in locks[closing] \ toUnlock' PROVE ~holding'[m]
    <3>1. m \in Lock /\ ConnOf[m] = closing
      BY <1>1, <1>2, <2>1 DEF BrokerTypeOK, Closes
    <3>2. caller[m] = "resolved"
      BY <1>1, <2>1, <3>1 DEF Local, Granted, Registered
    <3> QED BY <1>1, <1>2, <1>4, <2>1, <3>1, <3>2 DEF Closes
  <2> QED BY <1>1, <2>1 DEF Closes
<1> QED BY <1>3, <1>6, <1>7, <1>8 DEF BInv

(* The loop of close() is done. *)
LEMMA CloseReturnsInv ==
  ASSUME BInv, CloseReturns
  PROVE  BInv'
<1>1. /\ BrokerTypeOK /\ IInv /\ Closes /\ \A m \in Lock : Local(m)
      /\ UNCHANGED <<lockVars, open, locks, settled, toUnlock, client, toServer, toClient>>
      /\ closing' = NoConn /\ toUnlock = {}
  BY DEF BInv, CloseReturns
<1>2. IInv'
  BY <1>1 DEF lockVars, IInv, TypeOK, MutualExclusion, EntryIffHeld,
     HolderWasTold, QueueIsPending, TtlTimerOfHolder, FreeIsEmpty
<1>3. BrokerTypeOK' /\ Closes'
  BY <1>1, <1>2 DEF IInv, BrokerTypeOK, Closes
<1>4. ASSUME NEW m \in Lock PROVE Local(m)'
  BY <1>1 DEF Local, Granted, Turn, True, Registered, lockVars
<1> QED BY <1>2, <1>3, <1>4 DEF BInv

(* An instance that is collected is not registered anywhere. *)
LEMMA CollectInv ==
  ASSUME BInv, NEW l \in Lock, Collect(l)
  PROVE  BInv'
<1>1. /\ BrokerTypeOK /\ IInv /\ Closes /\ \A m \in Lock : Local(m)
      /\ ~Registered(l) /\ l \notin settled /\ Forget(l)
      /\ UNCHANGED <<holding, ttl, open, locks, settled, closing, toUnlock, client, toServer, toClient>>
  BY DEF BInv, Collect, Registered, brokerVars, Forget
<1>2. IInv'
  BY <1>1, ForgetInv
<1>3. \A m \in Lock : caller'[m] = IF m = l THEN "none" ELSE caller[m]
  BY <1>1 DEF Forget, IInv, TypeOK
<1>4. BrokerTypeOK' /\ Closes'
  BY <1>1, <1>2 DEF IInv, BrokerTypeOK, Closes
<1>5. ASSUME NEW m \in Lock PROVE Local(m)'
  BY <1>1, <1>3 DEF Local, Granted, Turn, True, Registered
<1> QED BY <1>2, <1>4, <1>5 DEF BInv

(* One case per action of the broker. *)
LEMMA BrokerNextInv == BInv /\ [BrokerNext]_vars => BInv'
<1> SUFFICES ASSUME BInv, [BrokerNext]_vars PROVE BInv'
  OBVIOUS
<1>1. CASE UNCHANGED vars
  BY <1>1 DEF vars, brokerVars, lockVars, BInv, BrokerTypeOK, IInv, TypeOK, MutualExclusion,
     EntryIffHeld, HolderWasTold, QueueIsPending, TtlTimerOfHolder, FreeIsEmpty,
     Local, Granted, Turn, True, Registered, Closes
<1>2. ASSUME NEW l \in Lock, NEW hasTtl \in TtlChoice, NEW hasTimeout \in TimeoutChoice,
             HandleLock(l, hasTtl, hasTimeout)
      PROVE  BInv'
  <2>1. waitTimer' \in [Lock -> BOOLEAN] /\ hasTtl \in BOOLEAN
    BY <1>2 DEF HandleLock, AcquireLock, BInv, IInv, TypeOK
  <2> QED BY <1>2, <2>1, AskInv DEF HandleLock, AcquireLock
<1>3. ASSUME NEW l \in Lock, NEW hasTtl \in TtlChoice, HandleTryLock(l, hasTtl)
      PROVE  BInv'
  <2>1. CASE TryLock(l, hasTtl) /\ UNCHANGED toClient
    <3>1. waitTimer' \in [Lock -> BOOLEAN] /\ hasTtl \in BOOLEAN
      BY <2>1 DEF TryLock, BInv, IInv, TypeOK
    <3> QED BY <1>3, <2>1, <3>1, AskInv DEF HandleTryLock, TryLock
  <2>2. CASE Answers(l, "ResponseLockFailed") /\ UNCHANGED lockVars
    BY <1>3, <2>2, RefuseInv DEF HandleTryLock
  <2> QED BY <1>3, <2>1, <2>2 DEF HandleTryLock
<1>4. ASSUME NEW l \in Lock,
             \/ ClientAsks(l, "Lock") \/ ClientAsks(l, "TryLock")
             \/ ClientReceives(l) \/ ClientUnlocks(l)
      PROVE  BInv'
  BY <1>4, ClientInv
<1>5. ASSUME NEW l \in Lock, HandleUnlock(l) \/ Register(l) \/ TtlTimer(l) \/ TimeoutTimer(l)
      PROVE  BInv'
  BY <1>5, UnlockInv, RegisterInv, TtlInv, TimeoutInv
<1>6. ASSUME NEW l \in Lock, CloseUnlocks(l) \/ Collect(l)
      PROVE  BInv'
  BY <1>6, CloseUnlocksInv, CollectInv
<1>7. ASSUME NEW c \in Conn, Close(c)
      PROVE  BInv'
  BY <1>7, CloseInv
<1> QED BY <1>1, <1>2, <1>3, <1>4, <1>5, <1>6, <1>7, CloseReturnsInv DEF BrokerNext

(* The inductive invariant of the broker's locks. *)
THEOREM BrokerInvariance == BrokerSpec => []BInv
BY BrokerInitInv, BrokerNextInv, PTL DEF BrokerSpec

(* What is held can be given back by its client and by close(), and what   *)
(* clients are told is true, whoever crashes and whichever timer fires.    *)
THEOREM BrokerSafe == BrokerSpec => []LocksAgree
<1>1. BInv => LocksAgree
  <2> SUFFICES ASSUME BInv PROVE LocksAgree
    OBVIOUS
  <2>1. HeldIsRegistered
    BY DEF BInv, Local, Granted, Registered, HeldIsRegistered
  <2>2. UnlockIsKnown
    BY DEF BInv, Local, Turn, Registered, UnlockIsKnown
  <2>3. AnswersAreTrue
    BY DEF BInv, Local, True, AnswersAreTrue
  <2> QED BY <2>1, <2>2, <2>3 DEF BInv, LocksAgree
<1> QED BY <1>1, BrokerInvariance, PTL

(* When close() returns, everything its connection had registered is free. *)
THEOREM CloseReleases == BrokerSpec => CloseReleasesAll
<1>1. BInv /\ [BrokerNext]_vars =>
        [closing # NoConn /\ closing' = NoConn => \A l \in locks[closing] : ~holding'[l]]_vars
  <2> SUFFICES ASSUME BInv, BrokerNext, closing # NoConn, closing' = NoConn,
                      NEW l \in locks[closing]
               PROVE  ~holding'[l]
    OBVIOUS
  <2>1. CloseReturns
    BY DEF BrokerNext, Calm, ClientAsks, ClientReceives, ClientUnlocks, HandleLock, HandleTryLock,
       HandleUnlock, Register, TtlTimer, TimeoutTimer, CloseUnlocks, Collect, Close, brokerVars
  <2>2. toUnlock = {} /\ holding' = holding
    BY <2>1 DEF CloseReturns, lockVars
  <2> QED BY <2>2 DEF BInv, Closes
<1> QED BY <1>1, BrokerInvariance, PTL DEF BrokerSpec, CloseReleasesAll

(* The broker uses the lock of the process as its callers may: it unlocks  *)
(* only what was granted. So all that is proved of that lock holds for the *)
(* broker's clients too, that nobody is overtaken, and that it implements  *)
(* the lock service.                                                       *)
THEOREM BrokerUsesLock == BrokerSpec => Spec /\ NoOvertaking /\ ImplementsLockService
<1>1. BInv /\ [BrokerNext]_vars => [Next]_lockVars
  <2> SUFFICES ASSUME BInv, [BrokerNext]_vars PROVE Next \/ UNCHANGED lockVars
    OBVIOUS
  <2>1. ASSUME NEW l \in Lock, NEW hasTtl \in TtlChoice, NEW hasTimeout \in TimeoutChoice,
               HandleLock(l, hasTtl, hasTimeout)
        PROVE  Next
    BY <2>1 DEF HandleLock, Next
  <2>2. ASSUME NEW l \in Lock, NEW hasTtl \in TtlChoice, HandleTryLock(l, hasTtl)
        PROVE  Next \/ UNCHANGED lockVars
    BY <2>2 DEF HandleTryLock, Next
  <2>3. ASSUME NEW l \in Lock, HandleUnlock(l)
        PROVE  Next \/ UNCHANGED lockVars
    BY <2>3 DEF HandleUnlock, BInv, Local, Granted, Registered, Unlock, Next
  <2>4. ASSUME NEW l \in Lock, CloseUnlocks(l)
        PROVE  Next
    <3>1. caller[l] = "resolved"
      BY <2>4 DEF CloseUnlocks, BInv, Closes, Local, Granted, Registered
    <3> QED BY <2>4, <3>1 DEF CloseUnlocks, Unlock, Next
  <2>5. ASSUME NEW l \in Lock, TtlTimer(l) \/ TimeoutTimer(l) \/ Collect(l)
        PROVE  Next
    BY <2>5 DEF TtlTimer, TimeoutTimer, Collect, Next
  <2>6. ASSUME NEW l \in Lock,
               \/ ClientAsks(l, "Lock") \/ ClientAsks(l, "TryLock") \/ ClientReceives(l)
               \/ ClientUnlocks(l) \/ Register(l)
        PROVE  UNCHANGED lockVars
    BY <2>6 DEF ClientAsks, ClientReceives, ClientUnlocks, Register
  <2>7. (\E c \in Conn : Close(c)) \/ CloseReturns \/ UNCHANGED vars => UNCHANGED lockVars
    BY DEF Close, CloseReturns, vars
  <2> QED BY <2>1, <2>2, <2>3, <2>4, <2>5, <2>6, <2>7 DEF BrokerNext
<1>2. BrokerInit => Init
  BY DEF BrokerInit
<1>3. BrokerSpec => Spec
  BY <1>1, <1>2, BrokerInvariance, PTL DEF BrokerSpec, Spec
<1> QED BY <1>3, NothingOvertakes, Implements
=============================================================================
