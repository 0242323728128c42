-------------------------- MODULE BrokerFieldsProofs --------------------------
(***************************************************************************)
(* The entity fields of the broker, for every finite set of clients and    *)
(* publications and any fields they share: the counts of the server, what  *)
(* the requests under way will make of them, and what clients know. The    *)
(* inductive invariant FieldsInv says where the one request of a           *)
(* publication is and what every message in front of its answer carries.   *)
(***************************************************************************)
EXTENDS BrokerEntityFields, SequenceTheorems, FiniteSetTheorems, WellFoundedInduction, TLAPS

(* The types, of the queues too.                                           *)
AnyRequest == FieldRequest \cup Ack \cup All
AnyAnswer == FieldAnswer \cup AllAnswer

FieldKinds ==
  /\ counts \in [Field -> Nat] /\ named \in BOOLEAN
  /\ connected \in SUBSET BrokerClient /\ living \in SUBSET BrokerClient /\ overtaken \in SUBSET living
  /\ waits \in [Publication -> SUBSET BrokerClient]
  /\ handling \in SUBSET Publication
  /\ store \in [BrokerClient -> [Field -> Nat]]
  /\ known \in [BrokerClient -> SUBSET Field]
  /\ loaded \in [BrokerClient -> {"no", "loading", "yes"}]
  /\ progress \in [Publication -> {"new", "publishing", "active", "leaving", "done"}]
  /\ asked \in [Publication -> SUBSET Field]
  /\ requests \in [BrokerClient -> Seq(AnyRequest)]
  /\ answers \in [BrokerClient -> Seq(AnyAnswer)]
  /\ resolved \in [BrokerClient -> Seq(AnyAnswer)]

(* What a dead client has, and one that has not connected yet.             *)
EndedAt(c) ==
  /\ c \notin living => answers[c] = <<>> /\ resolved[c] = <<>> /\ \A f \in Field : store[c][f] = 0
  /\ c \notin connected => requests[c] = <<>>
  /\ c \in living \ connected =>
       /\ answers[c] = <<>> /\ resolved[c] = <<>> /\ loaded[c] = "no"
       /\ \A p \in handling : PublisherOf[p] # c

(* The client counts its publications.                                     *)
Holders(c, f) ==
  {p \in Publication : PublisherOf[p] = c /\ f \in FieldsOf[p] /\ progress[p] \in {"publishing", "active"}}
StoreAt(c) == c \in living => \A f \in Field : store[c][f] = Cardinality(Holders(c, f))

(* Where the one request of a publication is: on its way, in the hands of  *)
(* the server, its answer on the way back, or in front of its continuation.*)
Requested(p, i) ==
  /\ i \in DOMAIN requests[PublisherOf[p]]
  /\ requests[PublisherOf[p]][i].type \in {"Publish", "Unsubscribe"} /\ requests[PublisherOf[p]][i].of = p
Replied(p, i) ==
  /\ i \in DOMAIN answers[PublisherOf[p]]
  /\ answers[PublisherOf[p]][i].type = "Reply" /\ answers[PublisherOf[p]][i].of = p
Settled(p, i) == i \in DOMAIN resolved[PublisherOf[p]] /\ resolved[PublisherOf[p]][i].of = p

Once(p) ==
  /\ \A i, j \in Nat : Requested(p, i) => ~ Replied(p, j) /\ ~ Settled(p, j) /\ (Requested(p, j) => i = j)
  /\ \A i, j \in Nat : Replied(p, i) => ~ Settled(p, j) /\ (Replied(p, j) => i = j)
  /\ \A i, j \in Nat : Settled(p, i) /\ Settled(p, j) => i = j
  /\ p \in handling => \A i \in Nat : ~ Requested(p, i) /\ ~ Replied(p, i) /\ ~ Settled(p, i)

UnderWay(p) == p \in handling \/ \E i \in Nat : Requested(p, i) \/ Replied(p, i) \/ Settled(p, i)

RequestAt(p) ==
  /\ Once(p)
  /\ UnderWay(p) => progress[p] \in {"publishing", "leaving"}
  /\ progress[p] \notin {"publishing", "leaving"} => asked[p] = {}
  /\ \A i \in Nat : Requested(p, i) => requests[PublisherOf[p]][i].fields = asked[p]

(* What is in a queue of a client is for this client.                      *)
OwnRequest(c) == {m \in AnyRequest : m.type \in {"Publish", "Unsubscribe"} => PublisherOf[m.of] = c}
OwnAnswer(c) == {m \in AnyAnswer : m.type = "Reply" /\ m.of # NoPublication => PublisherOf[m.of] = c}
OwnReply(c) == {m \in OwnAnswer(c) : m.type = "Reply"}
MineAt(c) ==
  requests[c] \in Seq(OwnRequest(c)) /\ answers[c] \in Seq(OwnAnswer(c)) /\ resolved[c] \in Seq(OwnReply(c))

(* The server counts who is counted, and nobody beyond those whose last    *)
(* word it does not know any more.                                         *)
MayCount(c, f) == IsCounted(c, f) \/ (c \notin living /\ Silent(requests[c], f))
CountsAt(f) ==
  /\ Cardinality({c \in BrokerClient : IsCounted(c, f)}) <= counts[f]
  /\ counts[f] <= Cardinality({c \in BrokerClient : MayCount(c, f)})

(* Answers from before the first publication name no entity.               *)
NamedFields == \A f \in Field : counts[f] > 0 => named
NamedAt(c) ==
  /\ ~ named => known[c] = {} /\ (\A i \in DOMAIN answers[c] : ~ answers[c][i].named) /\ \A i \in DOMAIN resolved[c] : ~ resolved[c][i].named
  /\ \A i \in DOMAIN answers[c] :
       /\ answers[c][i].type = "Broadcast" => answers[c][i].named
       /\ ~ answers[c][i].named =>
            /\ answers[c][i].fields = {} /\ known[c] = {}
            /\ \A j \in 1 .. i : ~ answers[c][j].named
            /\ \A j \in DOMAIN resolved[c] : ~ resolved[c][j].named
  /\ \A i \in DOMAIN resolved[c] : ~ resolved[c][i].named =>
       /\ resolved[c][i].fields = {}
       /\ \A j \in 1 .. i : ~ resolved[c][j].named
       /\ i = Len(resolved[c]) => c \in overtaken \/ known[c] = {}

(* The last word a client gets is what the server has, unless it has one   *)
(* for this client in hand.                                                *)
FollowsAt(c) ==
  \/ c \notin living
  \/ \E p \in handling : PublisherOf[p] = c
  \/ IF answers[c] # <<>> THEN answers[c][Len(answers[c])].fields = EntityFields
     ELSE \/ c \in overtaken
          \/ IF resolved[c] # <<>> THEN resolved[c][Len(resolved[c])].fields = EntityFields
             ELSE loaded[c] = "yes" => known[c] = EntityFields

(* Once the request that carries f has arrived, all that is sent to the    *)
(* client has f, and what was sent before is in front of its answer.       *)
Have(queue, f, from) == \A i \in DOMAIN queue : i >= from => f \in queue[i].fields
Behind(c, f, q) ==
  \/ q \in handling
  \/ \E i \in Nat : Replied(q, i) /\ Have(answers[c], f, i)
  \/ \E i \in Nat : Settled(q, i) /\ Have(resolved[c], f, i) /\ Have(answers[c], f, 1)
OwnAt(c, f) ==
  c \in living /\ store[c][f] > 0 /\ Silent(requests[c], f) =>
    \/ f \in known[c] /\ Have(answers[c], f, 1) /\ Have(resolved[c], f, 1)
    \/ \E q \in Publication : PublisherOf[q] = c /\ f \in asked[q] /\ Behind(c, f, q)

FieldsInv ==
  /\ FieldKinds
  /\ \A c \in BrokerClient : EndedAt(c) /\ StoreAt(c) /\ MineAt(c) /\ NamedAt(c) /\ FollowsAt(c)
  /\ \A p \in Publication : RequestAt(p)
  /\ RequestsAlternate
  /\ \A f \in Field : CountsAt(f)
  /\ NamedFields
  /\ \A c \in BrokerClient, f \in Field : OwnAt(c, f)
------------------------------------------------------------------------------
(* Queues.                                                                 *)
LEMMA Appended ==
  ASSUME NEW S, NEW q \in Seq(S), NEW m \in S
  PROVE  /\ Append(q, m) \in Seq(S) /\ Len(Append(q, m)) = Len(q) + 1 /\ Len(q) \in Nat
         /\ DOMAIN q = 1 .. Len(q) /\ DOMAIN Append(q, m) = 1 .. Len(q) + 1
         /\ \A i \in 1 .. Len(q) : Append(q, m)[i] = q[i]
         /\ Append(q, m)[Len(q) + 1] = m
         /\ Append(q, m) # <<>>
OBVIOUS

(* What the tail of a queue is.                                            *)
LEMMA Shifted ==
  ASSUME NEW S, NEW q \in Seq(S), q # <<>>
  PROVE  /\ Tail(q) \in Seq(S) /\ Len(Tail(q)) = Len(q) - 1 /\ Len(q) \in Nat \ {0}
         /\ DOMAIN q = 1 .. Len(q) /\ DOMAIN Tail(q) = 1 .. Len(q) - 1
         /\ \A i \in 1 .. Len(q) - 1 : Tail(q)[i] = q[i + 1]
         /\ Head(q) = q[1] /\ Head(q) \in S /\ 1 \in DOMAIN q
OBVIOUS

(* Of the positions with a property there is a first one.                  *)
LEMMA Smallest ==
  ASSUME NEW T, T \subseteq Nat, T # {}
  PROVE  \E x \in T : \A y \in T : x <= y
<1> DEFINE below == [x \in T |-> {y \in T : y <= x}]
           family == {below[x] : x \in T}
<1>1. \A x \in T : below[x] \in SUBSET Nat /\ IsFiniteSet(below[x])
  BY FS_BoundedSetOfNaturals
<1>2. family \subseteq FiniteSubsetsOf(Nat) /\ family # {}
  BY <1>1 DEF FiniteSubsetsOf
<1> HIDE DEF family
<1>3. \E u \in family : \A v \in family : <<v, u>> \notin StrictSubsetOrdering(Nat)
  BY <1>2, FS_StrictSubsetOrderingWellFounded, WFMin
<1>4. PICK x \in T : \A y \in T : <<below[y], below[x]>> \notin StrictSubsetOrdering(Nat)
  BY <1>3 DEF family
<1>5. ASSUME NEW y \in T, y < x PROVE FALSE
  <2>1. below[y] = {z \in T : z <= y} /\ below[x] = {z \in T : z <= x}
    OBVIOUS
  <2>2. below[y] \in SUBSET Nat /\ below[x] \in SUBSET Nat
    BY <1>1
  <2> HIDE DEF below
  <2>3. below[y] \subseteq below[x] /\ x \in below[x] /\ x \notin below[y]
    <3>1. x <= x /\ ~ (x <= y) /\ \A z \in T : z <= y => z <= x
      BY <1>5
    <3> QED BY <2>1, <3>1
  <2> QED BY <1>4, <2>2, <2>3 DEF StrictSubsetOrdering
<1> QED BY <1>5

(* A field is silent, or there is a first request that names it.           *)
LEMMA OneIsFirst ==
  ASSUME NEW S, NEW q \in Seq(S), NEW f, ~ Silent(q, f)
  PROVE  FirstAsks(q, "Publish", f) \/ FirstAsks(q, "Unsubscribe", f)
<1>. DEFINE T == {i \in DOMAIN q : Names(q, i, f)}
<1>1. T \subseteq Nat /\ T # {}
  BY DEF Silent
<1>2. PICK i \in T : \A j \in T : i <= j
  BY <1>1, Smallest
<1>3. \A j \in 1 .. i - 1 : ~ Names(q, j, f)
  BY <1>2
<1>4. q[i].type \in {"Publish", "Unsubscribe"} /\ i \in DOMAIN q /\ Names(q, i, f)
  BY DEF Names
<1>. QED
  BY <1>3, <1>4 DEF FirstAsks

(* The first request that names f is not of both types.                    *)
LEMMA FirstIsOne ==
  ASSUME NEW S, NEW q \in Seq(S), NEW f, FirstAsks(q, "Publish", f)
  PROVE  ~ FirstAsks(q, "Unsubscribe", f) /\ ~ Silent(q, f)
<1>1. PICK i \in DOMAIN q : Names(q, i, f) /\ q[i].type = "Publish" /\ \A j \in 1 .. i - 1 : ~ Names(q, j, f)
  BY DEF FirstAsks
<1>2. ~ Silent(q, f)
  BY <1>1 DEF Silent
<1>3. ASSUME NEW k \in DOMAIN q, Names(q, k, f), q[k].type = "Unsubscribe", \A j \in 1 .. k - 1 : ~ Names(q, j, f)
      PROVE  FALSE
  <2>1. i \in Nat \ {0} /\ k \in Nat \ {0}
    OBVIOUS
  <2>2. ~ (i < k) /\ ~ (k < i)
    BY <1>1, <1>3, <2>1
  <2>. QED
    BY <1>1, <1>3, <2>1, <2>2
<1>. QED
  BY <1>2, <1>3 DEF FirstAsks

(* A request behind the others.                                            *)
LEMMA AsksElse ==
  ASSUME NEW S, NEW q \in Seq(S), NEW m \in S, NEW f, ~ (m.type \in {"Publish", "Unsubscribe"} /\ f \in m.fields)
  PROVE  /\ Silent(Append(q, m), f) <=> Silent(q, f)
         /\ \A t : FirstAsks(Append(q, m), t, f) <=> FirstAsks(q, t, f)
         /\ \A t : LastAsks(Append(q, m), t, f) => LastAsks(q, t, f)
         /\ Alternating(q, f) => Alternating(Append(q, m), f)
<1>. DEFINE r == Append(q, m)  n == Len(q)
<1>1. /\ n \in Nat /\ Len(r) = n + 1 /\ DOMAIN q = 1 .. n /\ DOMAIN r = 1 .. n + 1
      /\ \A i \in 1 .. n : r[i] = q[i]
      /\ r[n + 1] = m
  BY Appended
<1>. HIDE DEF r, n
<1>2. \A i \in 1 .. n : Names(r, i, f) <=> Names(q, i, f)
  BY <1>1 DEF Names
<1>3. ~ Names(r, n + 1, f)
  BY <1>1 DEF Names
<1>4. Silent(r, f) <=> Silent(q, f)
  BY <1>1, <1>2, <1>3 DEF Silent
<1>5. \A t : FirstAsks(r, t, f) <=> FirstAsks(q, t, f)
  <2>. SUFFICES ASSUME NEW t PROVE FirstAsks(r, t, f) <=> FirstAsks(q, t, f)
    OBVIOUS
  <2>1. \A i \in 1 .. n : (\A j \in 1 .. i - 1 : ~ Names(r, j, f)) <=> (\A j \in 1 .. i - 1 : ~ Names(q, j, f))
    BY <1>1, <1>2
  <2>. QED
    BY <1>1, <1>2, <1>3, <2>1 DEF FirstAsks
<1>6. \A t : LastAsks(r, t, f) => LastAsks(q, t, f)
  <2>. SUFFICES ASSUME NEW t, LastAsks(r, t, f) PROVE LastAsks(q, t, f)
    OBVIOUS
  <2>1. PICK i \in 1 .. n + 1 : Names(r, i, f) /\ r[i].type = t /\ \A j \in i + 1 .. n + 1 : ~ Names(r, j, f)
    BY <1>1 DEF LastAsks
  <2>2. i \in 1 .. n
    BY <1>1, <1>3, <2>1
  <2>3. Names(q, i, f) /\ q[i].type = t /\ \A j \in i + 1 .. n : ~ Names(q, j, f)
    BY <1>1, <1>2, <2>1, <2>2
  <2>. QED
    BY <1>1, <2>2, <2>3 DEF LastAsks, n
<1>7. ASSUME Alternating(q, f) PROVE Alternating(r, f)
  <2>. SUFFICES ASSUME NEW i \in 1 .. n + 1, NEW j \in 1 .. n + 1, i < j, Names(r, i, f), Names(r, j, f),
                       \A k \in i + 1 .. j - 1 : ~ Names(r, k, f)
                PROVE  r[i].type # r[j].type
    BY <1>1 DEF Alternating
  <2>1. i \in 1 .. n /\ j \in 1 .. n
    BY <1>1, <1>3
  <2>2. \A k \in i + 1 .. j - 1 : ~ Names(q, k, f)
    BY <1>1, <1>2, <2>1
  <2>. QED
    BY <1>1, <1>2, <1>7, <2>1, <2>2 DEF Alternating
<1>. QED
  BY <1>4, <1>5, <1>6, <1>7 DEF r

(* A request that names f is put at the end.                               *)
LEMMA AsksThis ==
  ASSUME NEW S, NEW q \in Seq(S), NEW m \in S, NEW f, m.type \in {"Publish", "Unsubscribe"}, f \in m.fields
  PROVE  /\ ~ Silent(Append(q, m), f)
         /\ \A t : FirstAsks(Append(q, m), t, f) <=> FirstAsks(q, t, f) \/ (Silent(q, f) /\ t = m.type)
         /\ \A t : LastAsks(Append(q, m), t, f) => t = m.type
         /\ Alternating(q, f) /\ ~ LastAsks(q, m.type, f) => Alternating(Append(q, m), f)
<1>. DEFINE r == Append(q, m)  n == Len(q)
<1>1. /\ n \in Nat /\ Len(r) = n + 1 /\ DOMAIN q = 1 .. n /\ DOMAIN r = 1 .. n + 1
      /\ \A i \in 1 .. n : r[i] = q[i]
      /\ r[n + 1] = m
  BY Appended
<1>. HIDE DEF r, n
<1>2. \A i \in 1 .. n : Names(r, i, f) <=> Names(q, i, f)
  BY <1>1 DEF Names
<1>3. Names(r, n + 1, f) /\ n + 1 \in 1 .. n + 1
  BY <1>1 DEF Names
<1>4. ~ Silent(r, f)
  BY <1>1, <1>3 DEF Silent
<1>5. \A t : FirstAsks(r, t, f) <=> FirstAsks(q, t, f) \/ (Silent(q, f) /\ t = m.type)
  <2>. SUFFICES ASSUME NEW t PROVE FirstAsks(r, t, f) <=> FirstAsks(q, t, f) \/ (Silent(q, f) /\ t = m.type)
    OBVIOUS
  <2>1. \A i \in 1 .. n : (\A j \in 1 .. i - 1 : ~ Names(r, j, f)) <=> (\A j \in 1 .. i - 1 : ~ Names(q, j, f))
    BY <1>1, <1>2
  <2>2. (\A j \in 1 .. (n + 1) - 1 : ~ Names(r, j, f)) <=> Silent(q, f)
    BY <1>1, <1>2 DEF Silent
  <2>3. FirstAsks(q, t, f) <=> \E i \in 1 .. n : Names(r, i, f) /\ r[i].type = t /\ \A j \in 1 .. i - 1 : ~ Names(r, j, f)
    BY <1>1, <1>2, <2>1 DEF FirstAsks
  <2>4. FirstAsks(r, t, f) <=> \E i \in 1 .. n + 1 : Names(r, i, f) /\ r[i].type = t /\ \A j \in 1 .. i - 1 : ~ Names(r, j, f)
    BY <1>1 DEF FirstAsks
  <2>5. \A i \in 1 .. n + 1 : i \in 1 .. n \/ i = n + 1
    BY <1>1
  <2>6. \A i \in 1 .. n : i \in 1 .. n + 1
    BY <1>1
  <2>. QED
    BY <1>1, <1>3, <2>2, <2>3, <2>4, <2>5, <2>6
<1>6. \A t : LastAsks(r, t, f) => t = m.type
  <2>. SUFFICES ASSUME NEW t, LastAsks(r, t, f) PROVE t = m.type
    OBVIOUS
  <2>1. PICK i \in 1 .. n + 1 : Names(r, i, f) /\ r[i].type = t /\ \A j \in i + 1 .. n + 1 : ~ Names(r, j, f)
    BY <1>1 DEF LastAsks
  <2>2. i = n + 1
    BY <1>1, <1>3, <2>1
  <2>. QED
    BY <1>1, <2>1, <2>2
<1>7. ASSUME Alternating(q, f), ~ LastAsks(q, m.type, f) PROVE Alternating(r, f)
  <2>. SUFFICES ASSUME NEW i \in 1 .. n + 1, NEW j \in 1 .. n + 1, i < j, Names(r, i, f), Names(r, j, f),
                       \A k \in i + 1 .. j - 1 : ~ Names(r, k, f)
                PROVE  r[i].type # r[j].type
    BY <1>1 DEF Alternating
  <2>1. CASE j \in 1 .. n
    <3>1. i \in 1 .. n /\ \A k \in i + 1 .. j - 1 : ~ Names(q, k, f)
      BY <1>1, <1>2, <2>1
    <3>. QED
      BY <1>1, <1>2, <1>7, <2>1, <3>1 DEF Alternating
  <2>2. CASE j = n + 1
    <3>1. i \in 1 .. n /\ \A k \in i + 1 .. n : ~ Names(q, k, f)
      BY <1>1, <1>2, <2>2
    <3>2. Names(q, i, f) /\ q[i].type = r[i].type /\ i \in DOMAIN q
      BY <1>1, <1>2, <3>1
    <3>3. q[i].type # m.type
      BY <1>7, <3>1, <3>2 DEF LastAsks, n
    <3>. QED
      BY <1>1, <2>2, <3>2, <3>3
  <2>. QED
    BY <1>1, <2>1, <2>2
<1>. QED
  BY <1>4, <1>5, <1>6, <1>7 DEF r

(* The first request is taken.                                             *)
LEMMA TailAlternates ==
  ASSUME NEW S, NEW q \in Seq(S), NEW f, q # <<>>, Alternating(q, f)
  PROVE  Alternating(Tail(q), f)
<1>. DEFINE r == Tail(q)  n == Len(q) - 1
<1>1. /\ n \in Nat /\ DOMAIN q = 1 .. n + 1 /\ DOMAIN r = 1 .. n
      /\ \A i \in 1 .. n : r[i] = q[i + 1] /\ i + 1 \in 1 .. n + 1
  BY Shifted
<1>. HIDE DEF r, n
<1>2. \A i \in 1 .. n : Names(r, i, f) <=> Names(q, i + 1, f)
  BY <1>1 DEF Names
<1>. SUFFICES ASSUME NEW i \in 1 .. n, NEW j \in 1 .. n,
                     i < j, Names(r, i, f), Names(r, j, f), r[i].type = r[j].type
              PROVE  \E k \in i + 1 .. j - 1 : Names(r, k, f)
  <2>1. \A x, y \in 1 .. n : x < y /\ Names(r, x, f) /\ Names(r, y, f) /\ r[x].type = r[y].type =>
          \E k \in x + 1 .. y - 1 : Names(r, k, f)
    OBVIOUS
  <2>. QED
    BY <1>1, <2>1 DEF Alternating, r
<1>3. PICK k \in (i + 1) + 1 .. (j + 1) - 1 : Names(q, k, f)
  <2>1. i + 1 \in DOMAIN q /\ j + 1 \in DOMAIN q /\ i + 1 < j + 1 /\ q[i + 1].type = q[j + 1].type
    BY <1>1
  <2>2. Names(q, i + 1, f) /\ Names(q, j + 1, f)
    BY <1>2
  <2>. QED
    BY <2>1, <2>2 DEF Alternating
<1>4. k - 1 \in 1 .. n /\ k - 1 \in i + 1 .. j - 1 /\ (k - 1) + 1 = k
  BY <1>1
<1>. QED
  BY <1>2, <1>3, <1>4

(* A request that does not name f is taken.                                *)
LEMMA TakesElse ==
  ASSUME NEW S, NEW q \in Seq(S), NEW f, q # <<>>, ~ Names(q, 1, f)
  PROVE  /\ Silent(Tail(q), f) <=> Silent(q, f)
         /\ \A t : FirstAsks(Tail(q), t, f) <=> FirstAsks(q, t, f)
         /\ \A t : LastAsks(Tail(q), t, f) => LastAsks(q, t, f)
         /\ Alternating(q, f) => Alternating(Tail(q), f)
<1>. DEFINE r == Tail(q)  n == Len(q)
<1>1. /\ n \in Nat \ {0} /\ Len(r) = n - 1 /\ DOMAIN q = 1 .. n /\ DOMAIN r = 1 .. n - 1
      /\ \A i \in 1 .. n - 1 : r[i] = q[i + 1]
  BY Shifted
<1>. HIDE DEF r, n
<1>2. \A i \in 1 .. n - 1 : (Names(r, i, f) <=> Names(q, i + 1, f)) /\ i + 1 \in 1 .. n
  BY <1>1 DEF Names
<1>3. \A i \in 2 .. n : (Names(r, i - 1, f) <=> Names(q, i, f)) /\ i - 1 \in 1 .. n - 1 /\ r[i - 1] = q[i]
  BY <1>1 DEF Names
<1>4. Silent(r, f) <=> Silent(q, f)
  <2>1. \A i \in 1 .. n : i = 1 \/ i \in 2 .. n
    BY <1>1
  <2>. QED
    BY <1>1, <1>2, <1>3, <2>1 DEF Silent
<1>5. \A t : FirstAsks(r, t, f) <=> FirstAsks(q, t, f)
  <2>. SUFFICES ASSUME NEW t PROVE FirstAsks(r, t, f) <=> FirstAsks(q, t, f)
    OBVIOUS
  <2>1. ASSUME NEW i \in 1 .. n - 1, \A j \in 1 .. i - 1 : ~ Names(r, j, f)
        PROVE  \A j \in 1 .. (i + 1) - 1 : ~ Names(q, j, f)
    <3>. SUFFICES ASSUME NEW j \in 1 .. i PROVE ~ Names(q, j, f)
      BY <1>1
    <3>1. CASE j = 1
      BY <3>1
    <3>2. CASE j # 1
      <4>1. j \in 2 .. n /\ j - 1 \in 1 .. i - 1
        BY <1>1, <3>2
      <4>. QED
        BY <1>3, <2>1, <4>1
    <3>. QED
      BY <3>1, <3>2
  <2>2. ASSUME NEW i \in 2 .. n, \A j \in 1 .. i - 1 : ~ Names(q, j, f)
        PROVE  \A j \in 1 .. (i - 1) - 1 : ~ Names(r, j, f)
    BY <1>1, <1>2, <2>2
  <2>3. FirstAsks(r, t, f) => FirstAsks(q, t, f)
    BY <1>1, <1>2, <2>1 DEF FirstAsks
  <2>4. FirstAsks(q, t, f) => FirstAsks(r, t, f)
    <3>. SUFFICES ASSUME FirstAsks(q, t, f) PROVE FirstAsks(r, t, f)
      OBVIOUS
    <3>1. PICK i \in 1 .. n : Names(q, i, f) /\ q[i].type = t /\ \A j \in 1 .. i - 1 : ~ Names(q, j, f)
      BY <1>1 DEF FirstAsks
    <3>2. i \in 2 .. n
      BY <1>1, <3>1
    <3>. QED
      BY <1>1, <1>3, <2>2, <3>1, <3>2 DEF FirstAsks
  <2>. QED
    BY <2>3, <2>4
<1>6. \A t : LastAsks(r, t, f) => LastAsks(q, t, f)
  <2>. SUFFICES ASSUME NEW t, LastAsks(r, t, f) PROVE LastAsks(q, t, f)
    OBVIOUS
  <2>1. PICK i \in 1 .. n - 1 : Names(r, i, f) /\ r[i].type = t /\ \A j \in i + 1 .. n - 1 : ~ Names(r, j, f)
    BY <1>1 DEF LastAsks
  <2>2. ASSUME NEW j \in (i + 1) + 1 .. n PROVE ~ Names(q, j, f)
    <3>1. j \in 2 .. n /\ j - 1 \in i + 1 .. n - 1
      BY <1>1
    <3>. QED
      BY <1>3, <2>1, <3>1
  <2>. QED
    BY <1>1, <1>2, <2>1, <2>2 DEF LastAsks, n
<1>7. Alternating(q, f) => Alternating(r, f)
  BY TailAlternates DEF r
<1>. QED
  BY <1>4, <1>5, <1>6, <1>7 DEF r

(* A request that names f is taken.                                        *)
LEMMA TakesThis ==
  ASSUME NEW S, NEW q \in Seq(S), NEW f, q # <<>>, Names(q, 1, f)
  PROVE  /\ ~ Silent(q, f) /\ FirstAsks(q, q[1].type, f)
         /\ Silent(Tail(q), f) => LastAsks(q, q[1].type, f)
         /\ \A t : LastAsks(Tail(q), t, f) => LastAsks(q, t, f)
         /\ Alternating(q, f) => Alternating(Tail(q), f) /\ ~ FirstAsks(Tail(q), q[1].type, f)
<1>. DEFINE r == Tail(q)  n == Len(q)
<1>1. /\ n \in Nat \ {0} /\ Len(r) = n - 1 /\ DOMAIN q = 1 .. n /\ DOMAIN r = 1 .. n - 1
      /\ \A i \in 1 .. n - 1 : r[i] = q[i + 1]
  BY Shifted
<1>. HIDE DEF r, n
<1>2. \A i \in 1 .. n - 1 : (Names(r, i, f) <=> Names(q, i + 1, f)) /\ i + 1 \in 1 .. n
  BY <1>1 DEF Names
<1>3. \A i \in 2 .. n : (Names(r, i - 1, f) <=> Names(q, i, f)) /\ i - 1 \in 1 .. n - 1 /\ r[i - 1] = q[i]
  BY <1>1 DEF Names
<1>4. ~ Silent(q, f) /\ FirstAsks(q, q[1].type, f)
  BY <1>1 DEF Silent, FirstAsks
<1>5. ASSUME Silent(r, f) PROVE LastAsks(q, q[1].type, f)
  <2>1. \A j \in 1 + 1 .. n : ~ Names(q, j, f)
    BY <1>1, <1>3, <1>5 DEF Silent
  <2>. QED
    BY <1>1, <2>1 DEF LastAsks, n
<1>6. \A t : LastAsks(r, t, f) => LastAsks(q, t, f)
  <2>. SUFFICES ASSUME NEW t, LastAsks(r, t, f) PROVE LastAsks(q, t, f)
    OBVIOUS
  <2>1. PICK i \in 1 .. n - 1 : Names(r, i, f) /\ r[i].type = t /\ \A j \in i + 1 .. n - 1 : ~ Names(r, j, f)
    BY <1>1 DEF LastAsks
  <2>2. ASSUME NEW j \in (i + 1) + 1 .. n PROVE ~ Names(q, j, f)
    <3>1. j \in 2 .. n /\ j - 1 \in i + 1 .. n - 1
      BY <1>1
    <3>. QED
      BY <1>3, <2>1, <3>1
  <2>. QED
    BY <1>1, <1>2, <2>1, <2>2 DEF LastAsks, n
<1>7. Alternating(q, f) => Alternating(r, f)
  BY TailAlternates DEF r
<1>8. ASSUME Alternating(q, f), FirstAsks(r, q[1].type, f) PROVE FALSE
  <2>1. PICK i \in 1 .. n - 1 : Names(r, i, f) /\ r[i].type = q[1].type /\ \A j \in 1 .. i - 1 : ~ Names(r, j, f)
    BY <1>1, <1>8 DEF FirstAsks
  <2>2. ASSUME NEW k \in 1 + 1 .. (i + 1) - 1 PROVE ~ Names(q, k, f)
    <3>1. k \in 2 .. n /\ k - 1 \in 1 .. i - 1
      BY <1>1
    <3>. QED
      BY <1>3, <2>1, <3>1
  <2>3. Names(q, i + 1, f) /\ i + 1 \in 1 .. n /\ 1 \in 1 .. n /\ 1 < i + 1 /\ q[i + 1].type = q[1].type
    BY <1>1, <1>2, <2>1
  <2>. QED
    BY <1>1, <1>8, <2>2, <2>3 DEF Alternating
<1>. QED
  BY <1>4, <1>5, <1>6, <1>7, <1>8 DEF r

------------------------------------------------------------------------------
(* What a step of the server sends: one message, with the fields as they   *)
(* are by then, to the living among some clients.                          *)
Word(type, p) == [type |-> type, of |-> p, fields |-> EntityFields', named |-> named']

Sends(T, type, p) ==
  /\ answers' = [d \in BrokerClient |->
                   IF d \in living /\ d \in T THEN Append(answers[d], Word(type, p)) ELSE answers[d]]
  /\ \/ type \in {"Broadcast", "Reply"} /\ p \in Publication
     \/ type = "Reply" /\ p = NoPublication

(* What the server sends is an answer.                                     *)
LEMMA FieldsEffect ==
  ASSUME FieldKinds, FieldKinds'
  PROVE  /\ EntityFields \in SUBSET Field /\ EntityFields' \in SUBSET Field
         /\ \A type, p : (type \in {"Broadcast", "Reply"} /\ p \in Publication) \/ (type = "Reply" /\ p = NoPublication)
              => Word(type, p) \in AnyAnswer
BY DEF FieldKinds, EntityFields, Word, AnyAnswer, FieldAnswer, AllAnswer

(* What is in the queues.                                                  *)
LEMMA Messages ==
  ASSUME FieldKinds, NEW c \in BrokerClient
  PROVE  /\ requests[c] \in Seq(AnyRequest) /\ answers[c] \in Seq(AnyAnswer) /\ resolved[c] \in Seq(AnyAnswer)
         /\ \A i \in DOMAIN requests[c] : requests[c][i] \in AnyRequest
         /\ \A i \in DOMAIN answers[c] : answers[c][i] \in AnyAnswer
         /\ \A i \in DOMAIN resolved[c] : resolved[c][i] \in AnyAnswer
         /\ requests[c] # <<>> => Head(requests[c]) = requests[c][1] /\ 1 \in DOMAIN requests[c]
         /\ answers[c] # <<>> => Head(answers[c]) = answers[c][1] /\ 1 \in DOMAIN answers[c]
         /\ resolved[c] # <<>> => Head(resolved[c]) = resolved[c][1] /\ 1 \in DOMAIN resolved[c]
<1>1. requests[c] \in Seq(AnyRequest) /\ answers[c] \in Seq(AnyAnswer) /\ resolved[c] \in Seq(AnyAnswer)
  BY DEF FieldKinds
<1>. QED
  BY <1>1, Shifted

(* The answer to one client.                                               *)
LEMMA Answering ==
  ASSUME FieldKinds, NEW c \in BrokerClient, NEW p, SendsAnswers(Answered(c, p, EntityFields')),
         p \in Publication \/ p = NoPublication
  PROVE  Sends({c}, "Reply", p)
<1>1. \A d \in BrokerClient : answers[d] \in Seq(AnyAnswer)
  BY DEF FieldKinds
<1>2. \A d \in BrokerClient : answers[d] \o <<>> = answers[d]
                           /\ answers[d] \o <<Word("Reply", p)>> = Append(answers[d], Word("Reply", p))
  <2>. SUFFICES ASSUME NEW d \in BrokerClient PROVE answers[d] \o <<>> = answers[d]
                           /\ answers[d] \o <<Word("Reply", p)>> = Append(answers[d], Word("Reply", p))
    OBVIOUS
  <2>. HIDE DEF Word
  <2>. DEFINE m == Word("Reply", p)
  <2>. HIDE DEF m
  <2>1. answers[d] \in Seq(AnyAnswer \cup {m})
    BY <1>1
  <2>2. answers[d] \o <<>> = answers[d] /\ answers[d] \o <<m>> = Append(answers[d], m)
    BY <2>1
  <2>. QED
    BY <2>2 DEF m
<1>. QED
  BY <1>2 DEF SendsAnswers, Answered, Sends, Word

------------------------------------------------------------------------------
(* The types.                                                              *)
LEMMA QueueKinds ==
  ASSUME NEW S, NEW D, NEW q \in [D -> Seq(S)], NEW c \in D
  PROVE  /\ \A m \in S : [q EXCEPT ![c] = Append(@, m)] \in [D -> Seq(S)]
         /\ q[c] # <<>> => [q EXCEPT ![c] = Tail(@)] \in [D -> Seq(S)]
         /\ [q EXCEPT ![c] = <<>>] \in [D -> Seq(S)]
<1>1. q[c] \in Seq(S) /\ <<>> \in Seq(S)
  OBVIOUS
<1>2. \A m \in S : Append(q[c], m) \in Seq(S)
  BY <1>1
<1>3. q[c] # <<>> => Tail(q[c]) \in Seq(S)
  BY <1>1
<1>. QED
  BY <1>1, <1>2, <1>3, Zenon

(* Sending keeps the types.                                                *)
LEMMA SendKinds ==
  ASSUME FieldKinds, NEW T, NEW type, NEW p, Sends(T, type, p), EntityFields' \in SUBSET Field, named' \in BOOLEAN
  PROVE  answers' \in [BrokerClient -> Seq(AnyAnswer)]
<1>1. Word(type, p) \in AnyAnswer
  BY DEF Sends, Word, AnyAnswer, FieldAnswer, AllAnswer
<1>2. \A d \in BrokerClient : answers[d] \in Seq(AnyAnswer) /\ Append(answers[d], Word(type, p)) \in Seq(AnyAnswer)
  <2>. SUFFICES ASSUME NEW d \in BrokerClient PROVE answers[d] \in Seq(AnyAnswer) /\ Append(answers[d], Word(type, p)) \in Seq(AnyAnswer)
    OBVIOUS
  <2>1. answers[d] \in Seq(AnyAnswer)
    BY DEF FieldKinds
  <2>. QED
    BY <1>1, <2>1
<1>3. answers' = [d \in BrokerClient |->
                   IF d \in living /\ d \in T THEN Append(answers[d], Word(type, p)) ELSE answers[d]]
  BY DEF Sends
<1>. HIDE DEF Word, AnyAnswer
<1>. QED
  BY <1>2, <1>3

(* What a handler of a request does.                                       *)
LEMMA HandleRequestEffect ==
  ASSUME EntityFieldsAssumption, FieldKinds, NamedFields, NEW c \in BrokerClient, HandleRequest(c),
         NEW r, r = requests[c][1]
  PROVE  /\ r \in FieldRequest /\ requests[c] # <<>> /\ c \in connected
         /\ requests' = [requests EXCEPT ![c] = Tail(@)]
         /\ counts' = IF r.type = "Publish" THEN CountUp(r.fields) ELSE Withdraw(r.fields)
         /\ counts' \in [Field -> Nat] /\ EntityFields' \in SUBSET Field
         /\ named' \in BOOLEAN /\ (named => named') /\ (r.type = "Publish" => named') /\ (r.type # "Publish" => named' = named)
         /\ NamedFields'
         /\ UNCHANGED <<connected, fieldClientVars>>
         /\ \/ /\ EntityFields' # EntityFields /\ handling' = handling \cup {r.of}
               /\ Sends(Others(c), "Broadcast", r.of)
               /\ waits' = [waits EXCEPT ![r.of] = Others(c)]
            \/ EntityFields' = EntityFields /\ Sends({c}, "Reply", r.of) /\ UNCHANGED <<waits, handling>>
<1>1. requests[c] # <<>> /\ Head(requests[c]) = r /\ r \in AnyRequest /\ r.type \in {"Publish", "Unsubscribe"} /\ c \in connected
  BY Messages DEF HandleRequest
<1>2. r \in FieldRequest
  BY <1>1 DEF AnyRequest, FieldRequest, Ack, All
<1>3. /\ requests' = [requests EXCEPT ![c] = Tail(@)]
      /\ counts' = (IF r.type = "Publish" THEN CountUp(r.fields) ELSE Withdraw(r.fields))
      /\ named' = (named \/ r.type = "Publish")
      /\ UNCHANGED <<connected, fieldClientVars>>
  BY <1>1 DEF HandleRequest, Received
<1>4. counts' \in [Field -> Nat]
  <2>1. counts \in [Field -> Nat] /\ r.fields \subseteq Field
    BY <1>2 DEF FieldKinds, FieldRequest
  <2>2. CountUp(r.fields) \in [Field -> Nat] /\ Withdraw(r.fields) \in [Field -> Nat]
    BY <2>1 DEF CountUp, Withdraw
  <2>. QED
    BY <1>3, <2>2
<1>9. NamedFields' /\ (NamedFields => \A f \in Field : counts[f] > 0 \/ counts'[f] > 0 => named' = TRUE)
  <2>1. ASSUME NEW f \in Field, counts[f] > 0 \/ counts'[f] > 0 PROVE named' = TRUE
    <3>1. CASE r.type = "Publish"
      BY <1>3, <3>1
    <3>2. CASE r.type # "Publish"
      <4>1. counts'[f] > 0 => counts[f] > 0
        BY <1>3, <3>2 DEF Withdraw, FieldKinds
      <4>. QED
        BY <1>3, <2>1, <4>1 DEF NamedFields, FieldKinds
    <3>. QED
      BY <3>1, <3>2
  <2>. QED
    BY <2>1 DEF NamedFields
<1>5. EntityFields' \in SUBSET Field
  BY DEF EntityFields
<1>6. r.of \in Publication
  BY <1>2 DEF FieldRequest
<1>7. CASE EntityFields' # EntityFields
  <2>. DEFINE m == [type |-> "Broadcast", of |-> r.of, fields |-> EntityFields', named |-> TRUE]
  <2>1. /\ waits' = [waits EXCEPT ![r.of] = Others(c)]
        /\ handling' = handling \cup {r.of}
        /\ SendsAnswers([d \in BrokerClient |-> IF d \in Others(c) THEN <<m>> ELSE <<>>])
    BY <1>1, <1>7 DEF HandleRequest
  <2>2. answers' = [d \in BrokerClient |-> IF d \in living
                       THEN answers[d] \o (IF d \in Others(c) THEN <<m>> ELSE <<>>) ELSE answers[d]]
    BY <2>1 DEF SendsAnswers
  <2>3. m = Word("Broadcast", r.of)
    <3>1. named' = TRUE
      <4>1. PICK f \in Field : counts[f] > 0 \/ counts'[f] > 0
        BY <1>7 DEF EntityFields
      <4>. QED
        BY <1>9, <4>1 DEF NamedFields
    <3>. QED
      BY <3>1 DEF Word
  <2>. HIDE DEF m
  <2>4. \A d \in BrokerClient : answers[d] \o <<>> = answers[d] /\ answers[d] \o <<m>> = Append(answers[d], m)
    <3>. SUFFICES ASSUME NEW d \in BrokerClient
                  PROVE  answers[d] \o <<>> = answers[d] /\ answers[d] \o <<m>> = Append(answers[d], m)
      OBVIOUS
    <3>1. answers[d] \in Seq(AnyAnswer \cup {m})
      BY DEF FieldKinds
    <3>. QED
      BY <3>1
  <2>5. answers' = [d \in BrokerClient |-> IF d \in living /\ d \in Others(c) THEN Append(answers[d], m) ELSE answers[d]]
    BY <2>2, <2>4
  <2>6. Sends(Others(c), "Broadcast", r.of)
    BY <1>6, <2>3, <2>5 DEF Sends
  <2>. QED
    BY <1>1, <1>2, <1>3, <1>4, <1>5, <1>7, <1>9, <2>1, <2>6 DEF FieldKinds
<1>8. CASE EntityFields' = EntityFields
  <2>1. SendsAnswers(Answered(c, r.of, EntityFields')) /\ UNCHANGED <<waits, handling>>
    BY <1>1, <1>8 DEF HandleRequest
  <2>2. Sends({c}, "Reply", r.of)
    BY <1>6, <2>1, Answering
  <2>. QED
    BY <1>1, <1>2, <1>3, <1>4, <1>5, <1>8, <1>9, <2>1, <2>2 DEF FieldKinds
<1>. QED
  BY <1>7, <1>8

(* The reply once all acks are there.                                      *)
LEMMA ReplyEffect ==
  ASSUME EntityFieldsAssumption, FieldKinds, NEW p \in Publication, Reply(p)
  PROVE  /\ p \in handling /\ handling' = handling \ {p}
         /\ UNCHANGED <<counts, named, connected, waits, fieldClientVars, requests>>
         /\ EntityFields' = EntityFields /\ Sends({PublisherOf[p]}, "Reply", p)
<1>1. EntityFields' = EntityFields
  BY DEF EntityFields, Reply
<1>2. PublisherOf[p] \in BrokerClient
  BY DEF EntityFieldsAssumption
<1>. QED
  BY <1>1, <1>2, Answering DEF Reply

(* The answer to AllEntityFields.                                          *)
LEMMA HandleAllEffect ==
  ASSUME EntityFieldsAssumption, FieldKinds, NEW c \in BrokerClient, HandleAll(c)
  PROVE  /\ requests[c] # <<>> /\ c \in connected /\ requests[c][1].type = "All"
         /\ requests' = [requests EXCEPT ![c] = Tail(@)]
         /\ UNCHANGED <<fieldServerVars, fieldClientVars>>
         /\ EntityFields' = EntityFields /\ Sends({c}, "Reply", NoPublication)
<1>1. EntityFields' = EntityFields
  BY DEF EntityFields, HandleAll, fieldServerVars
<1>2. requests[c] # <<>> => Head(requests[c]) = requests[c][1]
  BY Messages
<1>. QED
  BY <1>1, <1>2, Answering DEF HandleAll, Received

(* The publications that a client counts are finitely many.                *)
LEMMA HoldersAre ==
  ASSUME EntityFieldsAssumption, NEW c \in BrokerClient, NEW f \in Field
  PROVE  /\ IsFiniteSet(Holders(c, f)) /\ Cardinality(Holders(c, f)) \in Nat
         /\ Cardinality(Holders(c, f)) > 0 <=> Holders(c, f) # {}
         /\ Holders(c, f) \subseteq Publication /\ Cardinality(Holders(c, f)) <= Cardinality(Publication)
<1>1. IsFiniteSet(Publication) /\ Holders(c, f) \subseteq Publication
  BY DEF EntityFieldsAssumption, Holders
<1>2. IsFiniteSet(Holders(c, f)) /\ Cardinality(Holders(c, f)) <= Cardinality(Publication)
  BY <1>1, FS_Subset
<1>3. Cardinality(Holders(c, f)) \in Nat
  BY <1>2, FS_CardinalityType
<1>. QED
  BY <1>1, <1>2, <1>3, FS_EmptySet

(* Every step keeps the types.                                             *)
LEMMA KindsStep ==
  ASSUME EntityFieldsAssumption, FieldKinds, NamedFields, FieldsNext,
         \A c \in BrokerClient : StoreAt(c) /\ EndedAt(c)
  PROVE  FieldKinds'
<1>1. ASSUME NEW c \in BrokerClient, Connect(c) PROVE FieldKinds'
  BY <1>1 DEF FieldKinds, Connect, fieldClientVars
<1>2. ASSUME NEW c \in BrokerClient, GetEntityFields(c) PROVE FieldKinds'
  <2>1. [type |-> "All"] \in AnyRequest
    BY DEF AnyRequest, All
  <2>2. requests' \in [BrokerClient -> Seq(AnyRequest)]
    BY <1>2, <2>1, QueueKinds DEF GetEntityFields, SendsRequest, FieldKinds
  <2>. HIDE DEF AnyRequest, AnyAnswer
  <2>. QED
    BY <1>2, <2>2 DEF FieldKinds, GetEntityFields, fieldServerVars
<1>3. ASSUME NEW p \in Publication, PublishEntityFields(p) \/ UnsubscribeEntityFields(p) PROVE FieldKinds'
  <2>. DEFINE c == PublisherOf[p]
              new == NewFields(c, FieldsOf[p])
              last == {f \in FieldsOf[p] : store[c][f] = 1}
  <2>1. c \in BrokerClient /\ FieldsOf[p] \subseteq Field /\ new \subseteq Field /\ last \subseteq Field
    BY DEF EntityFieldsAssumption, NewFields
  <2>2. /\ [type |-> "Publish", of |-> p, fields |-> new] \in AnyRequest
        /\ [type |-> "Unsubscribe", of |-> p, fields |-> last] \in AnyRequest
    BY <2>1 DEF AnyRequest, FieldRequest
  <2>3. requests' \in [BrokerClient -> Seq(AnyRequest)]
    <3>. HIDE DEF AnyRequest, AnyAnswer, new, last
    <3>1. ASSUME NEW m \in AnyRequest PROVE [requests EXCEPT ![c] = Append(@, m)] \in [BrokerClient -> Seq(AnyRequest)]
      BY <2>1, QueueKinds DEF FieldKinds
    <3>2. \/ requests' = requests
          \/ requests' = [requests EXCEPT ![c] = Append(@, [type |-> "Publish", of |-> p, fields |-> new])]
          \/ requests' = [requests EXCEPT ![c] = Append(@, [type |-> "Unsubscribe", of |-> p, fields |-> last])]
      BY <1>3 DEF PublishEntityFields, UnsubscribeEntityFields, SendsRequest, new, last
    <3>3. [requests EXCEPT ![c] = Append(@, [type |-> "Publish", of |-> p, fields |-> new])] \in [BrokerClient -> Seq(AnyRequest)]
      BY <2>2, <3>1 DEF new
    <3>4. [requests EXCEPT ![c] = Append(@, [type |-> "Unsubscribe", of |-> p, fields |-> last])] \in [BrokerClient -> Seq(AnyRequest)]
      BY <2>2, <3>1 DEF last
    <3>5. requests \in [BrokerClient -> Seq(AnyRequest)]
      BY DEF FieldKinds
    <3>. QED
      BY <3>2, <3>3, <3>4, <3>5, Zenon
  <2>4. store' \in [BrokerClient -> [Field -> Nat]]
    <3>1. store[c] \in [Field -> Nat]
      BY <2>1 DEF FieldKinds
    <3>2. CASE progress[p] = "new"
      <4>1. [f \in Field |-> IF f \in FieldsOf[p] THEN store[c][f] + 1 ELSE store[c][f]] \in [Field -> Nat]
        BY <3>1
      <4>. QED
        BY <1>3, <2>1, <3>2, <4>1 DEF PublishEntityFields, UnsubscribeEntityFields, FieldKinds
    <3>3. CASE progress[p] # "new"
      <4>1. progress[p] = "active" /\ c \in living
        BY <1>3, <3>3 DEF PublishEntityFields, UnsubscribeEntityFields
      <4>2. ASSUME NEW f \in FieldsOf[p] PROVE store[c][f] > 0
        <5>1. f \in Field /\ p \in Holders(c, f)
          BY <2>1, <4>1 DEF Holders
        <5>. QED
          BY <2>1, <4>1, <5>1, HoldersAre DEF StoreAt
      <4>3. [f \in Field |-> IF f \in FieldsOf[p] THEN store[c][f] - 1 ELSE store[c][f]] \in [Field -> Nat]
        BY <3>1, <4>2
      <4>. QED
        BY <1>3, <2>1, <3>3, <4>3 DEF PublishEntityFields, UnsubscribeEntityFields, FieldKinds
    <3>. QED
      BY <3>2, <3>3
  <2>5. progress' \in [Publication -> {"new", "publishing", "active", "leaving", "done"}] /\ asked' \in [Publication -> SUBSET Field]
    <3>. HIDE DEF new, last
    <3>1. progress' = progress \/ \E t \in {"new", "publishing", "active", "leaving", "done"} : progress' = [progress EXCEPT ![p] = t]
      BY <1>3 DEF PublishEntityFields, UnsubscribeEntityFields
    <3>2. asked' = asked \/ asked' = [asked EXCEPT ![p] = new] \/ asked' = [asked EXCEPT ![p] = last]
      BY <1>3 DEF PublishEntityFields, UnsubscribeEntityFields, new, last
    <3>. QED
      BY <2>1, <3>1, <3>2 DEF FieldKinds
  <2>. HIDE DEF AnyRequest, AnyAnswer, new, last
  <2>. QED
    BY <1>3, <2>3, <2>4, <2>5 DEF FieldKinds, PublishEntityFields, UnsubscribeEntityFields, fieldServerVars
<1>4. ASSUME NEW c \in BrokerClient, ClientDies(c) \/ CloseFields(c) PROVE FieldKinds'
  <2>1. [store EXCEPT ![c] = [f \in Field |-> 0]] \in [BrokerClient -> [Field -> Nat]]
    BY DEF FieldKinds
  <2>2. requests' \in [BrokerClient -> Seq(AnyRequest)] /\ answers' \in [BrokerClient -> Seq(AnyAnswer)]
        /\ resolved' \in [BrokerClient -> Seq(AnyAnswer)]
    <3>. HIDE DEF AnyRequest, AnyAnswer
    <3>1. [requests EXCEPT ![c] = <<>>] \in [BrokerClient -> Seq(AnyRequest)]
      BY QueueKinds DEF FieldKinds
    <3>2. [answers EXCEPT ![c] = <<>>] \in [BrokerClient -> Seq(AnyAnswer)]
      BY QueueKinds DEF FieldKinds
    <3>3. [resolved EXCEPT ![c] = <<>>] \in [BrokerClient -> Seq(AnyAnswer)]
      BY QueueKinds DEF FieldKinds
    <3>. QED
      BY <1>4, <3>1, <3>2, <3>3 DEF ClientDies, CloseFields, fieldClientVars, FieldKinds
  <2>3. living' \in SUBSET BrokerClient /\ connected' \in SUBSET BrokerClient /\ overtaken' \in SUBSET living'
    BY <1>4 DEF ClientDies, CloseFields, fieldClientVars, fieldServerVars, FieldKinds
  <2>4. known' \in [BrokerClient -> SUBSET Field] /\ store' \in [BrokerClient -> [Field -> Nat]]
    BY <1>4, <2>1 DEF ClientDies, CloseFields, fieldClientVars, FieldKinds
  <2>. HIDE DEF AnyRequest, AnyAnswer
  <2>. QED
    BY <1>4, <2>2, <2>3, <2>4 DEF FieldKinds, ClientDies, CloseFields, fieldServerVars, fieldClientVars
<1>5. ASSUME NEW c \in BrokerClient, OnBroadcast(c) \/ OnReply(c) PROVE FieldKinds'
  <2>. DEFINE m == answers[c][1]
  <2>1. answers[c] # <<>> /\ Head(answers[c]) = m /\ m \in AnyAnswer
    BY <1>5, Messages DEF OnBroadcast, OnReply
  <2>2. m.fields \in SUBSET Field /\ (m.type = "Broadcast" => [type |-> "Ack", of |-> m.of] \in AnyRequest)
    BY <2>1 DEF AnyAnswer, FieldAnswer, AllAnswer, AnyRequest, Ack
  <2>. HIDE DEF m
  <2>3. requests' \in [BrokerClient -> Seq(AnyRequest)] /\ answers' \in [BrokerClient -> Seq(AnyAnswer)]
        /\ resolved' \in [BrokerClient -> Seq(AnyAnswer)]
    <3>. HIDE DEF AnyRequest, AnyAnswer
    <3>1. m.type = "Broadcast" =>
            [requests EXCEPT ![c] = Append(@, [type |-> "Ack", of |-> m.of])] \in [BrokerClient -> Seq(AnyRequest)]
      BY <2>2, QueueKinds DEF FieldKinds
    <3>2. [answers EXCEPT ![c] = Tail(@)] \in [BrokerClient -> Seq(AnyAnswer)]
      BY <2>1, QueueKinds DEF FieldKinds
    <3>3. [resolved EXCEPT ![c] = Append(@, m)] \in [BrokerClient -> Seq(AnyAnswer)]
      BY <2>1, QueueKinds DEF FieldKinds
    <3>. QED
      BY <1>5, <2>1, <3>1, <3>2, <3>3 DEF OnBroadcast, OnReply, FieldKinds
  <2>4. c \in living
    BY <2>1 DEF EndedAt
  <2>5. known' \in [BrokerClient -> SUBSET Field] /\ overtaken' \in SUBSET living'
    BY <1>5, <2>1, <2>2, <2>4 DEF OnBroadcast, OnReply, FieldKinds
  <2>. HIDE DEF AnyRequest, AnyAnswer
  <2>. QED
    BY <1>5, <2>3, <2>5 DEF FieldKinds, OnBroadcast, OnReply, fieldServerVars
<1>6. ASSUME NEW c \in BrokerClient, Continue(c) PROVE FieldKinds'
  <2>. DEFINE m == resolved[c][1]
  <2>1. resolved[c] # <<>> /\ Head(resolved[c]) = m /\ m \in AnyAnswer
    BY <1>6, Messages DEF Continue
  <2>2. m.fields \in SUBSET Field /\ m.named \in BOOLEAN /\ (m.of \in Publication \/ m.of = NoPublication)
    BY <2>1 DEF AnyAnswer, FieldAnswer, AllAnswer
  <2>. HIDE DEF m
  <2>3. resolved' \in [BrokerClient -> Seq(AnyAnswer)]
    BY <1>6, <2>1, QueueKinds DEF Continue, FieldKinds
  <2>4. known' \in [BrokerClient -> SUBSET Field]
    BY <1>6, <2>1, <2>2 DEF Continue, FieldKinds
  <2>5. /\ loaded' \in [BrokerClient -> {"no", "loading", "yes"}]
        /\ progress' \in [Publication -> {"new", "publishing", "active", "leaving", "done"}]
        /\ asked' \in [Publication -> SUBSET Field]
    <3>1. Settle(c, m.of)
      BY <1>6, <2>1 DEF Continue
    <3>. QED
      BY <3>1 DEF Settle, FieldKinds
  <2>. HIDE DEF AnyRequest, AnyAnswer
  <2>. QED
    BY <1>6, <2>3, <2>4, <2>5 DEF FieldKinds, Continue, fieldServerVars
<1>7. ASSUME NEW c \in BrokerClient, HandleRequest(c) PROVE FieldKinds'
  <2>. DEFINE r == requests[c][1]
  <2>1. /\ r.of \in Publication /\ requests[c] # <<>> /\ counts' \in [Field -> Nat] /\ named' \in BOOLEAN
        /\ requests' = [requests EXCEPT ![c] = Tail(@)] /\ EntityFields' \in SUBSET Field
        /\ UNCHANGED <<connected, fieldClientVars>>
        /\ \/ waits' = [waits EXCEPT ![r.of] = Others(c)] /\ handling' = handling \cup {r.of}
           \/ UNCHANGED <<waits, handling>>
        /\ Sends(Others(c), "Broadcast", r.of) \/ Sends({c}, "Reply", r.of)
    <3>1. r \in FieldRequest
      BY <1>7, HandleRequestEffect
    <3>2. r.of \in Publication
      BY <3>1 DEF FieldRequest
    <3>. QED
      BY <1>7, <3>2, HandleRequestEffect
  <2>. HIDE DEF r
  <2>2. requests' \in [BrokerClient -> Seq(AnyRequest)]
    BY <2>1, QueueKinds DEF FieldKinds
  <2>3. answers' \in [BrokerClient -> Seq(AnyAnswer)]
    BY <2>1, SendKinds
  <2>4. waits' \in [Publication -> SUBSET BrokerClient] /\ handling' \in SUBSET Publication
    <3>1. Others(c) \in SUBSET BrokerClient
      BY DEF FieldKinds, Others
    <3>2. [waits EXCEPT ![r.of] = Others(c)] \in [Publication -> SUBSET BrokerClient]
      BY <3>1 DEF FieldKinds
    <3>. QED
      BY <2>1, <3>2 DEF FieldKinds
  <2>. HIDE DEF AnyRequest, AnyAnswer
  <2>. QED
    BY <2>1, <2>2, <2>3, <2>4 DEF FieldKinds, fieldClientVars
<1>8. ASSUME NEW c \in BrokerClient, HandleAll(c) \/ HandleAck(c) PROVE FieldKinds'
  <2>1. requests[c] # <<>> /\ requests' = [requests EXCEPT ![c] = Tail(@)]
    BY <1>8 DEF HandleAll, HandleAck, Received
  <2>2. requests' \in [BrokerClient -> Seq(AnyRequest)]
    BY <2>1, QueueKinds DEF FieldKinds
  <2>3. UNCHANGED <<counts, named, connected, handling, fieldClientVars>> /\ EntityFields' = EntityFields
    BY <1>8 DEF HandleAll, HandleAck, fieldServerVars, EntityFields
  <2>4. EntityFields' \in SUBSET Field /\ named' \in BOOLEAN
    BY <2>3 DEF EntityFields, FieldKinds
  <2>5. answers' \in [BrokerClient -> Seq(AnyAnswer)]
    BY <1>8, <2>4, HandleAllEffect, SendKinds DEF HandleAck, FieldKinds
  <2>6. waits' \in [Publication -> SUBSET BrokerClient]
    <3>1. ASSUME NEW p PROVE [waits EXCEPT ![p] = @ \ {c}] \in [Publication -> SUBSET BrokerClient]
      BY DEF FieldKinds
    <3>. QED
      <4>1. waits' = waits \/ \E p : waits' = [waits EXCEPT ![p] = @ \ {c}]
        BY <1>8 DEF HandleAll, HandleAck, fieldServerVars
      <4>2. waits \in [Publication -> SUBSET BrokerClient]
        BY DEF FieldKinds
      <4>. QED
        BY <3>1, <4>1, <4>2, Zenon
  <2>. HIDE DEF AnyRequest, AnyAnswer
  <2>. QED
    BY <2>2, <2>3, <2>5, <2>6 DEF FieldKinds, fieldClientVars
<1>9. ASSUME NEW p \in Publication, Reply(p) PROVE FieldKinds'
  <2>1. EntityFields' \in SUBSET Field /\ named' \in BOOLEAN
    BY <1>9 DEF EntityFields, Reply, FieldKinds
  <2>2. answers' \in [BrokerClient -> Seq(AnyAnswer)]
    BY <1>9, <2>1, ReplyEffect, SendKinds
  <2>. HIDE DEF AnyRequest, AnyAnswer
  <2>. QED
    BY <1>9, <2>2 DEF FieldKinds, Reply, fieldClientVars
<1>. QED
  BY <1>1, <1>2, <1>3, <1>4, <1>5, <1>6, <1>7, <1>8, <1>9 DEF FieldsNext

------------------------------------------------------------------------------
(* Who is gone, what the clients count, and whose messages these are.      *)
LEMMA SentTo ==
  ASSUME FieldKinds, NEW T, NEW type, NEW p, Sends(T, type, p), NEW d \in BrokerClient
  PROVE  /\ d \in living /\ d \in T => answers'[d] = Append(answers[d], Word(type, p))
         /\ ~ (d \in living /\ d \in T) => answers'[d] = answers[d]
BY DEF Sends

(* The request of a publication and that of its end.                       *)
New(p) == NewFields(PublisherOf[p], FieldsOf[p])
Last(p) == {f \in FieldsOf[p] : store[PublisherOf[p]][f] = 1}
Publishes(p) == [type |-> "Publish", of |-> p, fields |-> New(p)]
Leaves(p) == [type |-> "Unsubscribe", of |-> p, fields |-> Last(p)]

(* A publication asks for the fields that are new.                         *)
LEMMA PublishEffect ==
  ASSUME EntityFieldsAssumption, FieldKinds, NEW p \in Publication, PublishEntityFields(p)
  PROVE  /\ PublisherOf[p] \in BrokerClient /\ PublisherOf[p] \in living /\ progress[p] = "new"
         /\ New(p) \subseteq FieldsOf[p] /\ FieldsOf[p] \subseteq Field
         /\ \A f \in FieldsOf[p] : f \in New(p) <=> store[PublisherOf[p]][f] = 0
         /\ \A d \in BrokerClient \ {PublisherOf[p]} : store'[d] = store[d]
         /\ \A f \in Field : store'[PublisherOf[p]][f] =
              IF f \in FieldsOf[p] THEN store[PublisherOf[p]][f] + 1 ELSE store[PublisherOf[p]][f]
         /\ \/ New(p) = {} /\ progress' = [progress EXCEPT ![p] = "active"] /\ UNCHANGED <<asked, requests>>
            \/ /\ New(p) # {} /\ progress' = [progress EXCEPT ![p] = "publishing"] /\ asked' = [asked EXCEPT ![p] = New(p)]
               /\ PublisherOf[p] \in connected /\ Publishes(p) \in AnyRequest
               /\ requests' = [requests EXCEPT ![PublisherOf[p]] = Append(@, Publishes(p))]
         /\ UNCHANGED <<fieldServerVars, living, known, loaded, resolved, overtaken, answers>>
<1>. DEFINE c == PublisherOf[p]
<1>1. c \in BrokerClient /\ FieldsOf[p] \subseteq Field
  BY DEF EntityFieldsAssumption
<1>2. New(p) \subseteq FieldsOf[p] /\ \A f \in FieldsOf[p] : f \in New(p) <=> store[c][f] = 0
  BY DEF New, NewFields
<1>3. Publishes(p) \in AnyRequest
  BY <1>1, <1>2 DEF AnyRequest, FieldRequest, Publishes
<1>4. store' = [store EXCEPT ![c] = [f \in Field |-> IF f \in FieldsOf[p] THEN @[f] + 1 ELSE @[f]]]
  BY DEF PublishEntityFields
<1>5. /\ \A d \in BrokerClient \ {c} : store'[d] = store[d]
      /\ \A f \in Field : store'[c][f] = IF f \in FieldsOf[p] THEN store[c][f] + 1 ELSE store[c][f]
  BY <1>1, <1>4 DEF FieldKinds
<1>. QED
  BY <1>1, <1>2, <1>3, <1>5 DEF PublishEntityFields, SendsRequest, New, Publishes

(* A subscription that ends withdraws the fields it was the last for.      *)
LEMMA UnsubscribeEffect ==
  ASSUME EntityFieldsAssumption, FieldKinds, NEW p \in Publication, UnsubscribeEntityFields(p)
  PROVE  /\ PublisherOf[p] \in BrokerClient /\ PublisherOf[p] \in living /\ progress[p] = "active"
         /\ Last(p) \subseteq FieldsOf[p] /\ FieldsOf[p] \subseteq Field
         /\ \A f \in FieldsOf[p] : f \in Last(p) <=> store[PublisherOf[p]][f] = 1
         /\ \A d \in BrokerClient \ {PublisherOf[p]} : store'[d] = store[d]
         /\ \A f \in Field : store'[PublisherOf[p]][f] =
              IF f \in FieldsOf[p] THEN store[PublisherOf[p]][f] - 1 ELSE store[PublisherOf[p]][f]
         /\ \/ Last(p) = {} /\ progress' = [progress EXCEPT ![p] = "done"] /\ UNCHANGED <<asked, requests>>
            \/ /\ Last(p) # {} /\ progress' = [progress EXCEPT ![p] = "leaving"] /\ asked' = [asked EXCEPT ![p] = Last(p)]
               /\ PublisherOf[p] \in connected /\ Leaves(p) \in AnyRequest
               /\ requests' = [requests EXCEPT ![PublisherOf[p]] = Append(@, Leaves(p))]
         /\ UNCHANGED <<fieldServerVars, living, known, loaded, resolved, overtaken, answers>>
<1>. DEFINE c == PublisherOf[p]
<1>1. c \in BrokerClient /\ FieldsOf[p] \subseteq Field
  BY DEF EntityFieldsAssumption
<1>2. Last(p) \subseteq FieldsOf[p] /\ \A f \in FieldsOf[p] : f \in Last(p) <=> store[c][f] = 1
  BY DEF Last
<1>3. Leaves(p) \in AnyRequest
  BY <1>1, <1>2 DEF AnyRequest, FieldRequest, Leaves
<1>4. store' = [store EXCEPT ![c] = [f \in Field |-> IF f \in FieldsOf[p] THEN @[f] - 1 ELSE @[f]]]
  BY DEF UnsubscribeEntityFields
<1>5. /\ \A d \in BrokerClient \ {c} : store'[d] = store[d]
      /\ \A f \in Field : store'[c][f] = IF f \in FieldsOf[p] THEN store[c][f] - 1 ELSE store[c][f]
  BY <1>1, <1>4 DEF FieldKinds
<1>. QED
  BY <1>1, <1>2, <1>3, <1>5 DEF UnsubscribeEntityFields, SendsRequest, Last, Leaves

(* Both leave other clients and other publications alone.                  *)
LEMMA OthersKeep ==
  ASSUME EntityFieldsAssumption, FieldKinds, NEW p \in Publication, PublishEntityFields(p) \/ UnsubscribeEntityFields(p)
  PROVE  /\ PublisherOf[p] \in BrokerClient /\ PublisherOf[p] \in living
         /\ \A d \in BrokerClient : d # PublisherOf[p] => store'[d] = store[d] /\ requests'[d] = requests[d]
         /\ PublisherOf[p] \notin connected => requests'[PublisherOf[p]] = requests[PublisherOf[p]]
         /\ \A q \in Publication : q # p => progress'[q] = progress[q] /\ asked'[q] = asked[q]
         /\ UNCHANGED <<fieldServerVars, living, known, loaded, resolved, overtaken, answers>>
<1>1. \/ requests' = requests
      \/ PublisherOf[p] \in connected /\ requests' = [requests EXCEPT ![PublisherOf[p]] = Append(@, Publishes(p))]
      \/ PublisherOf[p] \in connected /\ requests' = [requests EXCEPT ![PublisherOf[p]] = Append(@, Leaves(p))]
  BY PublishEffect, UnsubscribeEffect
<1>2. \A d \in BrokerClient \ {PublisherOf[p]} : store'[d] = store[d]
  BY PublishEffect, UnsubscribeEffect
<1>3. PublisherOf[p] \in BrokerClient /\ PublisherOf[p] \in living
  BY DEF PublishEntityFields, UnsubscribeEntityFields, EntityFieldsAssumption
<1>4. UNCHANGED <<fieldServerVars, living, known, loaded, resolved, overtaken, answers>>
  BY DEF PublishEntityFields, UnsubscribeEntityFields
<1>5. requests \in [BrokerClient -> Seq(AnyRequest)]
  BY DEF FieldKinds
<1>6. /\ \A d \in BrokerClient : d # PublisherOf[p] => requests'[d] = requests[d]
      /\ PublisherOf[p] \notin connected => requests'[PublisherOf[p]] = requests[PublisherOf[p]]
  BY <1>1, <1>3, <1>5
<1>7. /\ progress' = progress \/ \E x : progress' = [progress EXCEPT ![p] = x]
      /\ asked' = asked \/ \E x : asked' = [asked EXCEPT ![p] = x]
  BY DEF PublishEntityFields, UnsubscribeEntityFields
<1>8. \A q \in Publication : q # p => progress'[q] = progress[q] /\ asked'[q] = asked[q]
  BY <1>7 DEF FieldKinds
<1>. QED
  BY <1>2, <1>3, <1>4, <1>6, <1>8

(* A request is handled on the connection of its client.                   *)
LEMMA RequestIsMine ==
  ASSUME EntityFieldsAssumption, FieldKinds, NEW c \in BrokerClient, MineAt(c), HandleRequest(c)
  PROVE  PublisherOf[requests[c][1].of] = c
<1>1. requests[c] # <<>> /\ requests[c][1].type \in {"Publish", "Unsubscribe"}
  BY Messages DEF HandleRequest
<1>2. requests[c] \in Seq(OwnRequest(c))
  BY DEF MineAt
<1>3. requests[c][1] \in OwnRequest(c)
  BY <1>1, <1>2, Shifted
<1>. QED
  BY <1>1, <1>3 DEF OwnRequest

(* The dead have nothing, those not connected have sent nothing.           *)
LEMMA EndedStep ==
  ASSUME EntityFieldsAssumption, FieldKinds, NamedFields, FieldsNext,
         \A c \in BrokerClient : EndedAt(c) /\ MineAt(c), NEW d \in BrokerClient
  PROVE  EndedAt(d)'
<1>1. ASSUME NEW c \in BrokerClient, Connect(c) PROVE EndedAt(d)'
  BY <1>1 DEF EndedAt, Connect, fieldClientVars
<1>2. ASSUME NEW c \in BrokerClient, GetEntityFields(c) PROVE EndedAt(d)'
  BY <1>2 DEF EndedAt, GetEntityFields, SendsRequest, fieldServerVars, FieldKinds
<1>3. ASSUME NEW p \in Publication, PublishEntityFields(p) \/ UnsubscribeEntityFields(p) PROVE EndedAt(d)'
  BY <1>3, OthersKeep DEF EndedAt, fieldServerVars
<1>4. ASSUME NEW c \in BrokerClient, ClientDies(c) PROVE EndedAt(d)'
  BY <1>4 DEF EndedAt, ClientDies, fieldServerVars, FieldKinds
<1>5. ASSUME NEW c \in BrokerClient, CloseFields(c) PROVE EndedAt(d)'
  BY <1>5 DEF EndedAt, CloseFields, fieldClientVars, FieldKinds
<1>6. ASSUME NEW c \in BrokerClient, OnBroadcast(c) \/ OnReply(c) PROVE EndedAt(d)'
  <2>1. answers[c] # <<>>
    BY <1>6 DEF OnBroadcast, OnReply
  <2>2. c \in living /\ c \in connected
    BY <2>1 DEF EndedAt
  <2>3. d # c => answers'[d] = answers[d] /\ resolved'[d] = resolved[d] /\ requests'[d] = requests[d]
    BY <1>6 DEF OnBroadcast, OnReply, FieldKinds
  <2>4. UNCHANGED <<fieldServerVars, living, store, loaded, progress, asked>>
    BY <1>6 DEF OnBroadcast, OnReply
  <2>. QED
    BY <2>2, <2>3, <2>4 DEF EndedAt, fieldServerVars
<1>7. ASSUME NEW c \in BrokerClient, Continue(c) PROVE EndedAt(d)'
  <2>1. resolved[c] # <<>>
    BY <1>7 DEF Continue
  <2>2. c \in living /\ c \in connected
    BY <2>1 DEF EndedAt
  <2>3. d # c => resolved'[d] = resolved[d] /\ loaded'[d] = loaded[d]
    BY <1>7 DEF Continue, Settle, FieldKinds
  <2>4. UNCHANGED <<fieldServerVars, living, store, overtaken, requests, answers>>
    BY <1>7 DEF Continue
  <2>. QED
    BY <2>2, <2>3, <2>4 DEF EndedAt, fieldServerVars
<1>8. ASSUME NEW T, NEW type, NEW p, Sends(T, type, p), UNCHANGED <<connected, fieldClientVars>>,
             \A c \in BrokerClient : c \notin connected => requests'[c] = requests[c],
             T \cap (living \ connected) = {},
             \A q \in handling' : q \in handling \/ PublisherOf[q] \in connected
      PROVE EndedAt(d)'
  <2>1. ~ (d \in connected /\ d \in living) => answers'[d] = answers[d]
    BY <1>8, SentTo
  <2>. QED
    BY <1>8, <2>1 DEF EndedAt, fieldClientVars
<1>9. ASSUME NEW c \in BrokerClient, HandleRequest(c) PROVE EndedAt(d)'
  <2>. DEFINE r == requests[c][1]
  <2>1. /\ c \in connected /\ requests' = [requests EXCEPT ![c] = Tail(@)]
        /\ UNCHANGED <<connected, fieldClientVars>>
        /\ handling' = handling \cup {r.of} \/ handling' = handling
        /\ Sends(Others(c), "Broadcast", r.of) \/ Sends({c}, "Reply", r.of)
    BY <1>9, HandleRequestEffect
  <2>2. PublisherOf[r.of] = c
    BY <1>9, RequestIsMine
  <2>3. \A e \in BrokerClient : e \notin connected => requests'[e] = requests[e]
    BY <2>1 DEF FieldKinds
  <2>4. \A q \in handling' : q \in handling \/ PublisherOf[q] \in connected
    BY <2>1, <2>2
  <2>5. Others(c) \cap (living \ connected) = {} /\ {c} \cap (living \ connected) = {}
    BY <2>1 DEF Others
  <2>. HIDE DEF r
  <2>. QED
    BY <1>8, <2>1, <2>3, <2>4, <2>5
<1>10. ASSUME NEW c \in BrokerClient, HandleAll(c) PROVE EndedAt(d)'
  <2>1. /\ c \in connected /\ requests' = [requests EXCEPT ![c] = Tail(@)]
        /\ UNCHANGED <<connected, handling, fieldClientVars>>
        /\ Sends({c}, "Reply", NoPublication)
    BY <1>10, HandleAllEffect DEF fieldServerVars
  <2>3. \A e \in BrokerClient : e \notin connected => requests'[e] = requests[e]
    BY <2>1 DEF FieldKinds
  <2>. QED
    BY <1>8, <2>1, <2>3
<1>11. ASSUME NEW c \in BrokerClient, HandleAck(c) PROVE EndedAt(d)'
  BY <1>11 DEF EndedAt, HandleAck, Received, fieldClientVars, FieldKinds
<1>12. ASSUME NEW p \in Publication, Reply(p) PROVE EndedAt(d)'
  <2>1. /\ p \in handling /\ handling' = handling \ {p}
        /\ UNCHANGED <<connected, fieldClientVars, requests>>
        /\ Sends({PublisherOf[p]}, "Reply", p)
    BY <1>12, ReplyEffect
  <2>2. {PublisherOf[p]} \cap (living \ connected) = {}
    BY <2>1 DEF EndedAt, EntityFieldsAssumption
  <2>. QED
    BY <1>8, <2>1, <2>2
<1>. QED
  BY <1>1, <1>2, <1>3, <1>4, <1>5, <1>6, <1>7, <1>9, <1>10, <1>11, <1>12 DEF FieldsNext

(* The client counts its publications.                                     *)
LEMMA StoreStep ==
  ASSUME EntityFieldsAssumption, FieldKinds, FieldKinds', FieldsNext,
         \A c \in BrokerClient : EndedAt(c) /\ StoreAt(c) /\ MineAt(c), \A p \in Publication : RequestAt(p),
         NEW d \in BrokerClient
  PROVE  StoreAt(d)'
<1>. SUFFICES ASSUME NEW f \in Field, d \in living'
              PROVE  store'[d][f] = Cardinality(Holders(d, f)')
  BY DEF StoreAt
<1>1. d \in living => store[d][f] = Cardinality(Holders(d, f))
  BY DEF StoreAt
<1>2. IsFiniteSet(Holders(d, f)) /\ store[d][f] \in Nat
  BY HoldersAre DEF FieldKinds
<1>3. ASSUME living' \subseteq living, store'[d] = store[d], Holders(d, f)' = Holders(d, f)
      PROVE  store'[d][f] = Cardinality(Holders(d, f)')
  BY <1>1, <1>3
<1>4. ASSUME NEW c \in BrokerClient,
             Connect(c) \/ GetEntityFields(c) \/ CloseFields(c) \/ OnBroadcast(c) \/ OnReply(c)
               \/ HandleRequest(c) \/ HandleAll(c) \/ HandleAck(c)
      PROVE  store'[d][f] = Cardinality(Holders(d, f)')
  <2>1. UNCHANGED <<living, store, progress>>
    BY <1>4 DEF Connect, GetEntityFields, CloseFields, OnBroadcast, OnReply, HandleRequest, HandleAll, HandleAck, fieldClientVars
  <2>. QED
    BY <1>3, <2>1 DEF Holders
<1>5. ASSUME NEW p \in Publication, Reply(p) PROVE store'[d][f] = Cardinality(Holders(d, f)')
  <2>1. UNCHANGED <<living, store, progress>>
    BY <1>5 DEF Reply, fieldClientVars
  <2>. QED
    BY <1>3, <2>1 DEF Holders
<1>6. ASSUME NEW c \in BrokerClient, ClientDies(c) PROVE store'[d][f] = Cardinality(Holders(d, f)')
  <2>1. UNCHANGED progress /\ living' = living \ {c} /\ store' = [store EXCEPT ![c] = [g \in Field |-> 0]]
    BY <1>6 DEF ClientDies
  <2>2. store'[d] = store[d] /\ living' \subseteq living
    BY <2>1 DEF FieldKinds
  <2>. QED
    BY <1>3, <2>1, <2>2 DEF Holders
<1>7. ASSUME NEW p \in Publication, PublishEntityFields(p) PROVE store'[d][f] = Cardinality(Holders(d, f)')
  <2>1. living' = living /\ progress[p] = "new" /\ progress'[p] \in {"publishing", "active"}
    BY <1>7, PublishEffect DEF FieldKinds
  <2>2. \A q \in Publication : q # p => progress'[q] = progress[q]
    BY <1>7, OthersKeep
  <2>3. CASE d = PublisherOf[p] /\ f \in FieldsOf[p]
    <3>1. Holders(d, f)' = Holders(d, f) \cup {p} /\ p \notin Holders(d, f)
      BY <2>1, <2>2, <2>3 DEF Holders
    <3>2. store'[d][f] = store[d][f] + 1
      BY <1>7, <2>3, PublishEffect
    <3>. QED
      BY <1>1, <1>2, <2>1, <3>1, <3>2, FS_AddElement
  <2>4. CASE ~ (d = PublisherOf[p] /\ f \in FieldsOf[p])
    <3>1. Holders(d, f)' = Holders(d, f)
      BY <2>1, <2>2, <2>4 DEF Holders
    <3>2. store'[d][f] = store[d][f]
      BY <1>7, <2>4, PublishEffect
    <3>. QED
      BY <1>1, <2>1, <3>1, <3>2
  <2>. QED
    BY <2>3, <2>4
<1>8. ASSUME NEW p \in Publication, UnsubscribeEntityFields(p) PROVE store'[d][f] = Cardinality(Holders(d, f)')
  <2>1. living' = living /\ progress[p] = "active" /\ progress'[p] \in {"leaving", "done"}
    BY <1>8, UnsubscribeEffect DEF FieldKinds
  <2>2. \A q \in Publication : q # p => progress'[q] = progress[q]
    BY <1>8, OthersKeep
  <2>3. CASE d = PublisherOf[p] /\ f \in FieldsOf[p]
    <3>1. Holders(d, f)' = Holders(d, f) \ {p} /\ p \in Holders(d, f)
      BY <2>1, <2>2, <2>3 DEF Holders
    <3>2. store'[d][f] = store[d][f] - 1
      BY <1>8, <2>3, UnsubscribeEffect
    <3>. QED
      BY <1>1, <1>2, <2>1, <3>1, <3>2, FS_RemoveElement
  <2>4. CASE ~ (d = PublisherOf[p] /\ f \in FieldsOf[p])
    <3>1. Holders(d, f)' = Holders(d, f)
      BY <2>1, <2>2, <2>4 DEF Holders
    <3>2. store'[d][f] = store[d][f]
      BY <1>8, <2>4, UnsubscribeEffect
    <3>. QED
      BY <1>1, <2>1, <3>1, <3>2
  <2>. QED
    BY <2>3, <2>4
<1>9. ASSUME NEW c \in BrokerClient, Continue(c) PROVE store'[d][f] = Cardinality(Holders(d, f)')
  <2>. DEFINE q == resolved[c][1].of
  <2>1. UNCHANGED <<living, store>> /\ Settle(c, q) /\ resolved[c] # <<>> /\ 1 \in DOMAIN resolved[c]
    BY <1>9, Messages DEF Continue
  <2>2. CASE q = NoPublication
    BY <1>3, <2>1, <2>2 DEF Settle, Holders
  <2>3. CASE q # NoPublication
    <3>1. PublisherOf[q] = c /\ q \in Publication
      <4>1. resolved[c][1] \in OwnReply(c)
        BY <2>1, Shifted DEF MineAt
      <4>. QED
        BY <2>3, <4>1 DEF OwnReply, OwnAnswer, AnyAnswer, FieldAnswer, AllAnswer
    <3>2. Settled(q, 1)
      BY <2>1, <3>1 DEF Settled
    <3>3. progress[q] \in {"publishing", "leaving"}
      BY <3>1, <3>2 DEF RequestAt, UnderWay
    <3>4. progress' = [progress EXCEPT ![q] = IF @ = "publishing" THEN "active" ELSE "done"]
      BY <2>1, <2>3 DEF Settle
    <3>5. \A p \in Publication : progress'[p] \in {"publishing", "active"} <=> progress[p] \in {"publishing", "active"}
      BY <3>3, <3>4 DEF FieldKinds
    <3>6. Holders(d, f)' = Holders(d, f)
      BY <3>5 DEF Holders
    <3>. QED
      BY <1>3, <2>1, <3>6
  <2>. QED
    BY <2>2, <2>3
<1>. QED
  BY <1>4, <1>5, <1>6, <1>7, <1>8, <1>9 DEF FieldsNext

(* What is in the queues of a client is for this client.                   *)
LEMMA SentIsMine ==
  ASSUME FieldKinds, FieldKinds', NEW T, NEW type, NEW p, Sends(T, type, p), NEW d \in BrokerClient, MineAt(d),
         type = "Reply" /\ p # NoPublication => \A e \in T : PublisherOf[p] = e
  PROVE  answers'[d] \in Seq(OwnAnswer(d))
<1>1. answers[d] \in Seq(OwnAnswer(d))
  BY DEF MineAt
<1>2. CASE d \in T
  <2>1. Word(type, p) \in AnyAnswer
    BY FieldsEffect DEF Sends
  <2>2. Word(type, p) \in OwnAnswer(d)
    BY <1>2, <2>1 DEF OwnAnswer, Word
  <2>3. Append(answers[d], Word(type, p)) \in Seq(OwnAnswer(d))
    BY <1>1, <2>2
  <2>. QED
    BY <1>1, <2>3, SentTo
<1>. QED
  BY <1>1, <1>2, SentTo

(* Messages stay with their client.                                        *)
LEMMA MineStep ==
  ASSUME EntityFieldsAssumption, FieldKinds, FieldKinds', NamedFields, FieldsNext,
         \A c \in BrokerClient : MineAt(c), NEW d \in BrokerClient
  PROVE  MineAt(d)'
<1>1. requests[d] \in Seq(OwnRequest(d)) /\ answers[d] \in Seq(OwnAnswer(d)) /\ resolved[d] \in Seq(OwnReply(d))
  BY DEF MineAt
<1>2. /\ requests[d] # <<>> => Tail(requests[d]) \in Seq(OwnRequest(d))
      /\ answers[d] # <<>> => Tail(answers[d]) \in Seq(OwnAnswer(d)) /\ Head(answers[d]) \in OwnAnswer(d)
      /\ resolved[d] # <<>> => Tail(resolved[d]) \in Seq(OwnReply(d))
      /\ <<>> \in Seq(OwnRequest(d)) /\ <<>> \in Seq(OwnAnswer(d)) /\ <<>> \in Seq(OwnReply(d))
  BY <1>1
<1>3. SUFFICES requests'[d] \in Seq(OwnRequest(d)) /\ answers'[d] \in Seq(OwnAnswer(d)) /\ resolved'[d] \in Seq(OwnReply(d))
  BY DEF MineAt, OwnRequest, OwnAnswer, OwnReply
<1>. DEFINE Goal == requests'[d] \in Seq(OwnRequest(d)) /\ answers'[d] \in Seq(OwnAnswer(d)) /\ resolved'[d] \in Seq(OwnReply(d))
<1>4. ASSUME NEW c \in BrokerClient, Connect(c) \/ ClientDies(c) \/ CloseFields(c) PROVE Goal
  <2>1. requests'[d] \in {requests[d], <<>>} /\ answers'[d] \in {answers[d], <<>>} /\ resolved'[d] \in {resolved[d], <<>>}
    BY <1>4 DEF Connect, ClientDies, CloseFields, fieldClientVars, FieldKinds
  <2>. QED
    BY <1>1, <1>2, <2>1
<1>5. ASSUME NEW c \in BrokerClient, GetEntityFields(c) PROVE Goal
  <2>1. UNCHANGED <<answers, resolved>> /\ requests'[d] \in {requests[d], Append(requests[d], [type |-> "All"])}
    BY <1>5 DEF GetEntityFields, SendsRequest, FieldKinds
  <2>2. [type |-> "All"] \in OwnRequest(d)
    BY DEF OwnRequest, AnyRequest, All
  <2>3. Append(requests[d], [type |-> "All"]) \in Seq(OwnRequest(d))
    BY <1>1, <2>2
  <2>. QED
    BY <1>1, <2>1, <2>3
<1>6. ASSUME NEW p \in Publication, PublishEntityFields(p) \/ UnsubscribeEntityFields(p) PROVE Goal
  <2>1. UNCHANGED <<answers, resolved>>
    BY <1>6, OthersKeep
  <2>2. CASE d # PublisherOf[p]
    BY <1>1, <1>6, <2>1, <2>2, OthersKeep
  <2>3. CASE d = PublisherOf[p]
    <3>1. requests'[d] = requests[d] \/ \E m \in AnyRequest : m.of = p /\ requests'[d] = Append(requests[d], m)
      <4>1. \/ requests' = requests
            \/ Publishes(p) \in AnyRequest /\ requests' = [requests EXCEPT ![d] = Append(@, Publishes(p))]
            \/ Leaves(p) \in AnyRequest /\ requests' = [requests EXCEPT ![d] = Append(@, Leaves(p))]
        BY <1>6, <2>3, PublishEffect, UnsubscribeEffect
      <4>2. Publishes(p).of = p /\ Leaves(p).of = p
        BY DEF Publishes, Leaves
      <4>. QED
        BY <4>1, <4>2 DEF FieldKinds
    <3>2. ASSUME NEW m \in AnyRequest, m.of = p PROVE Append(requests[d], m) \in Seq(OwnRequest(d))
      <4>1. m \in OwnRequest(d)
        BY <2>3, <3>2 DEF OwnRequest
      <4>. QED
        BY <1>1, <4>1
    <3>. QED
      BY <1>1, <2>1, <3>1, <3>2
  <2>. QED
    BY <2>2, <2>3
<1>7. ASSUME NEW c \in BrokerClient, OnBroadcast(c) PROVE Goal
  <2>1. UNCHANGED resolved /\ answers'[d] \in {answers[d], Tail(answers[d])} /\ (answers'[d] # answers[d] => answers[d] # <<>>)
    BY <1>7 DEF OnBroadcast, FieldKinds
  <2>. DEFINE m == [type |-> "Ack", of |-> Head(answers[c]).of]
  <2>2. m.type = "Ack"
    OBVIOUS
  <2>3. requests' = [requests EXCEPT ![c] = Append(@, m)]
    BY <1>7 DEF OnBroadcast
  <2>4. m \in AnyRequest
    <3>1. answers[c] # <<>> /\ Head(answers[c]).type = "Broadcast" /\ Head(answers[c]) \in AnyAnswer
      BY <1>7, Messages DEF OnBroadcast
    <3>. QED
      BY <3>1 DEF AnyAnswer, FieldAnswer, AllAnswer, AnyRequest, Ack
  <2>. HIDE DEF m
  <2>5. m \in OwnRequest(d)
    BY <2>2, <2>4 DEF OwnRequest
  <2>6. Append(requests[d], m) \in Seq(OwnRequest(d))
    BY <1>1, <2>5
  <2>7. requests'[d] \in {requests[d], Append(requests[d], m)}
    BY <2>3 DEF FieldKinds
  <2>. QED
    BY <1>1, <1>2, <2>1, <2>6, <2>7
<1>8. ASSUME NEW c \in BrokerClient, OnReply(c) PROVE Goal
  <2>1. UNCHANGED requests /\ answers[c] # <<>> /\ Head(answers[c]).type = "Reply"
        /\ answers' = [answers EXCEPT ![c] = Tail(@)] /\ resolved' = [resolved EXCEPT ![c] = Append(@, Head(answers[c]))]
    BY <1>8 DEF OnReply
  <2>2. CASE d # c
    BY <1>1, <2>1, <2>2 DEF FieldKinds
  <2>3. CASE d = c
    <3>1. answers'[d] = Tail(answers[d]) /\ resolved'[d] = Append(resolved[d], Head(answers[d]))
      BY <2>1, <2>3 DEF FieldKinds
    <3>2. Head(answers[d]) \in OwnReply(d)
      BY <1>2, <2>1, <2>3 DEF OwnReply
    <3>3. Append(resolved[d], Head(answers[d])) \in Seq(OwnReply(d))
      BY <1>1, <3>2
    <3>. QED
      BY <1>1, <1>2, <2>1, <2>3, <3>1, <3>3
  <2>. QED
    BY <2>2, <2>3
<1>9. ASSUME NEW c \in BrokerClient, Continue(c) PROVE Goal
  <2>1. UNCHANGED <<requests, answers>> /\ resolved[c] # <<>> /\ resolved' = [resolved EXCEPT ![c] = Tail(@)]
    BY <1>9 DEF Continue
  <2>2. resolved'[d] = resolved[d] \/ (resolved[d] # <<>> /\ resolved'[d] = Tail(resolved[d]))
    BY <2>1 DEF FieldKinds
  <2>. QED
    BY <1>1, <1>2, <2>1, <2>2
<1>10. ASSUME NEW c \in BrokerClient, HandleRequest(c) \/ HandleAll(c) \/ HandleAck(c)
       PROVE  requests'[d] \in Seq(OwnRequest(d)) /\ UNCHANGED resolved
  <2>1. requests[c] # <<>> /\ requests' = [requests EXCEPT ![c] = Tail(@)] /\ UNCHANGED resolved
    BY <1>10 DEF HandleRequest, HandleAll, HandleAck, Received, fieldClientVars
  <2>2. requests'[d] = requests[d] \/ (requests[d] # <<>> /\ requests'[d] = Tail(requests[d]))
    BY <2>1 DEF FieldKinds
  <2>. QED
    BY <1>1, <1>2, <2>1, <2>2
<1>11. ASSUME NEW c \in BrokerClient, HandleRequest(c) PROVE Goal
  <2>1. Sends(Others(c), "Broadcast", requests[c][1].of) \/ Sends({c}, "Reply", requests[c][1].of)
    BY <1>11, HandleRequestEffect
  <2>2. PublisherOf[requests[c][1].of] = c
    BY <1>11, RequestIsMine
  <2>3. answers'[d] \in Seq(OwnAnswer(d))
    BY <2>1, <2>2, SentIsMine
  <2>. QED
    BY <1>1, <1>10, <1>11, <2>3
<1>12. ASSUME NEW c \in BrokerClient, HandleAll(c) PROVE Goal
  BY <1>1, <1>10, <1>12, HandleAllEffect, SentIsMine
<1>13. ASSUME NEW c \in BrokerClient, HandleAck(c) PROVE Goal
  BY <1>1, <1>10, <1>13 DEF HandleAck
<1>14. ASSUME NEW p \in Publication, Reply(p) PROVE Goal
  <2>1. Sends({PublisherOf[p]}, "Reply", p) /\ UNCHANGED <<requests, resolved>>
    BY <1>14, ReplyEffect DEF fieldClientVars
  <2>2. answers'[d] \in Seq(OwnAnswer(d))
    BY <2>1, SentIsMine
  <2>. QED
    BY <1>1, <2>1, <2>2
<1>. HIDE DEF Goal
<1>15. Goal
  BY <1>4, <1>5, <1>6, <1>7, <1>8, <1>9, <1>11, <1>12, <1>13, <1>14 DEF FieldsNext
<1>. QED
  BY <1>15 DEF Goal

------------------------------------------------------------------------------
(* The counting. Seen from one client and one field, what the client asks  *)
(* alternates, and only the handling of such a request changes whether the *)
(* server should count the client.                                         *)
AlternateAt(c, f) ==
  /\ Alternating(requests[c], f)
  /\ c \in living =>
       /\ LastAsks(requests[c], "Publish", f) => store[c][f] > 0
       /\ LastAsks(requests[c], "Unsubscribe", f) => store[c][f] = 0

(* What a step leaves as it is.                                            *)
Same(c, f) ==
  /\ AlternateAt(c, f)'
  /\ IsCounted(c, f)' <=> IsCounted(c, f)
  /\ MayCount(c, f)' <=> MayCount(c, f)

(* Nothing happens to the client.                                          *)
LEMMA SameQueue ==
  ASSUME NEW c \in BrokerClient, NEW f \in Field, AlternateAt(c, f),
         requests'[c] = requests[c], store'[c][f] = store[c][f], c \in living' <=> c \in living
  PROVE  Same(c, f)
BY DEF AlternateAt, Same, IsCounted, MayCount

(* The client sends something else.                                        *)
LEMMA SamePlus ==
  ASSUME FieldKinds, NEW c \in BrokerClient, NEW f \in Field, AlternateAt(c, f), NEW m \in AnyRequest,
         ~ (m.type \in {"Publish", "Unsubscribe"} /\ f \in m.fields),
         requests'[c] = Append(requests[c], m), (store'[c][f] > 0 <=> store[c][f] > 0), (store'[c][f] = 0 <=> store[c][f] = 0),
         c \in living' <=> c \in living
  PROVE  Same(c, f)
<1>1. requests[c] \in Seq(AnyRequest)
  BY DEF FieldKinds
<1>2. /\ Silent(requests'[c], f) <=> Silent(requests[c], f)
      /\ \A t : FirstAsks(requests'[c], t, f) <=> FirstAsks(requests[c], t, f)
      /\ \A t : LastAsks(requests'[c], t, f) => LastAsks(requests[c], t, f)
      /\ Alternating(requests[c], f) => Alternating(requests'[c], f)
  BY <1>1, AsksElse
<1>. QED
  BY <1>2 DEF AlternateAt, Same, IsCounted, MayCount

(* The server takes something else.                                        *)
LEMMA SameTail ==
  ASSUME FieldKinds, NEW c \in BrokerClient, NEW f \in Field, AlternateAt(c, f), requests[c] # <<>>,
         ~ Names(requests[c], 1, f),
         requests'[c] = Tail(requests[c]), store'[c][f] = store[c][f], c \in living' <=> c \in living
  PROVE  Same(c, f)
<1>1. requests[c] \in Seq(AnyRequest)
  BY DEF FieldKinds
<1>2. /\ Silent(requests'[c], f) <=> Silent(requests[c], f)
      /\ \A t : FirstAsks(requests'[c], t, f) <=> FirstAsks(requests[c], t, f)
      /\ \A t : LastAsks(requests'[c], t, f) => LastAsks(requests[c], t, f)
      /\ Alternating(requests[c], f) => Alternating(requests'[c], f)
  BY <1>1, TakesElse
<1>. QED
  BY <1>2 DEF AlternateAt, Same, IsCounted, MayCount

(* The client publishes: it asks exactly when it has not asked before.     *)
LEMMA PublishAsks ==
  ASSUME EntityFieldsAssumption, FieldKinds, NEW c \in BrokerClient, NEW f \in Field, AlternateAt(c, f),
         NEW p \in Publication, PublishEntityFields(p), c = PublisherOf[p]
  PROVE  Same(c, f)
<1>1. /\ c \in living /\ living' = living /\ store[c][f] \in Nat
      /\ store'[c][f] = IF f \in FieldsOf[p] THEN store[c][f] + 1 ELSE store[c][f]
      /\ f \in New(p) <=> f \in FieldsOf[p] /\ store[c][f] = 0
  BY PublishEffect DEF FieldKinds
<1>2. CASE New(p) = {}
  <2>1. f \notin New(p) /\ requests' = requests
    BY <1>2, PublishEffect
  <2>2. store'[c][f] > 0 <=> store[c][f] > 0
    BY <1>1, <2>1
  <2>3. store'[c][f] = 0 <=> store[c][f] = 0
    BY <1>1, <2>1
  <2>. QED
    BY <1>1, <2>1, <2>2, <2>3 DEF AlternateAt, Same, IsCounted, MayCount
<1>3. CASE New(p) # {}
  <2>1. Publishes(p) \in AnyRequest /\ requests' = [requests EXCEPT ![c] = Append(@, Publishes(p))]
    BY <1>3, PublishEffect
  <2>2. Publishes(p).type = "Publish" /\ Publishes(p).fields = New(p) /\ requests[c] \in Seq(AnyRequest)
        /\ requests'[c] = Append(requests[c], Publishes(p))
    BY <2>1 DEF Publishes, FieldKinds
  <2>3. CASE f \notin New(p)
    <3>1. store'[c][f] > 0 <=> store[c][f] > 0
      BY <1>1, <2>3
    <3>2. store'[c][f] = 0 <=> store[c][f] = 0
      BY <1>1, <2>3
    <3>. QED
      BY <1>1, <2>1, <2>2, <2>3, <3>1, <3>2, SamePlus
  <2>4. CASE f \in New(p)
    <3>1. store[c][f] = 0 /\ store'[c][f] > 0 /\ store'[c][f] # 0
      BY <1>1, <2>4
    <3>2. ~ LastAsks(requests[c], "Publish", f)
      BY <1>1, <3>1 DEF AlternateAt
    <3>3. /\ ~ Silent(requests'[c], f)
          /\ FirstAsks(requests'[c], "Unsubscribe", f) <=> FirstAsks(requests[c], "Unsubscribe", f)
          /\ ~ LastAsks(requests'[c], "Unsubscribe", f)
          /\ Alternating(requests[c], f) => Alternating(requests'[c], f)
      <4>1. /\ ~ Silent(requests'[c], f)
            /\ \A t : FirstAsks(requests'[c], t, f) <=> FirstAsks(requests[c], t, f) \/ (Silent(requests[c], f) /\ t = Publishes(p).type)
            /\ \A t : LastAsks(requests'[c], t, f) => t = Publishes(p).type
            /\ Alternating(requests[c], f) /\ ~ LastAsks(requests[c], Publishes(p).type, f) => Alternating(requests'[c], f)
        BY <2>1, <2>2, <2>4, AsksThis
      <4>. QED
        BY <2>2, <3>2, <4>1
    <3>. QED
      BY <1>1, <3>1, <3>3 DEF AlternateAt, Same, IsCounted, MayCount
  <2>. QED
    BY <2>3, <2>4
<1>. QED
  BY <1>2, <1>3

(* The client unsubscribes: it withdraws exactly when nobody is left.      *)
LEMMA UnsubscribeAsks ==
  ASSUME EntityFieldsAssumption, FieldKinds, FieldKinds', NEW c \in BrokerClient, NEW f \in Field, AlternateAt(c, f),
         NEW p \in Publication, UnsubscribeEntityFields(p), c = PublisherOf[p]
  PROVE  Same(c, f)
<1>1. /\ c \in living /\ living' = living /\ store[c][f] \in Nat /\ store'[c][f] \in Nat
      /\ store'[c][f] = IF f \in FieldsOf[p] THEN store[c][f] - 1 ELSE store[c][f]
      /\ f \in Last(p) <=> f \in FieldsOf[p] /\ store[c][f] = 1
  BY UnsubscribeEffect DEF FieldKinds, Last
<1>2. CASE Last(p) = {}
  <2>1. f \notin Last(p) /\ requests' = requests
    BY <1>2, UnsubscribeEffect
  <2>2. store'[c][f] > 0 <=> store[c][f] > 0
    BY <1>1, <2>1
  <2>3. store'[c][f] = 0 <=> store[c][f] = 0
    BY <1>1, <2>1
  <2>. QED
    BY <1>1, <2>1, <2>2, <2>3 DEF AlternateAt, Same, IsCounted, MayCount
<1>3. CASE Last(p) # {}
  <2>1. Leaves(p) \in AnyRequest /\ requests' = [requests EXCEPT ![c] = Append(@, Leaves(p))]
    BY <1>3, UnsubscribeEffect
  <2>2. Leaves(p).type = "Unsubscribe" /\ Leaves(p).fields = Last(p) /\ requests[c] \in Seq(AnyRequest)
        /\ requests'[c] = Append(requests[c], Leaves(p))
    BY <2>1 DEF Leaves, FieldKinds
  <2>3. CASE f \notin Last(p)
    <3>1. store'[c][f] > 0 <=> store[c][f] > 0
      BY <1>1, <2>3
    <3>2. store'[c][f] = 0 <=> store[c][f] = 0
      BY <1>1, <2>3
    <3>. QED
      BY <1>1, <2>1, <2>2, <2>3, <3>1, <3>2, SamePlus
  <2>4. CASE f \in Last(p)
    <3>1. store[c][f] > 0 /\ store[c][f] # 0 /\ store'[c][f] = 0
      BY <1>1, <2>4
    <3>2. ~ LastAsks(requests[c], "Unsubscribe", f)
      BY <1>1, <3>1 DEF AlternateAt
    <3>3. /\ ~ Silent(requests'[c], f)
          /\ FirstAsks(requests'[c], "Unsubscribe", f) <=> FirstAsks(requests[c], "Unsubscribe", f) \/ Silent(requests[c], f)
          /\ ~ LastAsks(requests'[c], "Publish", f)
          /\ Alternating(requests[c], f) => Alternating(requests'[c], f)
      <4>1. /\ ~ Silent(requests'[c], f)
            /\ \A t : FirstAsks(requests'[c], t, f) <=> FirstAsks(requests[c], t, f) \/ (Silent(requests[c], f) /\ t = Leaves(p).type)
            /\ \A t : LastAsks(requests'[c], t, f) => t = Leaves(p).type
            /\ Alternating(requests[c], f) /\ ~ LastAsks(requests[c], Leaves(p).type, f) => Alternating(requests'[c], f)
        BY <2>1, <2>2, <2>4, AsksThis
      <4>. QED
        BY <2>2, <3>2, <4>1
    <3>. QED
      BY <1>1, <3>1, <3>3 DEF AlternateAt, Same, IsCounted, MayCount
  <2>. QED
    BY <2>3, <2>4
<1>. QED
  BY <1>2, <1>3

(* Who is counted changes only when the server takes a request, or with a  *)
(* death.                                                                  *)
LEMMA AsksStep ==
  ASSUME EntityFieldsAssumption, FieldKinds, FieldKinds', FieldsNext, NEW c \in BrokerClient, NEW f \in Field, AlternateAt(c, f),
         ~ ClientDies(c), ~ CloseFields(c), ~ (HandleRequest(c) /\ Names(requests[c], 1, f))
  PROVE  Same(c, f)
<1>0. requests[c] \in Seq(AnyRequest)
  BY DEF FieldKinds
<1>1. ASSUME NEW d \in BrokerClient, ClientDies(d) \/ CloseFields(d) PROVE Same(c, f)
  <2>1. d # c
    BY <1>1
  <2>. QED
    BY <1>1, <2>1, SameQueue DEF ClientDies, CloseFields, fieldClientVars, FieldKinds
<1>2. ASSUME NEW d \in BrokerClient, Connect(d) \/ OnReply(d) \/ Continue(d) PROVE Same(c, f)
  BY <1>2, SameQueue DEF Connect, OnReply, Continue, fieldClientVars
<1>3. ASSUME NEW d \in BrokerClient, GetEntityFields(d) PROVE Same(c, f)
  <2>. DEFINE m == [type |-> "All"]
  <2>1. UNCHANGED <<living, store>> /\ requests' = [requests EXCEPT ![d] = Append(@, m)]
    BY <1>3 DEF GetEntityFields, SendsRequest
  <2>2. m \in AnyRequest /\ m.type = "All"
    BY DEF AnyRequest, All
  <2>. HIDE DEF m
  <2>3. CASE d = c
    BY <2>1, <2>2, <2>3, SamePlus DEF FieldKinds
  <2>4. CASE d # c
    BY <2>1, <2>4, SameQueue DEF FieldKinds
  <2>. QED
    BY <2>3, <2>4
<1>4. ASSUME NEW p \in Publication, PublishEntityFields(p) \/ UnsubscribeEntityFields(p) PROVE Same(c, f)
  <2>1. CASE c = PublisherOf[p]
    BY <1>4, <2>1, PublishAsks, UnsubscribeAsks
  <2>2. CASE c # PublisherOf[p]
    BY <1>4, <2>2, SameQueue, OthersKeep
  <2>. QED
    BY <2>1, <2>2
<1>5. ASSUME NEW d \in BrokerClient, OnBroadcast(d) PROVE Same(c, f)
  <2>. DEFINE m == [type |-> "Ack", of |-> Head(answers[d]).of]
  <2>1. UNCHANGED <<living, store>> /\ requests' = [requests EXCEPT ![d] = Append(@, m)]
    BY <1>5 DEF OnBroadcast
  <2>2. m.type = "Ack"
    OBVIOUS
  <2>3. m \in AnyRequest
    <3>1. answers[d] # <<>> /\ Head(answers[d]).type = "Broadcast" /\ Head(answers[d]) \in AnyAnswer
      BY <1>5, Messages DEF OnBroadcast
    <3>. QED
      BY <3>1 DEF AnyAnswer, FieldAnswer, AllAnswer, AnyRequest, Ack
  <2>. HIDE DEF m
  <2>4. CASE d = c
    BY <2>1, <2>2, <2>3, <2>4, SamePlus DEF FieldKinds
  <2>5. CASE d # c
    BY <2>1, <2>5, SameQueue DEF FieldKinds
  <2>. QED
    BY <2>4, <2>5
<1>6. ASSUME NEW d \in BrokerClient, HandleRequest(d) \/ HandleAll(d) \/ HandleAck(d) PROVE Same(c, f)
  <2>1. UNCHANGED <<living, store>> /\ requests[d] # <<>> /\ requests' = [requests EXCEPT ![d] = Tail(@)]
    BY <1>6 DEF HandleRequest, HandleAll, HandleAck, Received, fieldClientVars
  <2>2. CASE d # c
    BY <2>1, <2>2, SameQueue DEF FieldKinds
  <2>3. CASE d = c
    <3>1. ~ Names(requests[c], 1, f)
      <4>1. CASE HandleRequest(d)
        BY <2>3, <4>1
      <4>2. CASE HandleAll(d) \/ HandleAck(d)
        BY <2>3, <4>2, Messages DEF HandleAll, HandleAck, Names
      <4>. QED
        BY <1>6, <4>1, <4>2
    <3>2. requests'[c] = Tail(requests[c])
      BY <2>1, <2>3 DEF FieldKinds
    <3>. QED
      BY <2>1, <2>3, <3>1, <3>2, SameTail
  <2>. QED
    BY <2>2, <2>3
<1>7. ASSUME NEW p \in Publication, Reply(p) PROVE Same(c, f)
  BY <1>7, SameQueue DEF Reply, fieldClientVars
<1>. QED
  BY <1>1, <1>2, <1>3, <1>4, <1>5, <1>6, <1>7 DEF FieldsNext

(* The handler of a request that names the field.                          *)
LEMMA NamedStep ==
  ASSUME EntityFieldsAssumption, FieldKinds, FieldKinds', NamedFields, NEW c \in BrokerClient, NEW f \in Field, AlternateAt(c, f),
         EndedAt(c), HandleRequest(c), Names(requests[c], 1, f)
  PROVE  /\ AlternateAt(c, f)'
         /\ requests[c][1].type = "Publish" => ~ MayCount(c, f) /\ ~ IsCounted(c, f) /\ MayCount(c, f)'
         /\ requests[c][1].type = "Unsubscribe" => IsCounted(c, f) /\ ~ IsCounted(c, f)'
         /\ requests[c][1].type \in {"Publish", "Unsubscribe"} /\ f \in requests[c][1].fields
         /\ IsCounted(c, f)' => MayCount(c, f)'
         /\ requests[c][1].type = "Publish" /\ Silent(requests'[c], f) /\ c \in living => store[c][f] > 0
         /\ requests[c][1].type = "Unsubscribe" /\ Silent(requests'[c], f) => store[c][f] = 0
<1>1. requests[c] \in Seq(AnyRequest) /\ requests[c] # <<>> /\ requests' = [requests EXCEPT ![c] = Tail(@)]
      /\ UNCHANGED <<living, store>>
  BY DEF FieldKinds, HandleRequest, Received, fieldClientVars
<1>2. requests'[c] = Tail(requests[c]) /\ store[c][f] \in Nat
  BY <1>1 DEF FieldKinds
<1>3. /\ ~ Silent(requests[c], f) /\ FirstAsks(requests[c], requests[c][1].type, f)
      /\ Silent(requests'[c], f) => LastAsks(requests[c], requests[c][1].type, f)
      /\ \A t : LastAsks(requests'[c], t, f) => LastAsks(requests[c], t, f)
      /\ Alternating(requests'[c], f) /\ ~ FirstAsks(requests'[c], requests[c][1].type, f)
  BY <1>1, <1>2, TakesThis DEF AlternateAt
<1>4. requests[c][1].type \in {"Publish", "Unsubscribe"} /\ f \in requests[c][1].fields
  BY DEF Names
<1>5. AlternateAt(c, f)'
  BY <1>1, <1>3 DEF AlternateAt
<1>6. ASSUME requests[c][1].type = "Publish"
      PROVE  /\ ~ MayCount(c, f) /\ ~ IsCounted(c, f) /\ MayCount(c, f)'
             /\ Silent(requests'[c], f) /\ c \in living => store[c][f] > 0
  <2>1. ~ FirstAsks(requests[c], "Unsubscribe", f)
    BY <1>1, <1>3, <1>6, FirstIsOne
  <2>2. ~ Silent(requests'[c], f) => FirstAsks(requests'[c], "Unsubscribe", f)
    <3>1. requests'[c] \in Seq(AnyRequest)
      BY DEF FieldKinds
    <3>. QED
      BY <1>3, <1>6, <3>1, OneIsFirst
  <2>3. Silent(requests'[c], f) /\ c \in living => store[c][f] > 0
    BY <1>3, <1>6 DEF AlternateAt
  <2>. QED
    BY <1>1, <1>3, <2>1, <2>2, <2>3 DEF IsCounted, MayCount
<1>7. ASSUME requests[c][1].type = "Unsubscribe"
      PROVE  /\ IsCounted(c, f) /\ ~ IsCounted(c, f)'
             /\ Silent(requests'[c], f) => store[c][f] = 0
  <2>1. Silent(requests'[c], f) => store[c][f] = 0
    BY <1>3, <1>7 DEF AlternateAt, EndedAt
  <2>. QED
    BY <1>1, <1>2, <1>3, <1>7, <2>1 DEF IsCounted
<1>8. IsCounted(c, f)' => MayCount(c, f)'
  BY DEF MayCount
<1>. QED
  BY <1>4, <1>5, <1>6, <1>7, <1>8

(* Those who are counted and those who may be.                             *)
Counted(f) == {c \in BrokerClient : IsCounted(c, f)}
Countable(f) == {c \in BrokerClient : MayCount(c, f)}

(* The clients to be counted are finitely many.                            *)
LEMMA CountedFinite ==
  ASSUME EntityFieldsAssumption, NEW f
  PROVE  /\ IsFiniteSet(Counted(f)) /\ Cardinality(Counted(f)) \in Nat
         /\ IsFiniteSet(Countable(f)) /\ Cardinality(Countable(f)) \in Nat
         /\ IsFiniteSet(Counted(f)') /\ Cardinality(Counted(f)') \in Nat
         /\ IsFiniteSet(Countable(f)') /\ Cardinality(Countable(f)') \in Nat
<1>1. IsFiniteSet(BrokerClient) /\ Counted(f) \subseteq BrokerClient /\ Countable(f) \subseteq BrokerClient
      /\ Counted(f)' \subseteq BrokerClient /\ Countable(f)' \subseteq BrokerClient
  BY DEF Counted, Countable, EntityFieldsAssumption
<1>. QED
  BY <1>1, FS_Subset, FS_CardinalityType

(* A count that stays is right when no client enters and none leaves.      *)
LEMMA CountsWithin ==
  ASSUME EntityFieldsAssumption, NEW f \in Field, CountsAt(f), counts[f] \in Nat, counts'[f] = counts[f],
         \A c \in BrokerClient : (IsCounted(c, f)' => IsCounted(c, f)) /\ (MayCount(c, f) => MayCount(c, f)')
  PROVE  CountsAt(f)'
<1>1. Counted(f)' \subseteq Counted(f) /\ Countable(f) \subseteq Countable(f)'
  BY DEF Counted, Countable
<1>2. Cardinality(Counted(f)') <= Cardinality(Counted(f)) /\ Cardinality(Countable(f)) <= Cardinality(Countable(f)')
  BY <1>1, CountedFinite, FS_Subset
<1>3. Cardinality(Counted(f)) <= counts[f] /\ counts[f] <= Cardinality(Countable(f))
  BY DEF CountsAt, Counted, Countable
<1>4. Cardinality(Counted(f)') <= counts'[f] /\ counts'[f] <= Cardinality(Countable(f)')
  BY <1>2, <1>3, CountedFinite
<1>. QED
  BY <1>4 DEF CountsAt, Counted, Countable

(* The counts of the server stay between those who are and those who may be*)
(* counted.                                                                *)
LEMMA CountsStep ==
  ASSUME EntityFieldsAssumption, FieldKinds, FieldKinds', NamedFields, FieldsNext,
         \A c \in BrokerClient : EndedAt(c),
         NEW f \in Field, CountsAt(f), \A c \in BrokerClient : AlternateAt(c, f)
  PROVE  CountsAt(f)' /\ \A c \in BrokerClient : AlternateAt(c, f)'
<1>0. counts[f] \in Nat /\ counts'[f] \in Nat
  BY DEF FieldKinds
<1>1. CASE \E c \in BrokerClient : ClientDies(c) \/ CloseFields(c)
  <2>1. PICK c \in BrokerClient : ClientDies(c) \/ CloseFields(c)
    BY <1>1
  <2>2. counts' = counts
    BY <2>1 DEF ClientDies, CloseFields, fieldServerVars
  <2>3. \A d \in BrokerClient \ {c} : Same(d, f)
    <3>. SUFFICES ASSUME NEW d \in BrokerClient \ {c} PROVE Same(d, f)
      OBVIOUS
    <3>. QED
      BY <2>1, SameQueue DEF ClientDies, CloseFields, fieldClientVars, FieldKinds
  <2>4. CASE ClientDies(c)
    <3>1. c \notin living' /\ store'[c][f] = 0 /\ requests'[c] = requests[c] /\ c \in living
      BY <2>4 DEF ClientDies, FieldKinds
    <3>2. (IsCounted(c, f)' => IsCounted(c, f)) /\ (MayCount(c, f) => MayCount(c, f)') /\ AlternateAt(c, f)'
      BY <3>1 DEF IsCounted, MayCount, AlternateAt
    <3>. QED
      BY <1>0, <2>2, <2>3, <3>2, CountsWithin DEF Same
  <2>5. CASE CloseFields(c)
    <3>1. c \notin living' /\ store'[c][f] = 0 /\ requests'[c] = <<>>
      BY <2>5 DEF CloseFields, fieldClientVars, FieldKinds, EndedAt
    <3>2. Silent(<<>>, f) /\ ~ FirstAsks(<<>>, "Unsubscribe", f) /\ Alternating(<<>>, f)
      <4>1. DOMAIN <<>> = {}
        OBVIOUS
      <4>. QED
        BY <4>1 DEF Silent, FirstAsks, Alternating
    <3>3. ~ IsCounted(c, f)' /\ MayCount(c, f)' /\ AlternateAt(c, f)'
      BY <3>1, <3>2 DEF IsCounted, MayCount, AlternateAt
    <3>. QED
      BY <1>0, <2>2, <2>3, <3>3, CountsWithin DEF Same
  <2>. QED
    BY <2>1, <2>4, <2>5
<1>2. CASE \E c \in BrokerClient : HandleRequest(c) /\ Names(requests[c], 1, f)
  <2>1. PICK c \in BrokerClient : HandleRequest(c) /\ Names(requests[c], 1, f)
    BY <1>2
  <2>. DEFINE r == requests[c][1]
  <2>2. /\ AlternateAt(c, f)'
        /\ r.type = "Publish" => ~ MayCount(c, f) /\ ~ IsCounted(c, f) /\ MayCount(c, f)'
        /\ r.type = "Unsubscribe" => IsCounted(c, f) /\ ~ IsCounted(c, f)'
        /\ r.type \in {"Publish", "Unsubscribe"} /\ f \in r.fields
        /\ IsCounted(c, f)' => MayCount(c, f)'
    BY <2>1, NamedStep
  <2>3. counts' = IF r.type = "Publish" THEN CountUp(r.fields) ELSE Withdraw(r.fields)
    BY <2>1, HandleRequestEffect
  <2>4. \A d \in BrokerClient \ {c} : Same(d, f)
    <3>. SUFFICES ASSUME NEW d \in BrokerClient \ {c} PROVE Same(d, f)
      OBVIOUS
    <3>1. requests'[d] = requests[d] /\ UNCHANGED <<living, store>>
      BY <2>1 DEF HandleRequest, Received, fieldClientVars, FieldKinds
    <3>. QED
      BY <3>1, SameQueue
  <2>. HIDE DEF r
  <2>5. Cardinality(Counted(f)) <= counts[f] /\ counts[f] <= Cardinality(Countable(f))
    BY DEF CountsAt, Counted, Countable
  <2>6. CASE r.type = "Publish"
    <3>1. counts'[f] = counts[f] + 1
      BY <2>2, <2>3, <2>6 DEF CountUp
    <3>2. Countable(f)' = Countable(f) \cup {c} /\ c \notin Countable(f)
      BY <2>2, <2>4, <2>6 DEF Countable, Same
    <3>3. Cardinality(Countable(f)') = Cardinality(Countable(f)) + 1
      BY <3>2, CountedFinite, FS_AddElement
    <3>4. Counted(f)' \subseteq Counted(f) \cup {c} /\ c \notin Counted(f)
      BY <2>2, <2>4, <2>6 DEF Counted, Same
    <3>5. /\ IsFiniteSet(Counted(f) \cup {c})
          /\ Cardinality(Counted(f) \cup {c}) = Cardinality(Counted(f)) + 1
      BY <3>4, CountedFinite, FS_AddElement
    <3>6. Cardinality(Counted(f)') <= Cardinality(Counted(f)) + 1
      BY <3>4, <3>5, FS_Subset
    <3>7. Cardinality(Counted(f)') <= counts'[f] /\ counts'[f] <= Cardinality(Countable(f)')
      BY <1>0, <2>5, <3>1, <3>3, <3>6, CountedFinite
    <3>. QED
      BY <2>2, <2>4, <3>7 DEF CountsAt, Counted, Countable, Same
  <2>7. CASE r.type = "Unsubscribe"
    <3>1. Counted(f)' = Counted(f) \ {c} /\ c \in Counted(f)
      BY <2>2, <2>4, <2>7 DEF Counted, Same
    <3>2. Cardinality(Counted(f)') = Cardinality(Counted(f)) - 1
      BY <3>1, CountedFinite, FS_RemoveElement
    <3>3. counts[f] > 0
      BY <1>0, <2>5, <3>2, CountedFinite
    <3>4. counts'[f] = counts[f] - 1
      BY <2>2, <2>3, <2>7, <3>3 DEF Withdraw
    <3>5. Countable(f) \subseteq Countable(f)' \cup {c}
      BY <2>2, <2>4, <2>7 DEF Countable, Same
    <3>6. IsFiniteSet(Countable(f)' \cup {c}) /\ Cardinality(Countable(f)' \cup {c}) <= Cardinality(Countable(f)') + 1
      <4>1. c \in Countable(f)' => Countable(f)' \cup {c} = Countable(f)'
        OBVIOUS
      <4>. QED
        BY <4>1, CountedFinite, FS_AddElement
    <3>7. Cardinality(Countable(f)) <= Cardinality(Countable(f)') + 1
      <4>1. Cardinality(Countable(f)) <= Cardinality(Countable(f)' \cup {c}) /\ Cardinality(Countable(f)' \cup {c}) \in Nat
        BY <3>5, <3>6, FS_Subset, FS_CardinalityType
      <4>. QED
        BY <3>6, <4>1, CountedFinite
    <3>8. Cardinality(Counted(f)') <= counts'[f] /\ counts'[f] <= Cardinality(Countable(f)')
      BY <1>0, <2>5, <3>2, <3>4, <3>7, CountedFinite
    <3>. QED
      BY <2>2, <2>4, <3>8 DEF CountsAt, Counted, Countable, Same
  <2>. QED
    BY <2>2, <2>6, <2>7
<1>3. CASE ~ (\E c \in BrokerClient : ClientDies(c) \/ CloseFields(c)) /\ ~ (\E c \in BrokerClient : HandleRequest(c) /\ Names(requests[c], 1, f))
  <2>1. \A c \in BrokerClient : Same(c, f)
    BY <1>3, AsksStep
  <2>2. counts'[f] = counts[f]
    <3>1. ASSUME NEW c \in BrokerClient, HandleRequest(c) PROVE counts'[f] = counts[f]
      <4>. DEFINE r == requests[c][1]
      <4>1. counts' = IF r.type = "Publish" THEN CountUp(r.fields) ELSE Withdraw(r.fields)
        BY <3>1, HandleRequestEffect
      <4>2. f \notin r.fields
        <5>1. r.type \in {"Publish", "Unsubscribe"}
          BY <3>1, Messages DEF HandleRequest
        <5>. QED
          BY <1>3, <3>1, <5>1 DEF Names
      <4>. QED
        BY <4>1, <4>2 DEF CountUp, Withdraw
    <3>2. (\E c \in BrokerClient : HandleRequest(c)) \/ counts' = counts
      BY <1>3 DEF FieldsNext, Connect, GetEntityFields, OnBroadcast, OnReply, Continue, HandleAll, HandleAck,
           PublishEntityFields, UnsubscribeEntityFields, Reply, fieldServerVars
    <3>. QED
      BY <3>1, <3>2
  <2>. QED
    BY <1>0, <2>1, <2>2, CountsWithin DEF Same
<1>. QED
  BY <1>1, <1>2, <1>3

------------------------------------------------------------------------------
(* Where the request of a publication is. A queue keeps its messages of a  *)
(* publication when others come or go.                                     *)
Kept(q, r, N) ==
  \/ r = q \/ r = <<>> \/ (q # <<>> /\ r = Tail(q))
  \/ \E m : m \notin N /\ r = Append(q, m)

Shifts(q, r, N) ==
  \E a \in {0, 1} : \A i \in DOMAIN r : r[i] \in N => i \in Nat \ {0} /\ i + a \in DOMAIN q /\ r[i] = q[i + a]

RequestOf(p) == {m \in AnyRequest : m.type \in {"Publish", "Unsubscribe"} /\ m.of = p}
ReplyOf(p) == {m \in AnyAnswer : m.type = "Reply" /\ m.of = p}
AnswerOf(p) == {m \in AnyAnswer : m.of = p}

RequestsKept(p) == Kept(requests[PublisherOf[p]], requests'[PublisherOf[p]], RequestOf(p))
AnswersKept(p) == Kept(answers[PublisherOf[p]], answers'[PublisherOf[p]], ReplyOf(p))
ResolvedKept(p) == Kept(resolved[PublisherOf[p]], resolved'[PublisherOf[p]], AnswerOf(p))

(* Members of N only move to the front.                                    *)
LEMMA KeptShift ==
  ASSUME NEW S, NEW q \in Seq(S), NEW r \in Seq(S), NEW N, Kept(q, r, N)
  PROVE  Shifts(q, r, N)
<1>1. CASE r = q
  <2>1. \A i \in DOMAIN r : i \in Nat \ {0} /\ i + 0 = i
    BY <1>1
  <2>. QED
    BY <1>1, <2>1 DEF Shifts
<1>2. CASE r = <<>>
  <2>1. DOMAIN r = {}
    BY <1>2
  <2>. QED
    BY <2>1 DEF Shifts
<1>3. CASE q # <<>> /\ r = Tail(q)
  <2>1. \A i \in DOMAIN r : i \in Nat \ {0} /\ i + 1 \in DOMAIN q /\ r[i] = q[i + 1]
    BY <1>3, Shifted
  <2>. QED
    BY <2>1 DEF Shifts
<1>4. ASSUME NEW m, m \notin N, r = Append(q, m) PROVE Shifts(q, r, N)
  <2>. m \in S
    <3>1. Len(r) = Len(q) + 1 /\ r[Len(q) + 1] = m /\ Len(q) \in Nat
      BY <1>4
    <3>. QED
      BY <3>1
  <2>1. \A i \in DOMAIN r : r[i] \in N => i \in DOMAIN q /\ r[i] = q[i] /\ i \in Nat \ {0} /\ i + 0 = i
    BY <1>4, Appended
  <2>2. \A i \in DOMAIN r : r[i] \in N => i \in Nat \ {0} /\ i + 0 \in DOMAIN q /\ r[i] = q[i + 0]
    BY <2>1
  <2>. QED
    BY <2>2 DEF Shifts
<1>. QED
  BY <1>1, <1>2, <1>3, <1>4 DEF Kept

(* So does the request of a publication,                                   *)
LEMMA RequestsShift ==
  ASSUME EntityFieldsAssumption, FieldKinds, FieldKinds', NEW p \in Publication, RequestsKept(p)
  PROVE  \E a \in {0, 1} : \A i \in Nat : Requested(p, i)' => i # 0 /\ Requested(p, i + a)
                                               /\ requests'[PublisherOf[p]][i] = requests[PublisherOf[p]][i + a]
<1>. DEFINE d == PublisherOf[p]
<1>1. d \in BrokerClient /\ requests[d] \in Seq(AnyRequest) /\ requests'[d] \in Seq(AnyRequest)
  BY DEF EntityFieldsAssumption, FieldKinds
<1>2. PICK a \in {0, 1} : \A i \in DOMAIN requests'[d] :
        requests'[d][i] \in RequestOf(p) => i \in Nat \ {0} /\ i + a \in DOMAIN requests[d] /\ requests'[d][i] = requests[d][i + a]
  <2>1. Shifts(requests[d], requests'[d], RequestOf(p))
    BY <1>1, KeptShift DEF RequestsKept
  <2>. QED
    BY <2>1 DEF Shifts
<1>3. \A i \in DOMAIN requests'[d] : requests'[d][i] \in AnyRequest
  BY <1>1
<1>. QED
  BY <1>2, <1>3 DEF Requested, RequestOf

(* its answer,                                                             *)
LEMMA AnswersShift ==
  ASSUME EntityFieldsAssumption, FieldKinds, FieldKinds', NEW p \in Publication, AnswersKept(p)
  PROVE  \E a \in {0, 1} : \A i \in Nat : Replied(p, i)' => i # 0 /\ Replied(p, i + a)
<1>. DEFINE d == PublisherOf[p]
<1>1. d \in BrokerClient /\ answers[d] \in Seq(AnyAnswer) /\ answers'[d] \in Seq(AnyAnswer)
  BY DEF EntityFieldsAssumption, FieldKinds
<1>2. PICK a \in {0, 1} : \A i \in DOMAIN answers'[d] :
        answers'[d][i] \in ReplyOf(p) => i \in Nat \ {0} /\ i + a \in DOMAIN answers[d] /\ answers'[d][i] = answers[d][i + a]
  <2>1. Shifts(answers[d], answers'[d], ReplyOf(p))
    BY <1>1, KeptShift DEF AnswersKept
  <2>. QED
    BY <2>1 DEF Shifts
<1>3. \A i \in DOMAIN answers'[d] : answers'[d][i] \in AnyAnswer
  BY <1>1
<1>. QED
  BY <1>2, <1>3 DEF Replied, ReplyOf

(* and its continuation.                                                   *)
LEMMA ResolvedShift ==
  ASSUME EntityFieldsAssumption, FieldKinds, FieldKinds', NEW p \in Publication, ResolvedKept(p)
  PROVE  \E a \in {0, 1} : \A i \in Nat : Settled(p, i)' => i # 0 /\ Settled(p, i + a)
<1>. DEFINE d == PublisherOf[p]
<1>1. d \in BrokerClient /\ resolved[d] \in Seq(AnyAnswer) /\ resolved'[d] \in Seq(AnyAnswer)
  BY DEF EntityFieldsAssumption, FieldKinds
<1>2. PICK a \in {0, 1} : \A i \in DOMAIN resolved'[d] :
        resolved'[d][i] \in AnswerOf(p) => i \in Nat \ {0} /\ i + a \in DOMAIN resolved[d] /\ resolved'[d][i] = resolved[d][i + a]
  <2>1. Shifts(resolved[d], resolved'[d], AnswerOf(p))
    BY <1>1, KeptShift DEF ResolvedKept
  <2>. QED
    BY <2>1 DEF Shifts
<1>3. \A i \in DOMAIN resolved'[d] : resolved'[d][i] \in AnyAnswer
  BY <1>1
<1>. QED
  BY <1>2, <1>3 DEF Settled, AnswerOf

(* Where nothing happens to a publication, its request stays one.          *)
LEMMA RequestKept ==
  ASSUME EntityFieldsAssumption, FieldKinds, FieldKinds', NEW p \in Publication, RequestAt(p),
         RequestsKept(p), AnswersKept(p), ResolvedKept(p), p \in handling' => p \in handling,
         progress'[p] = progress[p], asked'[p] = asked[p]
  PROVE  RequestAt(p)'
<1>1. PICK a \in {0, 1} : \A i \in Nat : Requested(p, i)' =>
        Requested(p, i + a) /\ requests'[PublisherOf[p]][i] = requests[PublisherOf[p]][i + a]
  BY RequestsShift
<1>2. PICK b \in {0, 1} : \A i \in Nat : Replied(p, i)' => Replied(p, i + b)
  BY AnswersShift
<1>3. PICK e \in {0, 1} : \A i \in Nat : Settled(p, i)' => Settled(p, i + e)
  BY ResolvedShift
<1>4. \A i \in Nat : i + a \in Nat /\ i + b \in Nat /\ i + e \in Nat
  OBVIOUS
<1>5. \A i, j \in Nat : (i + a = j + a => i = j) /\ (i + b = j + b => i = j) /\ (i + e = j + e => i = j)
  OBVIOUS
<1>. HIDE DEF RequestsKept, AnswersKept, ResolvedKept, Requested, Replied, Settled
<1>6. Once(p)'
  BY <1>1, <1>2, <1>3, <1>4, <1>5 DEF RequestAt, Once
<1>7. UnderWay(p)' => UnderWay(p)
  BY <1>1, <1>2, <1>3, <1>4 DEF UnderWay
<1>8. \A i \in Nat : Requested(p, i)' => requests'[PublisherOf[p]][i].fields = asked'[p]
  BY <1>1, <1>4 DEF RequestAt
<1>. QED
  BY <1>6, <1>7, <1>8 DEF RequestAt

(* Positions of a tail,                                                    *)
LEMMA TailAt ==
  ASSUME NEW S, NEW q \in Seq(S), q # <<>>, NEW i \in DOMAIN Tail(q)
  PROVE  i \in Nat \ {0} /\ i + 1 \in Nat /\ i + 1 # 1 /\ i + 1 \in DOMAIN q /\ Tail(q)[i] = q[i + 1]
BY Shifted

(* and of a queue with one more.                                           *)
LEMMA AppendAt ==
  ASSUME NEW S, NEW q \in Seq(S), NEW m \in S, NEW i \in DOMAIN Append(q, m), i # Len(q) + 1
  PROVE  i \in DOMAIN q /\ Append(q, m)[i] = q[i]
BY Appended

(* Its own request is asked for, ...                                       *)
LEMMA RequestAsked ==
  ASSUME EntityFieldsAssumption, FieldKinds, FieldKinds', NEW p \in Publication, RequestAt(p),
         PublishEntityFields(p) \/ UnsubscribeEntityFields(p)
  PROVE  RequestAt(p)'
<1>. DEFINE d == PublisherOf[p]
<1>1. UNCHANGED <<handling, answers, resolved>> /\ progress[p] \in {"new", "active"} /\ d \in BrokerClient
  BY OthersKeep DEF fieldServerVars, PublishEntityFields, UnsubscribeEntityFields
<1>2. ~ UnderWay(p) /\ asked[p] = {}
  BY <1>1 DEF RequestAt
<1>3. p \notin handling' /\ \A i \in Nat : ~ Replied(p, i)' /\ ~ Settled(p, i)' /\ ~ Requested(p, i)
  BY <1>1, <1>2 DEF UnderWay, Replied, Settled
<1>4. \/ UNCHANGED <<asked, requests>> /\ progress'[p] \in {"active", "done"}
      \/ /\ progress'[p] \in {"publishing", "leaving"}
         /\ \E m \in AnyRequest : /\ m.fields = asked'[p] /\ m.type \in {"Publish", "Unsubscribe"} /\ m.of = p
                                  /\ requests'[d] = Append(requests[d], m)
  <2>1. Publishes(p).fields = New(p) /\ Publishes(p).type = "Publish" /\ Publishes(p).of = p
        /\ Leaves(p).fields = Last(p) /\ Leaves(p).type = "Unsubscribe" /\ Leaves(p).of = p
    BY DEF Publishes, Leaves
  <2>2. CASE PublishEntityFields(p)
    BY <1>1, <2>1, <2>2, PublishEffect DEF FieldKinds
  <2>3. CASE UnsubscribeEntityFields(p)
    BY <1>1, <2>1, <2>3, UnsubscribeEffect DEF FieldKinds
  <2>. QED
    BY <2>2, <2>3
<1>5. CASE UNCHANGED <<asked, requests>> /\ progress'[p] \in {"active", "done"}
  <2>1. \A i \in Nat : ~ Requested(p, i)'
    BY <1>3, <1>5 DEF Requested
  <2>2. ~ UnderWay(p)' /\ Once(p)'
    BY <1>3, <2>1 DEF UnderWay, Once
  <2>. QED
    BY <1>2, <1>5, <2>1, <2>2 DEF RequestAt
<1>6. ASSUME progress'[p] \in {"publishing", "leaving"}, NEW m \in AnyRequest, m.fields = asked'[p],
             requests'[d] = Append(requests[d], m)
      PROVE  RequestAt(p)'
  <2>. DEFINE n == Len(requests[d]) + 1
  <2>1. requests[d] \in Seq(AnyRequest)
    BY <1>1 DEF FieldKinds
  <2>2. n \in Nat /\ requests'[d][n] = m /\ DOMAIN requests'[d] = 1 .. n /\ DOMAIN requests[d] = 1 .. n - 1
        /\ \A i \in 1 .. n - 1 : requests'[d][i] = requests[d][i]
    BY <1>6, <2>1, Appended
  <2>. HIDE DEF n
  <2>3. \A i \in Nat : Requested(p, i)' => i = n
    <3>. SUFFICES ASSUME NEW i \in Nat, Requested(p, i)', i # n PROVE FALSE
      OBVIOUS
    <3>1. i \in 1 .. n - 1
      BY <2>2 DEF Requested
    <3>2. Requested(p, i)
      BY <2>2, <3>1 DEF Requested
    <3>. QED
      BY <1>3, <3>2
  <2>4. Once(p)'
    BY <1>3, <2>3 DEF Once
  <2>. QED
    BY <1>6, <2>2, <2>3, <2>4 DEF RequestAt
<1>. QED
  BY <1>4, <1>5, <1>6

(* ... handled, ...                                                        *)
LEMMA RequestHandled ==
  ASSUME EntityFieldsAssumption, FieldKinds, FieldKinds', NamedFields, NEW c \in BrokerClient, HandleRequest(c), MineAt(c),
         NEW p \in Publication, RequestAt(p), requests[c][1].of = p
  PROVE  RequestAt(p)' /\ asked[p] = requests[c][1].fields /\ PublisherOf[p] = c
         /\ \/ p \in handling'
            \/ c \in living /\ answers'[c] = Append(answers[c], Word("Reply", p)) /\ \E n \in Nat : n = Len(answers[c]) + 1 /\ Replied(p, n)'
            \/ c \notin living
<1>1. /\ PublisherOf[p] = c /\ requests[c] # <<>> /\ requests' = [requests EXCEPT ![c] = Tail(@)]
      /\ UNCHANGED fieldClientVars
      /\ \/ Sends(Others(c), "Broadcast", p) /\ handling' = handling \cup {p}
         \/ Sends({c}, "Reply", p) /\ handling' = handling
  BY RequestIsMine, HandleRequestEffect
<1>2. Requested(p, 1)
  BY <1>1, Messages DEF Requested, HandleRequest
<1>3. /\ p \notin handling /\ asked[p] = requests[c][1].fields /\ progress[p] \in {"publishing", "leaving"}
      /\ \A i \in Nat : ~ Replied(p, i) /\ ~ Settled(p, i) /\ (Requested(p, i) => i = 1)
  BY <1>1, <1>2 DEF RequestAt, Once, UnderWay
<1>4. \A i \in Nat : ~ Settled(p, i)'
  BY <1>1, <1>3 DEF Settled, fieldClientVars
<1>5. \A i \in Nat : ~ Requested(p, i)'
  <2>1. requests[c] \in Seq(AnyRequest) /\ requests'[c] = Tail(requests[c])
    BY <1>1 DEF FieldKinds
  <2>. SUFFICES ASSUME NEW i \in Nat, Requested(p, i)' PROVE FALSE
    OBVIOUS
  <2>2. i \in DOMAIN Tail(requests[c])
    BY <1>1, <2>1 DEF Requested
  <2>3. i + 1 \in Nat /\ i + 1 # 1 /\ i + 1 \in DOMAIN requests[c] /\ requests'[c][i] = requests[c][i + 1]
    BY <1>1, <2>1, <2>2, TailAt
  <2>4. Requested(p, i + 1)
    BY <1>1, <2>3 DEF Requested
  <2>. QED
    BY <1>3, <2>3, <2>4
<1>6. CASE Sends(Others(c), "Broadcast", p) /\ handling' = handling \cup {p}
  <2>1. answers'[c] = answers[c]
    BY <1>6, SentTo DEF Others
  <2>2. \A i \in Nat : ~ Replied(p, i)'
    BY <1>1, <1>3, <2>1 DEF Replied
  <2>3. Once(p)'
    BY <1>4, <1>5, <2>2 DEF Once
  <2>. QED
    BY <1>1, <1>3, <1>5, <1>6, <2>3 DEF RequestAt, fieldClientVars
<1>7. CASE Sends({c}, "Reply", p) /\ handling' = handling
  <2>1. answers[c] \in Seq(AnyAnswer) /\ answers'[c] \in {answers[c], Append(answers[c], Word("Reply", p))}
    BY <1>7, SentTo DEF FieldKinds
  <2>. PICK n \in Nat : n = Len(answers[c]) + 1
    BY <2>1
  <2>2. ASSUME NEW i \in Nat, Replied(p, i)' PROVE i = n
    <3>. SUFFICES ASSUME i # n PROVE Replied(p, i)
      BY <1>3
    <3>1. Word("Reply", p) \in AnyAnswer
      BY <1>7, FieldsEffect
    <3>2. i \in DOMAIN answers[c] /\ answers'[c][i] = answers[c][i]
      <4>1. i \in DOMAIN answers'[c]
        BY <1>1, <2>2 DEF Replied
      <4>. QED
        BY <2>1, <3>1, <4>1, AppendAt
    <3>. QED
      BY <1>1, <2>2, <3>2 DEF Replied
  <2>3. Once(p)'
    BY <1>3, <1>4, <1>5, <1>7, <2>2 DEF Once
  <2>4. RequestAt(p)'
    BY <1>1, <1>3, <1>5, <2>3 DEF RequestAt, fieldClientVars
  <2>5. CASE c \in living
    <3>1. answers'[c] = Append(answers[c], Word("Reply", p)) /\ Word("Reply", p) \in AnyAnswer
      BY <1>7, <2>5, SentTo, FieldsEffect
    <3>2. n \in DOMAIN answers'[c] /\ answers'[c][n] = Word("Reply", p)
      BY <2>1, <3>1, Appended
    <3>3. Replied(p, n)'
      BY <1>1, <3>2 DEF Replied, Word
    <3>. QED
      BY <1>1, <1>3, <2>4, <2>5, <3>1, <3>3
  <2>. QED
    BY <1>1, <1>3, <2>4, <2>5
<1>. QED
  BY <1>1, <1>6, <1>7

(* ... answered later, ...                                                 *)
LEMMA RequestAnswered ==
  ASSUME EntityFieldsAssumption, FieldKinds, FieldKinds', NEW p \in Publication, RequestAt(p), Reply(p)
  PROVE  RequestAt(p)'
         /\ \/ answers'[PublisherOf[p]] = Append(answers[PublisherOf[p]], Word("Reply", p))
               /\ \E n \in Nat : n = Len(answers[PublisherOf[p]]) + 1 /\ Replied(p, n)'
            \/ PublisherOf[p] \notin living
<1>. DEFINE c == PublisherOf[p]
<1>1. /\ c \in BrokerClient /\ p \in handling /\ handling' = handling \ {p} /\ UNCHANGED <<fieldClientVars, requests>>
      /\ Sends({c}, "Reply", p)
  BY ReplyEffect DEF EntityFieldsAssumption
<1>3. /\ progress[p] \in {"publishing", "leaving"}
      /\ \A i \in Nat : ~ Replied(p, i) /\ ~ Settled(p, i)' /\ ~ Requested(p, i)'
  BY <1>1 DEF RequestAt, Once, UnderWay, Settled, Requested, fieldClientVars
<1>4. answers[c] \in Seq(AnyAnswer) /\ answers'[c] \in {answers[c], Append(answers[c], Word("Reply", p))}
  BY <1>1, SentTo DEF FieldKinds
<1>. PICK n \in Nat : n = Len(answers[c]) + 1
  BY <1>4
<1>5. Word("Reply", p) \in AnyAnswer
  BY <1>1, FieldsEffect
<1>6. ASSUME NEW i \in Nat, Replied(p, i)' PROVE i = n
  <2>. SUFFICES ASSUME i # n PROVE Replied(p, i)
    BY <1>3
  <2>2. i \in DOMAIN answers[c] /\ answers'[c][i] = answers[c][i]
    <3>1. i \in DOMAIN answers'[c]
      BY <1>6 DEF Replied
    <3>. QED
      BY <1>4, <1>5, <3>1, AppendAt
  <2>. QED
    BY <1>6, <2>2 DEF Replied
<1>7. Once(p)'
  BY <1>1, <1>3, <1>6 DEF Once
<1>8. RequestAt(p)'
  BY <1>1, <1>3, <1>7 DEF RequestAt, fieldClientVars
<1>9. CASE c \in living
  <2>1. answers'[c] = Append(answers[c], Word("Reply", p))
    BY <1>1, <1>9, SentTo
  <2>2. n \in DOMAIN answers'[c] /\ answers'[c][n] = Word("Reply", p)
    BY <1>4, <1>5, <2>1, Appended
  <2>3. Replied(p, n)'
    BY <2>2 DEF Replied, Word
  <2>. QED
    BY <1>8, <2>1, <2>3
<1>. QED
  BY <1>8, <1>9

(* ... taken from the chunk, ...                                           *)
LEMMA RequestReceived ==
  ASSUME EntityFieldsAssumption, FieldKinds, FieldKinds', NEW c \in BrokerClient, OnReply(c), MineAt(c),
         NEW p \in Publication, RequestAt(p), answers[c][1].of = p
  PROVE  RequestAt(p)' /\ PublisherOf[p] = c /\ Replied(p, 1) /\ \E n \in Nat : n = Len(resolved[c]) + 1 /\ Settled(p, n)'
<1>1. /\ answers[c] # <<>> /\ answers[c][1].type = "Reply" /\ 1 \in DOMAIN answers[c]
      /\ answers' = [answers EXCEPT ![c] = Tail(@)] /\ resolved' = [resolved EXCEPT ![c] = Append(@, answers[c][1])]
      /\ UNCHANGED <<handling, requests, progress, asked>>
  BY Messages DEF OnReply, fieldServerVars
<1>2. PublisherOf[p] = c
  <2>1. answers[c][1] \in OwnAnswer(c)
    BY <1>1, Shifted DEF MineAt
  <2>. QED
    BY <1>1, <2>1 DEF OwnAnswer, EntityFieldsAssumption
<1>3. Replied(p, 1)
  BY <1>1, <1>2 DEF Replied
<1>4. /\ p \notin handling' /\ progress[p] \in {"publishing", "leaving"}
      /\ \A i \in Nat : ~ Settled(p, i) /\ ~ Requested(p, i)' /\ (Replied(p, i) => i = 1)
  BY <1>1, <1>3 DEF RequestAt, Once, UnderWay, Requested
<1>. DEFINE m == answers[c][1]
<1>5. /\ answers[c] \in Seq(AnyAnswer) /\ resolved[c] \in Seq(AnyAnswer) /\ m \in AnyAnswer
      /\ answers'[c] = Tail(answers[c]) /\ resolved'[c] = Append(resolved[c], m)
  BY <1>1, Messages DEF FieldKinds
<1>. PICK n \in Nat : n = Len(resolved[c]) + 1
  BY <1>5
<1>6. ASSUME NEW i \in Nat, Replied(p, i)' PROVE FALSE
  <2>1. i \in DOMAIN Tail(answers[c])
    BY <1>2, <1>5, <1>6 DEF Replied
  <2>2. i + 1 \in Nat /\ i + 1 # 1 /\ i + 1 \in DOMAIN answers[c] /\ answers'[c][i] = answers[c][i + 1]
    BY <1>1, <1>5, <2>1, TailAt
  <2>3. Replied(p, i + 1)
    BY <1>2, <1>6, <2>2 DEF Replied
  <2>. QED
    BY <1>4, <2>2, <2>3
<1>7. ASSUME NEW i \in Nat, Settled(p, i)' PROVE i = n
  <2>. SUFFICES ASSUME i # n PROVE Settled(p, i)
    BY <1>4
  <2>2. i \in DOMAIN resolved[c] /\ resolved'[c][i] = resolved[c][i]
    <3>1. i \in DOMAIN resolved'[c]
      BY <1>2, <1>7 DEF Settled
    <3>. QED
      BY <1>5, <3>1, AppendAt
  <2>. QED
    BY <1>2, <1>7, <2>2 DEF Settled
<1>8. Once(p)'
  BY <1>4, <1>6, <1>7 DEF Once
<1>9. n \in DOMAIN resolved'[c] /\ resolved'[c][n] = m
  BY <1>5, Appended
<1>10. Settled(p, n)'
  BY <1>2, <1>9 DEF Settled
<1>. QED
  BY <1>1, <1>2, <1>3, <1>4, <1>8, <1>10 DEF RequestAt

(* ... and settled.                                                        *)
LEMMA RequestSettled ==
  ASSUME EntityFieldsAssumption, FieldKinds, FieldKinds', NEW c \in BrokerClient, Continue(c), MineAt(c),
         NEW p \in Publication, RequestAt(p), resolved[c][1].of = p
  PROVE  RequestAt(p)' /\ PublisherOf[p] = c /\ Settled(p, 1)
<1>1. /\ resolved[c] # <<>> /\ 1 \in DOMAIN resolved[c] /\ resolved' = [resolved EXCEPT ![c] = Tail(@)]
      /\ UNCHANGED <<handling, requests, answers>> /\ Settle(c, p)
  BY Messages DEF Continue, fieldServerVars
<1>2. PublisherOf[p] = c /\ p # NoPublication
  <2>1. resolved[c][1] \in OwnReply(c)
    BY <1>1, Shifted DEF MineAt
  <2>. QED
    BY <1>1, <2>1 DEF OwnReply, OwnAnswer, EntityFieldsAssumption
<1>3. Settled(p, 1)
  BY <1>1, <1>2 DEF Settled
<1>4. /\ p \notin handling'
      /\ \A i \in Nat : ~ Replied(p, i)' /\ ~ Requested(p, i)' /\ (Settled(p, i) => i = 1)
  BY <1>1, <1>3 DEF RequestAt, Once, Requested, Replied
<1>5. resolved[c] \in Seq(AnyAnswer) /\ resolved'[c] = Tail(resolved[c])
  BY <1>1 DEF FieldKinds
<1>6. ASSUME NEW i \in Nat, Settled(p, i)' PROVE FALSE
  <2>1. i \in DOMAIN Tail(resolved[c])
    BY <1>2, <1>5, <1>6 DEF Settled
  <2>2. i + 1 \in Nat /\ i + 1 # 1 /\ i + 1 \in DOMAIN resolved[c] /\ resolved'[c][i] = resolved[c][i + 1]
    BY <1>1, <1>5, <2>1, TailAt
  <2>3. Settled(p, i + 1)
    BY <1>2, <1>6, <2>2 DEF Settled
  <2>. QED
    BY <1>4, <2>2, <2>3
<1>7. Once(p)' /\ ~ UnderWay(p)'
  BY <1>4, <1>6 DEF Once, UnderWay
<1>8. asked'[p] = {}
  BY <1>1, <1>2 DEF Settle, FieldKinds
<1>. QED
  BY <1>2, <1>3, <1>4, <1>7, <1>8 DEF RequestAt

(* Answers to other publications leave this one alone.                     *)
LEMMA SentKept ==
  ASSUME EntityFieldsAssumption, FieldKinds, FieldKinds', NEW T, NEW type, NEW q, Sends(T, type, q),
         NEW p \in Publication, type = "Broadcast" \/ q # p
  PROVE  AnswersKept(p)
<1>1. PublisherOf[p] \in BrokerClient
  BY DEF EntityFieldsAssumption
<1>2. Word(type, q) \notin ReplyOf(p)
  BY DEF ReplyOf, Word
<1>3. \/ answers'[PublisherOf[p]] = answers[PublisherOf[p]]
      \/ answers'[PublisherOf[p]] = Append(answers[PublisherOf[p]], Word(type, q))
  BY <1>1, SentTo
<1>. QED
  BY <1>2, <1>3 DEF AnswersKept, Kept

(* A publication has one request under way, in one place.                  *)
LEMMA RequestStep ==
  ASSUME EntityFieldsAssumption, FieldKinds, FieldKinds', NamedFields, FieldsNext,
         \A c \in BrokerClient : MineAt(c), NEW p \in Publication, RequestAt(p)
  PROVE  RequestAt(p)'
<1>. DEFINE d == PublisherOf[p]
<1>0. d \in BrokerClient
  BY DEF EntityFieldsAssumption
<1>1. /\ requests'[d] = requests[d] => RequestsKept(p)
      /\ answers'[d] = answers[d] => AnswersKept(p)
      /\ resolved'[d] = resolved[d] => ResolvedKept(p)
  BY DEF RequestsKept, AnswersKept, ResolvedKept, Kept
<1>2. ASSUME NEW c \in BrokerClient, Connect(c) PROVE RequestAt(p)'
  <2>1. UNCHANGED <<handling, progress, asked, resolved, requests, answers>>
    BY <1>2 DEF Connect, fieldClientVars
  <2>. QED
    BY <1>1, <2>1, RequestKept
<1>3. ASSUME NEW c \in BrokerClient, ClientDies(c) \/ CloseFields(c) PROVE RequestAt(p)'
  <2>1. UNCHANGED <<handling, progress, asked>>
    BY <1>3 DEF ClientDies, CloseFields, fieldServerVars, fieldClientVars
  <2>2. /\ requests'[d] = requests[d] \/ requests'[d] = <<>>
        /\ answers'[d] = answers[d] \/ answers'[d] = <<>>
        /\ resolved'[d] = resolved[d] \/ resolved'[d] = <<>>
    <3>1. DOMAIN requests = BrokerClient /\ DOMAIN answers = BrokerClient /\ DOMAIN resolved = BrokerClient
      BY DEF FieldKinds
    <3>2. CASE ClientDies(c)
      BY <1>0, <3>1, <3>2 DEF ClientDies
    <3>3. CASE CloseFields(c)
      BY <1>0, <3>1, <3>3 DEF CloseFields, fieldClientVars
    <3>. QED
      BY <1>3, <3>2, <3>3
  <2>3. RequestsKept(p) /\ AnswersKept(p) /\ ResolvedKept(p)
    BY <2>2 DEF RequestsKept, AnswersKept, ResolvedKept, Kept
  <2>. QED
    BY <2>1, <2>3, RequestKept
<1>4. ASSUME NEW c \in BrokerClient, GetEntityFields(c) PROVE RequestAt(p)'
  <2>. DEFINE m == [type |-> "All"]
  <2>1. UNCHANGED <<handling, progress, asked, resolved, answers>> /\ requests' = [requests EXCEPT ![c] = Append(@, m)]
    BY <1>4 DEF GetEntityFields, SendsRequest, fieldServerVars
  <2>2. m \notin RequestOf(p)
    BY DEF RequestOf
  <2>. HIDE DEF m
  <2>3. requests'[d] = requests[d] \/ requests'[d] = Append(requests[d], m)
    BY <1>0, <2>1 DEF FieldKinds
  <2>4. RequestsKept(p)
    BY <2>2, <2>3 DEF RequestsKept, Kept
  <2>. QED
    BY <1>1, <2>1, <2>4, RequestKept
<1>5. ASSUME NEW q \in Publication, PublishEntityFields(q) \/ UnsubscribeEntityFields(q) PROVE RequestAt(p)'
  <2>1. CASE q = p
    BY <1>5, <2>1, RequestAsked
  <2>2. CASE q # p
    <3>1. UNCHANGED <<handling, resolved, answers>> /\ progress'[p] = progress[p] /\ asked'[p] = asked[p]
      BY <1>5, <2>2, OthersKeep DEF fieldServerVars
    <3>2. \/ requests' = requests
          \/ requests' = [requests EXCEPT ![PublisherOf[q]] = Append(@, Publishes(q))]
          \/ requests' = [requests EXCEPT ![PublisherOf[q]] = Append(@, Leaves(q))]
      BY <1>5, PublishEffect, UnsubscribeEffect
    <3>3. requests'[d] = requests[d] \/ requests'[d] = Append(requests[d], Publishes(q)) \/ requests'[d] = Append(requests[d], Leaves(q))
      <4>1. requests \in [BrokerClient -> Seq(AnyRequest)]
        BY DEF FieldKinds
      <4>2. ASSUME NEW m, requests' = [requests EXCEPT ![PublisherOf[q]] = Append(@, m)]
            PROVE  requests'[d] = requests[d] \/ requests'[d] = Append(requests[d], m)
        BY <1>0, <4>1, <4>2
      <4>. QED
        BY <3>2, <4>2
    <3>4. Publishes(q) \notin RequestOf(p) /\ Leaves(q) \notin RequestOf(p)
      BY <2>2 DEF RequestOf, Publishes, Leaves
    <3>5. RequestsKept(p)
      BY <3>3, <3>4 DEF RequestsKept, Kept
    <3>. QED
      BY <1>1, <3>1, <3>5, RequestKept
  <2>. QED
    BY <2>1, <2>2
<1>6. ASSUME NEW c \in BrokerClient, OnBroadcast(c) PROVE RequestAt(p)'
  <2>. DEFINE m == [type |-> "Ack", of |-> Head(answers[c]).of]
  <2>1. UNCHANGED <<handling, progress, asked, resolved>> /\ requests' = [requests EXCEPT ![c] = Append(@, m)]
        /\ answers[c] # <<>> /\ answers' = [answers EXCEPT ![c] = Tail(@)]
    BY <1>6 DEF OnBroadcast, fieldServerVars
  <2>2. m \notin RequestOf(p)
    BY DEF RequestOf
  <2>. HIDE DEF m
  <2>3. requests'[d] = requests[d] \/ requests'[d] = Append(requests[d], m)
    BY <1>0, <2>1 DEF FieldKinds
  <2>4. answers'[d] = answers[d] \/ (answers[d] # <<>> /\ answers'[d] = Tail(answers[d]))
    BY <1>0, <2>1 DEF FieldKinds
  <2>5. RequestsKept(p) /\ AnswersKept(p)
    BY <2>2, <2>3, <2>4 DEF RequestsKept, AnswersKept, Kept
  <2>. QED
    BY <1>1, <2>1, <2>5, RequestKept
<1>7. ASSUME NEW c \in BrokerClient, OnReply(c) PROVE RequestAt(p)'
  <2>1. CASE answers[c][1].of = p
    BY <1>7, <2>1, RequestReceived
  <2>2. CASE answers[c][1].of # p
    <3>. DEFINE m == answers[c][1]
    <3>1. UNCHANGED <<handling, progress, asked, requests>> /\ resolved' = [resolved EXCEPT ![c] = Append(@, m)]
          /\ answers[c] # <<>> /\ answers' = [answers EXCEPT ![c] = Tail(@)]
      BY <1>7, Messages DEF OnReply, fieldServerVars
    <3>2. m \notin AnswerOf(p)
      BY <2>2 DEF AnswerOf
    <3>. HIDE DEF m
    <3>3. resolved'[d] = resolved[d] \/ resolved'[d] = Append(resolved[d], m)
      BY <1>0, <3>1 DEF FieldKinds
    <3>4. answers'[d] = answers[d] \/ (answers[d] # <<>> /\ answers'[d] = Tail(answers[d]))
      BY <1>0, <3>1 DEF FieldKinds
    <3>5. ResolvedKept(p) /\ AnswersKept(p)
      BY <3>2, <3>3, <3>4 DEF ResolvedKept, AnswersKept, Kept
    <3>. QED
      BY <1>1, <3>1, <3>5, RequestKept
  <2>. QED
    BY <2>1, <2>2
<1>8. ASSUME NEW c \in BrokerClient, Continue(c) PROVE RequestAt(p)'
  <2>1. CASE resolved[c][1].of = p
    BY <1>8, <2>1, RequestSettled
  <2>2. CASE resolved[c][1].of # p
    <3>1. UNCHANGED <<handling, requests, answers>> /\ resolved[c] # <<>> /\ resolved' = [resolved EXCEPT ![c] = Tail(@)]
          /\ Settle(c, resolved[c][1].of)
      BY <1>8, Messages DEF Continue, fieldServerVars
    <3>2. progress'[p] = progress[p] /\ asked'[p] = asked[p]
      BY <2>2, <3>1 DEF Settle, FieldKinds
    <3>3. resolved'[d] = resolved[d] \/ (resolved[d] # <<>> /\ resolved'[d] = Tail(resolved[d]))
      BY <1>0, <3>1 DEF FieldKinds
    <3>4. ResolvedKept(p)
      BY <3>3 DEF ResolvedKept, Kept
    <3>. QED
      BY <1>1, <3>1, <3>2, <3>4, RequestKept
  <2>. QED
    BY <2>1, <2>2
<1>9. ASSUME NEW c \in BrokerClient, HandleRequest(c) \/ HandleAll(c) \/ HandleAck(c)
      PROVE RequestsKept(p) /\ ResolvedKept(p) /\ progress'[p] = progress[p] /\ asked'[p] = asked[p]
  <2>1. UNCHANGED <<progress, asked, resolved>> /\ requests[c] # <<>> /\ requests' = [requests EXCEPT ![c] = Tail(@)]
    BY <1>9 DEF HandleRequest, HandleAll, HandleAck, Received, fieldClientVars
  <2>2. requests'[d] = requests[d] \/ (requests[d] # <<>> /\ requests'[d] = Tail(requests[d]))
    BY <1>0, <2>1 DEF FieldKinds
  <2>3. RequestsKept(p)
    BY <2>2 DEF RequestsKept, Kept
  <2>. QED
    BY <1>1, <2>1, <2>3
<1>10. ASSUME NEW c \in BrokerClient, HandleRequest(c) PROVE RequestAt(p)'
  <2>1. CASE requests[c][1].of = p
    BY <1>10, <2>1, RequestHandled
  <2>2. CASE requests[c][1].of # p
    <3>1. /\ Sends(Others(c), "Broadcast", requests[c][1].of) \/ Sends({c}, "Reply", requests[c][1].of)
          /\ handling' = handling \cup {requests[c][1].of} \/ handling' = handling
      BY <1>10, HandleRequestEffect
    <3>2. AnswersKept(p)
      BY <2>2, <3>1, SentKept
    <3>. QED
      BY <1>9, <1>10, <2>2, <3>1, <3>2, RequestKept
  <2>. QED
    BY <2>1, <2>2
<1>11. ASSUME NEW c \in BrokerClient, HandleAll(c) PROVE RequestAt(p)'
  <2>1. Sends({c}, "Reply", NoPublication) /\ UNCHANGED handling
    BY <1>11, HandleAllEffect DEF fieldServerVars
  <2>2. AnswersKept(p)
    BY <2>1, SentKept DEF EntityFieldsAssumption
  <2>. QED
    BY <1>9, <1>11, <2>1, <2>2, RequestKept
<1>12. ASSUME NEW c \in BrokerClient, HandleAck(c) PROVE RequestAt(p)'
  BY <1>1, <1>9, <1>12, RequestKept DEF HandleAck
<1>13. ASSUME NEW q \in Publication, Reply(q) PROVE RequestAt(p)'
  <2>1. CASE q = p
    BY <1>13, <2>1, RequestAnswered
  <2>2. CASE q # p
    <3>1. /\ Sends({PublisherOf[q]}, "Reply", q) /\ handling' = handling \ {q}
          /\ UNCHANGED <<progress, asked, resolved, requests>>
      BY <1>13, ReplyEffect DEF fieldClientVars
    <3>2. AnswersKept(p)
      BY <2>2, <3>1, SentKept
    <3>. QED
      BY <1>1, <3>1, <3>2, RequestKept
  <2>. QED
    BY <2>1, <2>2
<1>. QED
  BY <1>2, <1>3, <1>4, <1>5, <1>6, <1>7, <1>8, <1>10, <1>11, <1>12, <1>13 DEF FieldsNext

------------------------------------------------------------------------------
(* What the server sends, whatever it handles.                             *)
ServerSends(T, type, q) ==
  /\ Sends(T, type, q) /\ UNCHANGED <<connected, fieldClientVars>>
  /\ named => named'
  /\ type = "Broadcast" => named'
  /\ T \cap (living \ connected) = {}
  /\ \A p \in handling : p \in handling' \/ PublisherOf[p] \in T
  /\ EntityFields' = EntityFields \/ \A d \in connected : d \in T \/ \E p \in handling' : PublisherOf[p] = d

(* Every step of the server's end is a sending.                            *)
LEMMA ServerStep ==
  ASSUME EntityFieldsAssumption, FieldKinds, FieldKinds', NamedFields, \A c \in BrokerClient : MineAt(c) /\ EndedAt(c)
  PROVE  /\ \A c \in BrokerClient : HandleRequest(c) \/ HandleAll(c) \/ HandleAck(c) =>
              NamedFields' /\ \E T, type, q : ServerSends(T, type, q)
         /\ \A p \in Publication : Reply(p) => NamedFields' /\ \E T, type, q : ServerSends(T, type, q)
<1>1. ASSUME NEW c \in BrokerClient, HandleRequest(c) PROVE NamedFields' /\ \E T, type, q : ServerSends(T, type, q)
  <2>. DEFINE r == requests[c][1]
  <2>1. /\ c \in connected /\ NamedFields' /\ (named => named') /\ UNCHANGED <<connected, fieldClientVars>>
        /\ \/ /\ EntityFields' # EntityFields /\ handling' = handling \cup {r.of}
              /\ Sends(Others(c), "Broadcast", r.of)
           \/ EntityFields' = EntityFields /\ Sends({c}, "Reply", r.of) /\ UNCHANGED handling
    BY <1>1, HandleRequestEffect
  <2>2. PublisherOf[r.of] = c
    BY <1>1, RequestIsMine
  <2>. HIDE DEF r
  <2>3. CASE EntityFields' # EntityFields /\ handling' = handling \cup {r.of} /\ Sends(Others(c), "Broadcast", r.of)
    <3>1. named'
      <4>1. PICK f \in Field : counts[f] > 0 \/ counts'[f] > 0
        BY <2>3 DEF EntityFields
      <4>. QED
        BY <2>1, <4>1 DEF NamedFields
    <3>2. ServerSends(Others(c), "Broadcast", r.of)
      BY <2>1, <2>2, <2>3, <3>1 DEF ServerSends, Others
    <3>. QED
      BY <2>1, <3>2
  <2>4. CASE EntityFields' = EntityFields /\ Sends({c}, "Reply", r.of) /\ UNCHANGED handling
    <3>1. ServerSends({c}, "Reply", r.of)
      BY <2>1, <2>4 DEF ServerSends
    <3>. QED
      BY <2>1, <3>1
  <2>. QED
    BY <2>1, <2>3, <2>4
<1>2. ASSUME NEW c \in BrokerClient, HandleAll(c) PROVE NamedFields' /\ \E T, type, q : ServerSends(T, type, q)
  <2>1. ServerSends({c}, "Reply", NoPublication)
    BY <1>2, HandleAllEffect DEF ServerSends, fieldServerVars
  <2>2. NamedFields'
    BY <1>2 DEF HandleAll, fieldServerVars, NamedFields
  <2>. QED
    BY <2>1, <2>2
<1>3. ASSUME NEW c \in BrokerClient, HandleAck(c) PROVE NamedFields' /\ \E T, type, q : ServerSends(T, type, q)
  <2>1. UNCHANGED <<counts, named, connected, handling, fieldClientVars, answers>>
    BY <1>3 DEF HandleAck
  <2>2. Sends({}, "Reply", NoPublication)
    BY <2>1 DEF Sends, FieldKinds
  <2>3. EntityFields' = EntityFields /\ NamedFields'
    BY <2>1 DEF EntityFields, NamedFields
  <2>4. ServerSends({}, "Reply", NoPublication)
    BY <2>1, <2>2, <2>3 DEF ServerSends
  <2>. QED
    BY <2>3, <2>4
<1>4. ASSUME NEW p \in Publication, Reply(p) PROVE NamedFields' /\ \E T, type, q : ServerSends(T, type, q)
  <2>1. /\ p \in handling /\ handling' = handling \ {p} /\ UNCHANGED <<counts, named, connected, fieldClientVars>>
        /\ EntityFields' = EntityFields /\ Sends({PublisherOf[p]}, "Reply", p)
    BY <1>4, ReplyEffect
  <2>2. {PublisherOf[p]} \cap (living \ connected) = {}
    BY <2>1 DEF EndedAt, EntityFieldsAssumption
  <2>3. ServerSends({PublisherOf[p]}, "Reply", p)
    BY <2>1, <2>2 DEF ServerSends
  <2>4. NamedFields'
    BY <2>1 DEF NamedFields
  <2>. QED
    BY <2>3, <2>4
<1>. QED
  BY <1>1, <1>2, <1>3, <1>4

(* No other step changes what the server counts.                           *)
LEMMA QuietStep ==
  ASSUME EntityFieldsAssumption, FieldKinds, FieldKinds', FieldsNext,
         ~ (\E c \in BrokerClient : HandleRequest(c) \/ HandleAll(c) \/ HandleAck(c)), ~ (\E p \in Publication : Reply(p))
  PROVE  /\ UNCHANGED <<counts, named, handling>> /\ EntityFields' = EntityFields
         /\ \/ \E c \in BrokerClient : ClientDies(c) \/ OnBroadcast(c) \/ OnReply(c) \/ Continue(c)
            \/ /\ UNCHANGED <<living, known, resolved, overtaken, answers>>
               /\ \A c \in BrokerClient : loaded'[c] = "yes" => loaded[c] = "yes"
<1>1. \A c \in BrokerClient : GetEntityFields(c) => \A d \in BrokerClient : loaded'[d] = "yes" => loaded[d] = "yes"
  BY DEF GetEntityFields, FieldKinds
<1>2. UNCHANGED <<counts, named, handling>>
  BY DEF FieldsNext, Connect, GetEntityFields, ClientDies, CloseFields, OnBroadcast, OnReply, Continue, PublishEntityFields,
         UnsubscribeEntityFields, fieldServerVars
<1>3. EntityFields' = EntityFields
  BY <1>2 DEF EntityFields
<1>4. \/ \E c \in BrokerClient : ClientDies(c) \/ OnBroadcast(c) \/ OnReply(c) \/ Continue(c)
      \/ /\ UNCHANGED <<living, known, resolved, overtaken, answers>>
         /\ \A c \in BrokerClient : loaded'[c] = "yes" => loaded[c] = "yes"
  BY <1>1 DEF FieldsNext, Connect, GetEntityFields, CloseFields, PublishEntityFields,
         UnsubscribeEntityFields, fieldServerVars, fieldClientVars
<1>. QED
  BY <1>2, <1>3, <1>4

(* What the client takes.                                                  *)
LEMMA TakeEffect ==
  ASSUME FieldKinds, NEW c \in BrokerClient
  PROVE  /\ OnBroadcast(c) =>
              /\ answers[c] # <<>> /\ answers[c][1].type = "Broadcast" /\ answers'[c] = Tail(answers[c])
              /\ resolved' = resolved /\ known'[c] = answers[c][1].fields
              /\ resolved[c] # <<>> => c \in overtaken'
         /\ OnReply(c) =>
              /\ answers[c] # <<>> /\ answers[c][1].type = "Reply" /\ answers'[c] = Tail(answers[c])
              /\ resolved'[c] = Append(resolved[c], answers[c][1]) /\ known' = known
         /\ Continue(c) =>
              /\ resolved[c] # <<>> /\ resolved'[c] = Tail(resolved[c]) /\ UNCHANGED <<answers, overtaken>>
              /\ known'[c] = IF resolved[c][1].named THEN resolved[c][1].fields ELSE known[c]
         /\ ClientDies(c) => answers'[c] = <<>> /\ resolved'[c] = <<>> /\ known'[c] = {} /\ c \notin living'
         /\ OnBroadcast(c) \/ OnReply(c) \/ Continue(c) =>
              /\ UNCHANGED <<living, store>>
              /\ \A d \in BrokerClient : d # c => /\ answers'[d] = answers[d] /\ resolved'[d] = resolved[d] /\ known'[d] = known[d]
                                                  /\ loaded'[d] = loaded[d] /\ (d \in overtaken' <=> d \in overtaken)
         /\ ClientDies(c) => \A d \in BrokerClient : d # c =>
              /\ answers'[d] = answers[d] /\ resolved'[d] = resolved[d] /\ known'[d] = known[d]
              /\ loaded'[d] = loaded[d] /\ (d \in overtaken' <=> d \in overtaken) /\ (d \in living' <=> d \in living)
              /\ store'[d] = store[d]
<1>1. /\ DOMAIN requests = BrokerClient /\ DOMAIN answers = BrokerClient /\ DOMAIN resolved = BrokerClient
      /\ DOMAIN known = BrokerClient /\ DOMAIN loaded = BrokerClient /\ DOMAIN store = BrokerClient
  BY DEF FieldKinds
<1>2. /\ answers[c] # <<>> => Head(answers[c]) = answers[c][1]
      /\ resolved[c] # <<>> => Head(resolved[c]) = resolved[c][1]
  BY Messages
<1>3. OnBroadcast(c) =>
        /\ answers[c] # <<>> /\ answers[c][1].type = "Broadcast" /\ answers'[c] = Tail(answers[c])
        /\ resolved' = resolved /\ known'[c] = answers[c][1].fields
        /\ resolved[c] # <<>> => c \in overtaken'
        /\ UNCHANGED <<living, store>>
        /\ \A d \in BrokerClient : d # c => /\ answers'[d] = answers[d] /\ resolved'[d] = resolved[d] /\ known'[d] = known[d]
                                            /\ loaded'[d] = loaded[d] /\ (d \in overtaken' <=> d \in overtaken)
  BY <1>1, <1>2 DEF OnBroadcast
<1>4. OnReply(c) =>
        /\ answers[c] # <<>> /\ answers[c][1].type = "Reply" /\ answers'[c] = Tail(answers[c])
        /\ resolved'[c] = Append(resolved[c], answers[c][1]) /\ known' = known
        /\ UNCHANGED <<living, store>>
        /\ \A d \in BrokerClient : d # c => /\ answers'[d] = answers[d] /\ resolved'[d] = resolved[d] /\ known'[d] = known[d]
                                            /\ loaded'[d] = loaded[d] /\ (d \in overtaken' <=> d \in overtaken)
  BY <1>1, <1>2 DEF OnReply
<1>5. Continue(c) =>
        /\ resolved[c] # <<>> /\ resolved'[c] = Tail(resolved[c]) /\ UNCHANGED <<answers, overtaken>>
        /\ known'[c] = IF resolved[c][1].named THEN resolved[c][1].fields ELSE known[c]
        /\ UNCHANGED <<living, store>>
        /\ \A d \in BrokerClient : d # c => /\ answers'[d] = answers[d] /\ resolved'[d] = resolved[d] /\ known'[d] = known[d]
                                            /\ loaded'[d] = loaded[d] /\ (d \in overtaken' <=> d \in overtaken)
  BY <1>1, <1>2 DEF Continue, Settle
<1>6. ClientDies(c) =>
        /\ answers'[c] = <<>> /\ resolved'[c] = <<>> /\ known'[c] = {} /\ c \notin living'
        /\ \A d \in BrokerClient : d # c =>
              /\ answers'[d] = answers[d] /\ resolved'[d] = resolved[d] /\ known'[d] = known[d]
              /\ loaded'[d] = loaded[d] /\ (d \in overtaken' <=> d \in overtaken) /\ (d \in living' <=> d \in living)
              /\ store'[d] = store[d]
  BY <1>1 DEF ClientDies
<1>. QED
  BY <1>3, <1>4, <1>5, <1>6

(* What names an entity, and what the last word says.                      *)
LEMMA NamesStep ==
  ASSUME EntityFieldsAssumption, FieldKinds, FieldKinds', NamedFields, FieldsNext,
         \A c \in BrokerClient : MineAt(c) /\ EndedAt(c), NEW d \in BrokerClient, NamedAt(d)
  PROVE  NamedAt(d)'
<1>. DEFINE a == answers[d]  r == resolved[d]
<1>0. a \in Seq(AnyAnswer) /\ r \in Seq(AnyAnswer)
  BY DEF FieldKinds
<1>1. ASSUME NEW T, NEW type, NEW q, ServerSends(T, type, q), NamedFields' PROVE NamedAt(d)'
  <2>. DEFINE m == Word(type, q)  n == Len(a) + 1
  <2>1. UNCHANGED <<known, resolved, overtaken>> /\ (named => named')
    BY <1>1 DEF ServerSends, fieldClientVars
  <2>2. CASE answers'[d] = a
    BY <2>1, <2>2 DEF NamedAt
  <2>3. CASE answers'[d] = Append(a, m)
    <3>1. m \in AnyAnswer /\ m.named = named' /\ m.fields = EntityFields' /\ m.type = type
      BY <1>1, FieldsEffect DEF ServerSends, Sends, Word
    <3>2. ~ named' => m.fields = {} /\ m.type # "Broadcast" /\ ~ named
      BY <1>1, <2>1, <3>1 DEF NamedFields, EntityFields, FieldKinds, ServerSends
    <3>. HIDE DEF m, n
    <3>3. n \in Nat /\ DOMAIN answers'[d] = 1 .. n /\ DOMAIN a = 1 .. n - 1 /\ answers'[d][n] = m
          /\ \A i \in 1 .. n - 1 : answers'[d][i] = a[i]
      BY <1>0, <2>3, <3>1, Appended DEF n
    <3>4. ASSUME ~ named'
          PROVE  known'[d] = {} /\ (\A i \in DOMAIN answers'[d] : ~ answers'[d][i].named) /\ \A i \in DOMAIN resolved'[d] : ~ resolved'[d][i].named
      BY <2>1, <3>1, <3>2, <3>3, <3>4 DEF NamedAt
    <3>5. ASSUME NEW i \in DOMAIN answers'[d]
          PROVE  /\ answers'[d][i].type = "Broadcast" => answers'[d][i].named
                 /\ ~ answers'[d][i].named =>
                      /\ answers'[d][i].fields = {} /\ known'[d] = {}
                      /\ \A j \in 1 .. i : ~ answers'[d][j].named
                      /\ \A j \in DOMAIN resolved'[d] : ~ resolved'[d][j].named
      <4>1. CASE i = n
        <5>1. answers'[d][i].type = "Broadcast" => answers'[d][i].named
          BY <1>1, <3>1, <3>3, <4>1 DEF ServerSends
        <5>2. ~ answers'[d][i].named => ~ named' /\ answers'[d][i].fields = {} /\ 1 .. i = DOMAIN answers'[d]
          BY <3>1, <3>2, <3>3, <4>1
        <5>. QED
          BY <3>4, <5>1, <5>2
      <4>2. CASE i # n
        <5>1. i \in DOMAIN a /\ answers'[d][i] = a[i] /\ \A j \in 1 .. i : answers'[d][j] = a[j]
          BY <3>3, <4>2
        <5>. QED
          BY <2>1, <5>1 DEF NamedAt
      <4>. QED
        BY <4>1, <4>2
    <3>. QED
      BY <2>1, <3>4, <3>5 DEF NamedAt
  <2>. QED
    BY <1>1, <2>2, <2>3, SentTo DEF ServerSends
<1>2. CASE ~ (\E c \in BrokerClient : HandleRequest(c) \/ HandleAll(c) \/ HandleAck(c)) /\ ~ (\E p \in Publication : Reply(p))
  <2>1. UNCHANGED named
    BY <1>2, QuietStep
  <2>2. ASSUME answers'[d] = a, resolved'[d] = r, known'[d] = known[d], d \in overtaken' <=> d \in overtaken PROVE NamedAt(d)'
    BY <2>1, <2>2 DEF NamedAt
  <2>3. CASE UNCHANGED <<living, known, resolved, overtaken, answers>>
    BY <2>2, <2>3
  <2>4. ASSUME NEW c \in BrokerClient, c # d, ClientDies(c) \/ OnBroadcast(c) \/ OnReply(c) \/ Continue(c) PROVE NamedAt(d)'
    BY <2>2, <2>4, TakeEffect
  <2>5. CASE ClientDies(d)
    <3>1. answers'[d] = <<>> /\ resolved'[d] = <<>> /\ known'[d] = {}
      BY <2>5, TakeEffect
    <3>2. DOMAIN answers'[d] = {} /\ DOMAIN resolved'[d] = {}
      BY <3>1
    <3>. QED
      BY <3>1, <3>2 DEF NamedAt
  <2>6. CASE OnBroadcast(d)
    <3>1. /\ a # <<>> /\ a[1].type = "Broadcast" /\ answers'[d] = Tail(a) /\ resolved'[d] = r
          /\ r # <<>> => d \in overtaken'
      BY <2>6, TakeEffect
    <3>2. a[1].named /\ named'
      BY <1>0, <2>1, <3>1, Shifted DEF NamedAt
    <3>3. ASSUME NEW i \in DOMAIN answers'[d] PROVE answers'[d][i].named
      <4>1. i \in Nat \ {0} /\ i + 1 \in DOMAIN a /\ answers'[d][i] = a[i + 1] /\ 1 \in 1 .. i + 1
        BY <1>0, <3>1, TailAt
      <4>. QED
        BY <3>2, <4>1 DEF NamedAt
    <3>4. ASSUME NEW i \in DOMAIN r, ~ r[i].named PROVE r[i].fields = {} /\ (\A j \in 1 .. i : ~ r[j].named) /\ d \in overtaken'
      <4>1. r # <<>>
        OBVIOUS
      <4>. QED
        BY <3>1, <3>4, <4>1 DEF NamedAt
    <3>. QED
      BY <3>1, <3>2, <3>3, <3>4 DEF NamedAt
  <2>7. CASE OnReply(d)
    <3>. DEFINE m == a[1]  n == Len(r) + 1
    <3>1. a # <<>> /\ answers'[d] = Tail(a) /\ resolved'[d] = Append(r, m) /\ known' = known
      BY <2>7, TakeEffect
    <3>2. m \in AnyAnswer /\ 1 \in DOMAIN a
      BY <1>0, <3>1, Shifted
    <3>3. n \in Nat /\ DOMAIN resolved'[d] = 1 .. n /\ DOMAIN r = 1 .. n - 1 /\ resolved'[d][n] = m /\ Len(resolved'[d]) = n
          /\ \A i \in 1 .. n - 1 : resolved'[d][i] = r[i]
      BY <1>0, <3>1, <3>2, Appended
    <3>4. ~ m.named => m.fields = {} /\ known[d] = {} /\ \A j \in DOMAIN r : ~ r[j].named
      BY <3>2 DEF NamedAt
    <3>. HIDE DEF m, n
    <3>5. ~ named' => /\ known'[d] = {} /\ ~ m.named
                      /\ (\A i \in DOMAIN a : ~ a[i].named) /\ \A i \in DOMAIN r : ~ r[i].named
      BY <2>1, <3>1, <3>2 DEF NamedAt, m
    <3>6. ASSUME NEW i \in DOMAIN answers'[d]
          PROVE  /\ ~ named' => ~ answers'[d][i].named
                 /\ answers'[d][i].type = "Broadcast" => answers'[d][i].named
                 /\ ~ answers'[d][i].named =>
                      /\ answers'[d][i].fields = {} /\ known'[d] = {}
                      /\ \A j \in 1 .. i : ~ answers'[d][j].named
                      /\ \A j \in DOMAIN resolved'[d] : ~ resolved'[d][j].named
      <4>1. i \in Nat \ {0} /\ i + 1 \in DOMAIN a /\ answers'[d][i] = a[i + 1]
        BY <1>0, <3>1, TailAt
      <4>2. /\ ~ named' => ~ answers'[d][i].named
            /\ answers'[d][i].type = "Broadcast" => answers'[d][i].named
        BY <3>5, <4>1 DEF NamedAt
      <4>3. ASSUME ~ answers'[d][i].named
            PROVE  /\ answers'[d][i].fields = {} /\ known'[d] = {}
                   /\ \A j \in 1 .. i : ~ answers'[d][j].named
                   /\ \A j \in DOMAIN resolved'[d] : ~ resolved'[d][j].named
        <5>1. /\ a[i + 1].fields = {} /\ known[d] = {}
              /\ \A j \in 1 .. i + 1 : ~ a[j].named
              /\ \A j \in DOMAIN r : ~ r[j].named
          BY <4>1, <4>3 DEF NamedAt
        <5>2. ~ m.named
          BY <4>1, <5>1 DEF m
        <5>3. \A j \in 1 .. i : j \in DOMAIN answers'[d] /\ j + 1 \in 1 .. i + 1
          BY <1>0, <3>1, <4>1, Shifted
        <5>4. \A j \in 1 .. i : ~ answers'[d][j].named
          BY <1>0, <3>1, <5>1, <5>3, TailAt
        <5>5. \A j \in DOMAIN resolved'[d] : ~ resolved'[d][j].named
          BY <3>3, <5>1, <5>2
        <5>. QED
          BY <3>1, <4>1, <5>1, <5>4, <5>5
      <4>. QED
        BY <4>2, <4>3
    <3>7. ASSUME NEW i \in DOMAIN resolved'[d]
          PROVE  /\ ~ named' => ~ resolved'[d][i].named
                 /\ ~ resolved'[d][i].named =>
                      /\ resolved'[d][i].fields = {} /\ (\A j \in 1 .. i : ~ resolved'[d][j].named)
                      /\ i = Len(resolved'[d]) => d \in overtaken' \/ known'[d] = {}
      <4>1. CASE i = n
        <5>1. ~ m.named => \A j \in 1 .. i : ~ resolved'[d][j].named
          BY <3>3, <3>4, <4>1
        <5>. QED
          BY <3>1, <3>3, <3>4, <3>5, <4>1, <5>1
      <4>2. CASE i # n
        <5>1. i \in DOMAIN r /\ resolved'[d][i] = r[i] /\ (\A j \in 1 .. i : resolved'[d][j] = r[j]) /\ i # Len(resolved'[d])
          BY <3>3, <4>2
        <5>. QED
          BY <3>5, <5>1 DEF NamedAt
      <4>. QED
        BY <4>1, <4>2
    <3>. QED
      BY <3>5, <3>6, <3>7 DEF NamedAt
  <2>8. CASE Continue(d)
    <3>. DEFINE m == r[1]
    <3>1. /\ r # <<>> /\ resolved'[d] = Tail(r) /\ answers'[d] = a /\ (d \in overtaken' <=> d \in overtaken)
          /\ known'[d] = IF m.named THEN m.fields ELSE known[d]
      BY <2>8, TakeEffect
    <3>2. 1 \in DOMAIN r /\ Len(r) \in Nat \ {0} /\ Len(resolved'[d]) = Len(r) - 1
      BY <1>0, <3>1, Shifted
    <3>3. ~ named => ~ m.named /\ known'[d] = {}
      BY <3>1, <3>2 DEF NamedAt
    <3>4. ASSUME NEW i \in DOMAIN a, ~ a[i].named PROVE ~ m.named /\ known'[d] = {} /\ \A j \in DOMAIN resolved'[d] : ~ resolved'[d][j].named
      <4>1. known[d] = {} /\ \A j \in DOMAIN r : ~ r[j].named
        BY <3>4 DEF NamedAt
      <4>2. \A j \in DOMAIN resolved'[d] : ~ resolved'[d][j].named
        BY <1>0, <3>1, <4>1, TailAt
      <4>. QED
        BY <3>1, <3>2, <4>1, <4>2
    <3>5. ASSUME NEW i \in DOMAIN resolved'[d]
          PROVE  /\ ~ named' => ~ resolved'[d][i].named
                 /\ ~ resolved'[d][i].named =>
                      /\ resolved'[d][i].fields = {} /\ (\A j \in 1 .. i : ~ resolved'[d][j].named)
                      /\ i = Len(resolved'[d]) => d \in overtaken' \/ known'[d] = {}
      <4>1. i \in Nat \ {0} /\ i + 1 \in DOMAIN r /\ resolved'[d][i] = r[i + 1]
        BY <1>0, <3>1, TailAt
      <4>2. ~ named' => ~ resolved'[d][i].named
        BY <2>1, <4>1 DEF NamedAt
      <4>3. ASSUME ~ resolved'[d][i].named
            PROVE  /\ resolved'[d][i].fields = {} /\ (\A j \in 1 .. i : ~ resolved'[d][j].named)
                   /\ i = Len(resolved'[d]) => d \in overtaken' \/ known'[d] = {}
        <5>1. /\ r[i + 1].fields = {} /\ (\A j \in 1 .. i + 1 : ~ r[j].named)
              /\ i + 1 = Len(r) => d \in overtaken \/ known[d] = {}
          BY <4>1, <4>3 DEF NamedAt
        <5>2. ~ m.named
          BY <4>1, <5>1
        <5>3. \A j \in 1 .. i : j \in DOMAIN resolved'[d] /\ j + 1 \in 1 .. i + 1
          BY <1>0, <3>1, <4>1, Shifted
        <5>4. \A j \in 1 .. i : ~ resolved'[d][j].named
          BY <1>0, <3>1, <5>1, <5>3, TailAt
        <5>5. i = Len(resolved'[d]) => i + 1 = Len(r)
          BY <3>2
        <5>. QED
          BY <3>1, <4>1, <5>1, <5>2, <5>4, <5>5
      <4>. QED
        BY <4>2, <4>3
    <3>. QED
      BY <2>1, <3>1, <3>3, <3>4, <3>5 DEF NamedAt
  <2>. QED
    BY <1>2, <2>3, <2>4, <2>5, <2>6, <2>7, <2>8, QuietStep
<1>. QED
  BY <1>1, <1>2, ServerStep

(* The last of a tail is the last of the queue.                            *)
LEMMA TailEnd ==
  ASSUME NEW S, NEW q \in Seq(S), q # <<>>
  PROVE  /\ Len(q) = 1 => Tail(q) = <<>> /\ 1 \in DOMAIN q /\ q[1] = q[Len(q)] /\ q[1] \in S
         /\ Len(q) # 1 => Tail(q) # <<>> /\ Tail(q)[Len(Tail(q))] = q[Len(q)]
<1>1. Len(q) \in Nat \ {0} /\ Len(Tail(q)) = Len(q) - 1 /\ Tail(q) \in Seq(S) /\ 1 \in DOMAIN q /\ q[1] \in S
      /\ \A i \in 1 .. Len(q) - 1 : Tail(q)[i] = q[i + 1]
  BY Shifted
<1>2. ASSUME Len(q) = 1 PROVE Tail(q) = <<>>
  <2>1. Len(Tail(q)) = 0 /\ Tail(q) \in Seq(S)
    BY <1>1, <1>2
  <2>. QED
    BY <2>1, EmptySeq
<1>3. ASSUME Len(q) # 1 PROVE Tail(q) # <<>> /\ Tail(q)[Len(Tail(q))] = q[Len(q)]
  <2>1. Len(q) - 1 \in 1 .. Len(q) - 1 /\ (Len(q) - 1) + 1 = Len(q) /\ Len(Tail(q)) # 0
    BY <1>1, <1>3
  <2>. QED
    BY <1>1, <2>1
<1>. QED
  BY <1>1, <1>2, <1>3

(* The last word that a client gets is what the server has.                *)
LEMMA FollowsStep ==
  ASSUME EntityFieldsAssumption, FieldKinds, FieldKinds', NamedFields, FieldsNext,
         \A c \in BrokerClient : MineAt(c) /\ EndedAt(c), NEW d \in BrokerClient, NamedAt(d), FollowsAt(d)
  PROVE  FollowsAt(d)'
<1>. DEFINE a == answers[d]  r == resolved[d]
<1>0. a \in Seq(AnyAnswer) /\ r \in Seq(AnyAnswer) /\ Len(a) \in Nat /\ Len(r) \in Nat
  BY DEF FieldKinds
<1>1. ASSUME NEW T, NEW type, NEW q, ServerSends(T, type, q) PROVE FollowsAt(d)'
  <2>. DEFINE m == Word(type, q)  n == Len(a) + 1
  <2>1. UNCHANGED <<living, known, loaded, resolved, overtaken>>
    BY <1>1 DEF ServerSends, fieldClientVars
  <2>2. CASE d \in T /\ d \in living
    <3>1. m \in AnyAnswer /\ m.fields = EntityFields'
      BY <1>1, FieldsEffect DEF ServerSends, Sends, Word
    <3>2. answers'[d] = Append(a, m)
      BY <1>1, <2>2, SentTo DEF ServerSends
    <3>. HIDE DEF m
    <3>3. answers'[d] # <<>> /\ answers'[d][Len(answers'[d])] = m
      BY <1>0, <3>1, <3>2, Appended
    <3>. QED
      BY <3>1, <3>3 DEF FollowsAt
  <2>3. CASE d \notin T /\ d \in living
    <3>1. answers'[d] = a
      BY <1>1, <2>3, SentTo DEF ServerSends
    <3>2. CASE d \notin connected
      <4>1. a = <<>> /\ r = <<>> /\ loaded[d] = "no"
        BY <2>3, <3>2 DEF EndedAt
      <4>. QED
        BY <2>1, <3>1, <4>1 DEF FollowsAt
    <3>3. CASE \E p \in handling' : PublisherOf[p] = d
      BY <3>3 DEF FollowsAt
    <3>4. CASE EntityFields' = EntityFields
      <4>1. CASE \E p \in handling : PublisherOf[p] = d
        <5>1. \E p \in handling' : PublisherOf[p] = d
          BY <1>1, <2>3, <4>1 DEF ServerSends
        <5>. QED
          BY <5>1 DEF FollowsAt
      <4>2. CASE ~ \E p \in handling : PublisherOf[p] = d
        BY <2>1, <2>3, <3>1, <3>4, <4>2 DEF FollowsAt
      <4>. QED
        BY <4>1, <4>2
    <3>. QED
      BY <1>1, <2>3, <3>2, <3>3, <3>4 DEF ServerSends
  <2>4. CASE d \notin living
    BY <2>1, <2>4 DEF FollowsAt
  <2>. QED
    BY <2>2, <2>3, <2>4
<1>2. CASE ~ (\E c \in BrokerClient : HandleRequest(c) \/ HandleAll(c) \/ HandleAck(c)) /\ ~ (\E p \in Publication : Reply(p))
  <2>1. UNCHANGED handling /\ EntityFields' = EntityFields
    BY <1>2, QuietStep
  <2>2. ASSUME answers'[d] = a, resolved'[d] = r, known'[d] = known[d], d \in overtaken' <=> d \in overtaken,
               d \in living' <=> d \in living, loaded'[d] = "yes" => loaded[d] = "yes"
        PROVE FollowsAt(d)'
    BY <2>1, <2>2 DEF FollowsAt
  <2>3. CASE UNCHANGED <<living, known, resolved, overtaken, answers>> /\ \A c \in BrokerClient : loaded'[c] = "yes" => loaded[c] = "yes"
    BY <2>2, <2>3
  <2>4. ASSUME NEW c \in BrokerClient, c # d, ClientDies(c) \/ OnBroadcast(c) \/ OnReply(c) \/ Continue(c) PROVE FollowsAt(d)'
    BY <2>2, <2>4, TakeEffect
  <2>5. CASE ClientDies(d)
    BY <2>5, TakeEffect DEF FollowsAt
  <2>6. ASSUME OnBroadcast(d) \/ OnReply(d) \/ Continue(d), d \in living, ~ \E p \in handling : PublisherOf[p] = d
        PROVE  FollowsAt(d)'
    <3>1. CASE OnBroadcast(d)
      <4>1. a # <<>> /\ answers'[d] = Tail(a) /\ resolved' = resolved /\ known'[d] = a[1].fields /\ (r # <<>> => d \in overtaken')
        BY <3>1, TakeEffect
      <4>2. a[Len(a)].fields = EntityFields
        BY <2>6, <4>1 DEF FollowsAt
      <4>3. CASE Len(a) = 1
        <5>1. answers'[d] = <<>> /\ known'[d] = EntityFields
          BY <1>0, <4>1, <4>2, <4>3, TailEnd
        <5>. QED
          BY <2>1, <4>1, <5>1 DEF FollowsAt
      <4>4. CASE Len(a) # 1
        <5>1. answers'[d] # <<>> /\ answers'[d][Len(answers'[d])] = a[Len(a)]
          BY <1>0, <4>1, <4>4, TailEnd
        <5>. QED
          BY <2>1, <4>2, <5>1 DEF FollowsAt
      <4>. QED
        BY <4>3, <4>4
    <3>2. CASE OnReply(d)
      <4>1. a # <<>> /\ answers'[d] = Tail(a) /\ resolved'[d] = Append(r, a[1])
        BY <3>2, TakeEffect
      <4>2. a[Len(a)].fields = EntityFields
        BY <2>6, <4>1 DEF FollowsAt
      <4>3. CASE Len(a) = 1
        <5>1. answers'[d] = <<>> /\ a[1].fields = EntityFields /\ a[1] \in AnyAnswer
          BY <1>0, <4>1, <4>2, <4>3, TailEnd
        <5>2. resolved'[d] # <<>> /\ resolved'[d][Len(resolved'[d])] = a[1]
          BY <1>0, <4>1, <5>1, Appended
        <5>. QED
          BY <2>1, <5>1, <5>2 DEF FollowsAt
      <4>4. CASE Len(a) # 1
        <5>1. answers'[d] # <<>> /\ answers'[d][Len(answers'[d])] = a[Len(a)]
          BY <1>0, <4>1, <4>4, TailEnd
        <5>. QED
          BY <2>1, <4>2, <5>1 DEF FollowsAt
      <4>. QED
        BY <4>3, <4>4
    <3>3. CASE Continue(d)
      <4>1. /\ r # <<>> /\ resolved'[d] = Tail(r) /\ answers' = answers /\ overtaken' = overtaken
            /\ known'[d] = IF r[1].named THEN r[1].fields ELSE known[d]
        BY <3>3, TakeEffect
      <4>2. CASE a # <<>> \/ d \in overtaken
        BY <2>1, <2>6, <4>1, <4>2 DEF FollowsAt
      <4>3. CASE a = <<>> /\ d \notin overtaken
        <5>1. r[Len(r)].fields = EntityFields
          BY <2>6, <4>1, <4>3 DEF FollowsAt
        <5>2. CASE Len(r) = 1
          <6>1. resolved'[d] = <<>> /\ r[1].fields = EntityFields /\ 1 \in DOMAIN r
            BY <1>0, <4>1, <5>1, <5>2, TailEnd
          <6>2. ~ r[1].named => r[1].fields = {} /\ known[d] = {}
            BY <4>3, <5>2, <6>1 DEF NamedAt
          <6>3. known'[d] = EntityFields
            BY <4>1, <6>1, <6>2
          <6>. QED
            BY <2>1, <4>1, <4>3, <6>1, <6>3 DEF FollowsAt
        <5>3. CASE Len(r) # 1
          <6>1. resolved'[d] # <<>> /\ resolved'[d][Len(resolved'[d])] = r[Len(r)]
            BY <1>0, <4>1, <5>3, TailEnd
          <6>. QED
            BY <2>1, <4>1, <4>3, <5>1, <6>1 DEF FollowsAt
        <5>. QED
          BY <5>2, <5>3
      <4>. QED
        BY <4>2, <4>3
    <3>. QED
      BY <2>6, <3>1, <3>2, <3>3
  <2>7. CASE (OnBroadcast(d) \/ OnReply(d) \/ Continue(d)) /\ (d \notin living \/ \E p \in handling : PublisherOf[p] = d)
    <3>1. living' = living
      BY <2>7, TakeEffect
    <3>. QED
      BY <2>1, <2>7, <3>1 DEF FollowsAt
  <2>. QED
    BY <1>2, <2>3, <2>4, <2>5, <2>6, <2>7, QuietStep
<1>. QED
  BY <1>1, <1>2, ServerStep

(* Answers that have f still have it when one was taken,                   *)
LEMMA HaveTail ==
  ASSUME NEW S, NEW q \in Seq(S), q # <<>>, NEW f, NEW k \in Nat, Have(q, f, k), NEW j \in Nat, j + 1 >= k
  PROVE  Have(Tail(q), f, j)
<1>. SUFFICES ASSUME NEW i \in DOMAIN Tail(q), i >= j PROVE f \in Tail(q)[i].fields
  BY DEF Have
<1>1. i \in Nat \ {0} /\ i + 1 \in DOMAIN q /\ Tail(q)[i] = q[i + 1]
  BY TailAt
<1>2. i + 1 >= k
  BY <1>1
<1>. QED
  BY <1>1, <1>2 DEF Have

(* and when one with f was added.                                          *)
LEMMA HaveAppend ==
  ASSUME NEW S, NEW q \in Seq(S), NEW m \in S, NEW f, f \in m.fields, NEW k \in Nat
  PROVE  /\ Have(q, f, k) => Have(Append(q, m), f, k)
         /\ Have(Append(q, m), f, Len(q) + 1)
<1>1. ASSUME NEW i \in DOMAIN Append(q, m), i = Len(q) + 1 PROVE f \in Append(q, m)[i].fields
  BY <1>1, Appended
<1>2. ASSUME NEW i \in DOMAIN Append(q, m), i # Len(q) + 1
      PROVE  i \in DOMAIN q /\ Append(q, m)[i] = q[i] /\ ~ (i >= Len(q) + 1)
  <2>1. i \in DOMAIN q /\ Append(q, m)[i] = q[i]
    BY <1>2, AppendAt
  <2>2. Len(q) \in Nat /\ i \in 1 .. Len(q)
    BY <2>1
  <2>. QED
    BY <2>1, <2>2
<1>. QED
  BY <1>1, <1>2 DEF Have

(* The server has every field that somebody is counted for.                *)
LEMMA CountedIsThere ==
  ASSUME EntityFieldsAssumption, FieldKinds', NEW f \in Field, CountsAt(f)', NEW c \in BrokerClient, IsCounted(c, f)'
  PROVE  f \in EntityFields'
<1>1. IsFiniteSet(Counted(f)') /\ Cardinality(Counted(f)') \in Nat /\ c \in Counted(f)'
  BY CountedFinite DEF Counted
<1>2. Cardinality(Counted(f)') # 0
  BY <1>1, FS_EmptySet
<1>3. counts'[f] \in Nat /\ Cardinality(Counted(f)') <= counts'[f]
  BY DEF CountsAt, Counted, FieldKinds
<1>. QED
  BY <1>1, <1>2, <1>3 DEF EntityFields

(* The three parts of OwnAt.                                               *)
KnowsOwn(c, f) == f \in known[c] /\ Have(answers[c], f, 1) /\ Have(resolved[c], f, 1)
Awaits(c, f, q) == PublisherOf[q] = c /\ f \in asked[q] /\ Behind(c, f, q)
Wants(c, f) == c \in living /\ store[c][f] > 0 /\ Silent(requests[c], f)

(* OwnAt in named parts.                                                   *)
LEMMA OwnParts ==
  ASSUME NEW c, NEW f
  PROVE  /\ OwnAt(c, f) <=> (Wants(c, f) => KnowsOwn(c, f) \/ \E q \in Publication : Awaits(c, f, q))
         /\ OwnAt(c, f)' <=> (Wants(c, f)' => KnowsOwn(c, f)' \/ \E q \in Publication : Awaits(c, f, q)')
BY DEF OwnAt, Wants, KnowsOwn, Awaits

(* Where nothing comes to the client.                                      *)
LEMMA OwnKept ==
  ASSUME NEW c \in BrokerClient, NEW f \in Field, OwnAt(c, f), Wants(c, f)' => Wants(c, f),
         answers'[c] = answers[c], resolved'[c] = resolved[c], known'[c] = known[c], handling' = handling,
         \A q \in Publication : f \in asked[q] => f \in asked'[q]
  PROVE  OwnAt(c, f)'
<1>1. KnowsOwn(c, f) => KnowsOwn(c, f)'
  BY DEF KnowsOwn
<1>2. ASSUME NEW q \in Publication, Awaits(c, f, q) PROVE Awaits(c, f, q)'
  <2>1. PublisherOf[q] = c /\ f \in asked'[q]
    BY <1>2 DEF Awaits
  <2>2. \A i : (Replied(q, i) => Replied(q, i)') /\ (Settled(q, i) => Settled(q, i)')
    BY <2>1 DEF Replied, Settled
  <2>3. Behind(c, f, q)'
    BY <1>2, <2>2 DEF Awaits, Behind
  <2>. QED
    BY <2>1, <2>3 DEF Awaits
<1>. QED
  BY <1>1, <1>2, OwnParts

(* Where the server sends.                                                 *)
LEMMA OwnSent ==
  ASSUME EntityFieldsAssumption, FieldKinds, FieldKinds', NEW c \in BrokerClient, NEW f \in Field, OwnAt(c, f),
         NEW T, NEW type, NEW p, ServerSends(T, type, p),
         Wants(c, f)' => Wants(c, f) /\ f \in EntityFields',
         \A q \in handling : PublisherOf[q] = c /\ c \in living =>
            q \in handling' \/ \E n \in Nat : n = Len(answers[c]) + 1 /\ Replied(q, n)'
  PROVE  OwnAt(c, f)'
<1>. SUFFICES ASSUME Wants(c, f)' PROVE KnowsOwn(c, f)' \/ \E q \in Publication : Awaits(c, f, q)'
  BY OwnParts
<1>. DEFINE a == answers[c]  m == Word(type, p)
<1>1. UNCHANGED <<living, known, asked, resolved>> /\ c \in living /\ f \in EntityFields' /\ Wants(c, f)
  BY DEF ServerSends, fieldClientVars, Wants
<1>2. a \in Seq(AnyAnswer) /\ Len(a) \in Nat
  BY DEF FieldKinds
<1>3. m \in AnyAnswer /\ f \in m.fields
  BY <1>1, FieldsEffect DEF ServerSends, Sends, Word
<1>4. answers'[c] = a \/ answers'[c] = Append(a, m)
  BY SentTo DEF ServerSends
<1>. HIDE DEF m
<1>5. ASSUME NEW k \in Nat, Have(a, f, k) PROVE Have(answers'[c], f, k)
  BY <1>2, <1>3, <1>4, <1>5, HaveAppend
<1>6. ASSUME NEW q \in Publication, PublisherOf[q] = c, NEW i \in Nat, Replied(q, i) PROVE Replied(q, i)'
  <2>1. i \in DOMAIN a
    BY <1>6 DEF Replied
  <2>2. i \in DOMAIN answers'[c] /\ answers'[c][i] = a[i]
    BY <1>2, <1>3, <1>4, <2>1, Appended
  <2>. QED
    BY <1>6, <2>2 DEF Replied
<1>7. ASSUME KnowsOwn(c, f) PROVE KnowsOwn(c, f)'
  BY <1>1, <1>5, <1>7 DEF KnowsOwn
<1>8. ASSUME NEW q \in Publication, Awaits(c, f, q) PROVE Awaits(c, f, q)'
  <2>1. PublisherOf[q] = c /\ f \in asked'[q] /\ Behind(c, f, q)
    BY <1>1, <1>8 DEF Awaits
  <2>2. CASE q \in handling
    <3>1. CASE q \in handling'
      BY <2>1, <3>1 DEF Awaits, Behind
    <3>2. ASSUME NEW n \in Nat, n = Len(a) + 1, Replied(q, n)' PROVE Awaits(c, f, q)'
      <4>1. n \in DOMAIN answers'[c]
        BY <2>1, <3>2 DEF Replied
      <4>2. answers'[c] = Append(a, m)
        BY <1>2, <1>4, <3>2, <4>1
      <4>3. Have(answers'[c], f, n)
        BY <1>2, <1>3, <3>2, <4>2, HaveAppend
      <4>. QED
        BY <2>1, <3>2, <4>3 DEF Awaits, Behind
    <3>. QED
      BY <1>1, <2>1, <2>2, <3>1, <3>2
  <2>3. ASSUME NEW i \in Nat, Replied(q, i), Have(a, f, i) PROVE Awaits(c, f, q)'
    <3>1. Replied(q, i)' /\ Have(answers'[c], f, i)
      BY <1>5, <1>6, <2>1, <2>3
    <3>. QED
      BY <2>1, <3>1 DEF Awaits, Behind
  <2>4. ASSUME NEW i \in Nat, Settled(q, i), Have(resolved[c], f, i), Have(a, f, 1) PROVE Awaits(c, f, q)'
    <3>1. Settled(q, i)' /\ Have(resolved'[c], f, i) /\ Have(answers'[c], f, 1)
      BY <1>1, <1>5, <2>4 DEF Settled
    <3>. QED
      BY <2>1, <3>1 DEF Awaits, Behind
  <2>. QED
    BY <2>1, <2>2, <2>3, <2>4 DEF Behind
<1>. QED
  BY <1>1, <1>7, <1>8, OwnParts

(* A broadcast takes the place of what the client knows.                   *)
LEMMA OwnBroadcast ==
  ASSUME FieldKinds, FieldKinds', NEW c \in BrokerClient, NEW f \in Field, OwnAt(c, f), OnBroadcast(c)
  PROVE  OwnAt(c, f)'
<1>. DEFINE a == answers[c]  ack == [type |-> "Ack", of |-> a[1].of]
<1>1. /\ a # <<>> /\ a[1].type = "Broadcast" /\ answers'[c] = Tail(a) /\ 1 \in DOMAIN a
      /\ resolved' = resolved /\ known'[c] = a[1].fields /\ UNCHANGED <<living, store, asked, handling>>
  BY TakeEffect, Messages DEF OnBroadcast, fieldServerVars
<1>2. a \in Seq(AnyAnswer) /\ requests[c] \in Seq(AnyRequest) /\ a[1] \in AnyAnswer
  BY <1>1, Messages
<1>3. Wants(c, f)' => Wants(c, f)
  <2>1. requests'[c] = Append(requests[c], ack)
    BY <1>1, Messages DEF OnBroadcast, FieldKinds
  <2>2. ack \in AnyRequest /\ ack.type = "Ack"
    BY <1>1, <1>2 DEF AnyRequest, AnyAnswer, FieldAnswer, AllAnswer, Ack
  <2>. HIDE DEF ack
  <2>3. Silent(requests'[c], f) => Silent(requests[c], f)
    BY <1>2, <2>1, <2>2, AsksElse
  <2>. QED
    BY <1>1, <2>3 DEF Wants
<1>4. ASSUME KnowsOwn(c, f) PROVE KnowsOwn(c, f)'
  <2>1. f \in a[1].fields
    BY <1>1, <1>4 DEF KnowsOwn, Have
  <2>2. Have(Tail(a), f, 1)
    BY <1>1, <1>2, <1>4, HaveTail DEF KnowsOwn
  <2>. QED
    BY <1>1, <1>4, <2>1, <2>2 DEF KnowsOwn
<1>5. ASSUME NEW q \in Publication, Awaits(c, f, q) PROVE Awaits(c, f, q)'
  <2>1. PublisherOf[q] = c /\ f \in asked'[q] /\ Behind(c, f, q)
    BY <1>1, <1>5 DEF Awaits
  <2>2. CASE q \in handling
    BY <1>1, <2>1, <2>2 DEF Awaits, Behind
  <2>3. ASSUME NEW i \in Nat, Replied(q, i), Have(a, f, i) PROVE Awaits(c, f, q)'
    <3>1. i \in DOMAIN a /\ a[i].type = "Reply" /\ a[i].of = q /\ i # 1
      BY <1>1, <2>1, <2>3 DEF Replied
    <3>2. PICK j \in Nat : j + 1 = i /\ j \in DOMAIN Tail(a) /\ Tail(a)[j] = a[i]
      <4>1. Len(a) \in Nat /\ i \in 1 .. Len(a) /\ Len(Tail(a)) = Len(a) - 1
            /\ \A k \in 1 .. Len(a) - 1 : Tail(a)[k] = a[k + 1]
        BY <1>1, <1>2, <3>1, Shifted
      <4>2. i - 1 \in Nat /\ i - 1 \in 1 .. Len(a) - 1 /\ (i - 1) + 1 = i
        BY <3>1, <4>1
      <4>3. DOMAIN Tail(a) = 1 .. Len(a) - 1
        BY <1>1, <1>2, <4>1
      <4>. QED
        BY <4>1, <4>2, <4>3
    <3>3. Replied(q, j)'
      BY <1>1, <2>1, <3>1, <3>2 DEF Replied
    <3>4. Have(Tail(a), f, j)
      BY <1>1, <1>2, <2>3, <3>2, HaveTail
    <3>. QED
      BY <1>1, <2>1, <3>3, <3>4 DEF Awaits, Behind
  <2>4. ASSUME NEW i \in Nat, Settled(q, i), Have(resolved[c], f, i), Have(a, f, 1) PROVE Awaits(c, f, q)'
    <3>1. Settled(q, i)' /\ Have(resolved'[c], f, i) /\ Have(answers'[c], f, 1)
      BY <1>1, <1>2, <2>4, HaveTail DEF Settled
    <3>. QED
      BY <2>1, <3>1 DEF Awaits, Behind
  <2>. QED
    BY <2>1, <2>2, <2>3, <2>4 DEF Behind
<1>. QED
  BY <1>3, <1>4, <1>5, OwnParts

(* An answer goes in front of its continuation.                            *)
LEMMA OwnReplied ==
  ASSUME FieldKinds, FieldKinds', NEW c \in BrokerClient, NEW f \in Field, OwnAt(c, f), OnReply(c)
  PROVE  OwnAt(c, f)'
<1>. DEFINE a == answers[c]  r == resolved[c]
<1>1. /\ a # <<>> /\ a[1].type = "Reply" /\ answers'[c] = Tail(a) /\ 1 \in DOMAIN a
      /\ resolved'[c] = Append(r, a[1]) /\ known' = known /\ UNCHANGED <<living, store, asked, handling, requests>>
  BY TakeEffect, Messages DEF OnReply, fieldServerVars
<1>2. a \in Seq(AnyAnswer) /\ r \in Seq(AnyAnswer) /\ a[1] \in AnyAnswer /\ Len(r) \in Nat
  BY <1>1, Messages
<1>3. Wants(c, f)' => Wants(c, f)
  BY <1>1 DEF Wants
<1>4. ASSUME Have(a, f, 1) PROVE Have(answers'[c], f, 1) /\ f \in a[1].fields
  <2>1. f \in a[1].fields
    BY <1>1, <1>4 DEF Have
  <2>. QED
    BY <1>1, <1>2, <1>4, <2>1, HaveTail
<1>5. ASSUME Have(a, f, 1), NEW k \in Nat, Have(r, f, k) PROVE Have(resolved'[c], f, k)
  BY <1>1, <1>2, <1>4, <1>5, HaveAppend
<1>6. ASSUME KnowsOwn(c, f) PROVE KnowsOwn(c, f)'
  BY <1>1, <1>4, <1>5, <1>6 DEF KnowsOwn
<1>7. ASSUME NEW q \in Publication, Awaits(c, f, q) PROVE Awaits(c, f, q)'
  <2>1. PublisherOf[q] = c /\ f \in asked'[q] /\ Behind(c, f, q)
    BY <1>1, <1>7 DEF Awaits
  <2>2. CASE q \in handling
    BY <1>1, <2>1, <2>2 DEF Awaits, Behind
  <2>3. ASSUME NEW i \in Nat, Replied(q, i), Have(a, f, i), i # 1 PROVE Awaits(c, f, q)'
    <3>1. i \in DOMAIN a /\ a[i].type = "Reply" /\ a[i].of = q /\ i # 1
      BY <1>1, <2>1, <2>3 DEF Replied
    <3>2. PICK j \in Nat : j + 1 = i /\ j \in DOMAIN Tail(a) /\ Tail(a)[j] = a[i]
      <4>1. Len(a) \in Nat /\ i \in 1 .. Len(a) /\ Len(Tail(a)) = Len(a) - 1
            /\ \A k \in 1 .. Len(a) - 1 : Tail(a)[k] = a[k + 1]
        BY <1>1, <1>2, <3>1, Shifted
      <4>2. i - 1 \in Nat /\ i - 1 \in 1 .. Len(a) - 1 /\ (i - 1) + 1 = i
        BY <3>1, <4>1
      <4>3. DOMAIN Tail(a) = 1 .. Len(a) - 1
        BY <1>1, <1>2, <4>1
      <4>. QED
        BY <4>1, <4>2, <4>3
    <3>3. Replied(q, j)'
      BY <1>1, <2>1, <3>1, <3>2 DEF Replied
    <3>4. Have(Tail(a), f, j)
      BY <1>1, <1>2, <2>3, <3>2, HaveTail
    <3>. QED
      BY <1>1, <2>1, <3>3, <3>4 DEF Awaits, Behind
  <2>4. ASSUME Replied(q, 1), Have(a, f, 1) PROVE Awaits(c, f, q)'
    <3>1. a[1].of = q /\ Len(r) + 1 \in Nat
      BY <1>2, <2>1, <2>4 DEF Replied
    <3>2. Len(r) + 1 \in DOMAIN resolved'[c] /\ resolved'[c][Len(r) + 1] = a[1]
      BY <1>1, <1>2, Appended
    <3>3. \E n \in Nat : n = Len(r) + 1 /\ Settled(q, n)'
      BY <2>1, <3>1, <3>2 DEF Settled
    <3>4. Have(resolved'[c], f, Len(r) + 1)
      BY <1>1, <1>2, <1>4, <2>4, HaveAppend
    <3>. QED
      BY <1>4, <2>1, <2>4, <3>3, <3>4 DEF Awaits, Behind
  <2>5. ASSUME NEW i \in Nat, Settled(q, i), Have(r, f, i), Have(a, f, 1) PROVE Awaits(c, f, q)'
    <3>1. i \in DOMAIN r /\ r[i].of = q
      BY <2>1, <2>5 DEF Settled
    <3>2. i \in DOMAIN resolved'[c] /\ resolved'[c][i] = r[i]
      BY <1>1, <1>2, <3>1, Appended
    <3>3. Settled(q, i)'
      BY <2>1, <3>1, <3>2 DEF Settled
    <3>. QED
      BY <1>4, <1>5, <2>1, <2>5, <3>3 DEF Awaits, Behind
  <2>. QED
    BY <2>1, <2>2, <2>3, <2>4, <2>5 DEF Behind
<1>. QED
  BY <1>3, <1>6, <1>7, OwnParts

(* A continuation stores the answer, however old it is.                    *)
LEMMA OwnContinued ==
  ASSUME FieldKinds, FieldKinds', NEW c \in BrokerClient, NEW f \in Field, OwnAt(c, f), Continue(c),
         \A p \in Publication : RequestAt(p), NamedAt(c)
  PROVE  OwnAt(c, f)'
<1>. DEFINE r == resolved[c]
<1>1. /\ r # <<>> /\ resolved'[c] = Tail(r) /\ 1 \in DOMAIN r
      /\ known'[c] = (IF r[1].named THEN r[1].fields ELSE known[c])
      /\ UNCHANGED <<living, store, handling, requests, answers>>
  BY TakeEffect, Messages DEF Continue, fieldServerVars
<1>2. r \in Seq(AnyAnswer)
  BY Messages
<1>3. Wants(c, f)' => Wants(c, f)
  BY <1>1 DEF Wants
<1>4. f \in r[1].fields => r[1].named
  BY <1>1 DEF NamedAt
<1>5. ASSUME KnowsOwn(c, f) PROVE KnowsOwn(c, f)'
  <2>1. Have(Tail(r), f, 1)
    BY <1>1, <1>2, <1>5, HaveTail DEF KnowsOwn
  <2>2. f \in r[1].fields
    BY <1>1, <1>5 DEF KnowsOwn, Have
  <2>. QED
    BY <1>1, <1>5, <2>1, <2>2 DEF KnowsOwn
<1>6. ASSUME NEW q \in Publication, r[1].of # q PROVE asked'[q] = asked[q]
  <2>1. Head(r) = r[1]
    BY <1>1, Messages
  <2>. QED
    BY <1>6, <2>1 DEF Continue, Settle, FieldKinds
<1>7. ASSUME NEW q \in Publication, Awaits(c, f, q), r[1].of # q PROVE Awaits(c, f, q)'
  <2>1. PublisherOf[q] = c /\ f \in asked'[q] /\ Behind(c, f, q)
    BY <1>6, <1>7 DEF Awaits
  <2>2. CASE q \in handling
    BY <1>1, <2>1, <2>2 DEF Awaits, Behind
  <2>3. ASSUME NEW i \in Nat, Replied(q, i), Have(answers[c], f, i) PROVE Awaits(c, f, q)'
    <3>1. Replied(q, i)'
      BY <1>1, <2>3 DEF Replied
    <3>. QED
      BY <1>1, <2>1, <2>3, <3>1 DEF Awaits, Behind
  <2>4. ASSUME NEW i \in Nat, Settled(q, i), Have(r, f, i), Have(answers[c], f, 1) PROVE Awaits(c, f, q)'
    <3>1. i \in DOMAIN r /\ r[i].of = q /\ i # 1
      BY <1>7, <2>1, <2>4 DEF Settled
    <3>2. PICK j \in Nat : j + 1 = i /\ j \in DOMAIN Tail(r) /\ Tail(r)[j] = r[i]
      <4>1. Len(r) \in Nat /\ i \in 1 .. Len(r) /\ Len(Tail(r)) = Len(r) - 1
            /\ \A k \in 1 .. Len(r) - 1 : Tail(r)[k] = r[k + 1]
        BY <1>1, <1>2, <3>1, Shifted
      <4>2. i - 1 \in Nat /\ i - 1 \in 1 .. Len(r) - 1 /\ (i - 1) + 1 = i
        BY <3>1, <4>1
      <4>3. DOMAIN Tail(r) = 1 .. Len(r) - 1
        BY <1>1, <1>2, <4>1
      <4>. QED
        BY <4>1, <4>2, <4>3
    <3>3. Settled(q, j)'
      BY <1>1, <2>1, <3>1, <3>2 DEF Settled
    <3>4. Have(Tail(r), f, j)
      BY <1>1, <1>2, <2>4, <3>2, HaveTail
    <3>. QED
      BY <1>1, <2>1, <2>4, <3>3, <3>4 DEF Awaits, Behind
  <2>. QED
    BY <2>1, <2>2, <2>3, <2>4 DEF Behind
<1>8. ASSUME NEW q \in Publication, Awaits(c, f, q), r[1].of = q PROVE KnowsOwn(c, f)'
  <2>1. PublisherOf[q] = c /\ Behind(c, f, q) /\ Settled(q, 1) /\ Once(q)
    BY <1>1, <1>8 DEF Awaits, Settled, RequestAt
  <2>2. q \notin handling /\ \A i \in Nat : ~ Replied(q, i) /\ (Settled(q, i) => i = 1)
    BY <2>1 DEF Once
  <2>3. Have(r, f, 1) /\ Have(answers[c], f, 1)
    BY <2>1, <2>2 DEF Behind
  <2>4. f \in r[1].fields /\ Have(Tail(r), f, 1)
    <3>1. f \in r[1].fields
      BY <1>1, <2>3 DEF Have
    <3>. QED
      BY <1>1, <1>2, <2>3, <3>1, HaveTail
  <2>. QED
    BY <1>1, <1>4, <2>3, <2>4 DEF KnowsOwn
<1>. QED
  BY <1>3, <1>5, <1>7, <1>8, OwnParts

(* Where the client subscribes or unsubscribes.                            *)
LEMMA OwnAsked ==
  ASSUME EntityFieldsAssumption, FieldKinds, FieldKinds', NEW c \in BrokerClient, NEW f \in Field, OwnAt(c, f),
         NEW p \in Publication, PublishEntityFields(p) \/ UnsubscribeEntityFields(p), RequestAt(p)
  PROVE  OwnAt(c, f)'
<1>1. /\ \A d \in BrokerClient : d # PublisherOf[p] => store'[d] = store[d] /\ requests'[d] = requests[d]
      /\ \A q \in Publication : q # p => asked'[q] = asked[q]
      /\ UNCHANGED <<fieldServerVars, living, known, resolved, answers>>
  BY OthersKeep
<1>2. asked[p] = {}
  <2>1. progress[p] \in {"new", "active"}
    BY DEF PublishEntityFields, UnsubscribeEntityFields
  <2>. QED
    BY <2>1 DEF RequestAt
<1>3. \A q \in Publication : f \in asked[q] => f \in asked'[q]
  BY <1>1, <1>2
<1>4. requests[c] \in Seq(AnyRequest) /\ store[c][f] \in Nat /\ f \in Field
  BY DEF FieldKinds
<1>5. CASE c # PublisherOf[p]
  <2>1. Wants(c, f)' => Wants(c, f)
    BY <1>1, <1>5 DEF Wants
  <2>. QED
    BY <1>1, <1>3, <2>1, OwnKept DEF fieldServerVars
<1>6. CASE c = PublisherOf[p] /\ PublishEntityFields(p)
  <2>. DEFINE m == Publishes(p)
  <2>1. /\ \A g \in FieldsOf[p] : g \in New(p) <=> store[c][g] = 0
        /\ \A g \in Field : store'[c][g] = IF g \in FieldsOf[p] THEN store[c][g] + 1 ELSE store[c][g]
        /\ New(p) \subseteq FieldsOf[p]
        /\ (New(p) = {} /\ requests' = requests) \/ (m \in AnyRequest /\ requests' = [requests EXCEPT ![c] = Append(@, m)])
    BY <1>6, PublishEffect
  <2>2. m.type = "Publish" /\ m.fields = New(p)
    BY DEF Publishes
  <2>. HIDE DEF m
  <2>3. (requests'[c] = requests[c] /\ New(p) = {}) \/ (m \in AnyRequest /\ requests'[c] = Append(requests[c], m))
    BY <2>1 DEF FieldKinds
  <2>4. Silent(requests'[c], f) => f \notin New(p) /\ Silent(requests[c], f)
    <3>1. CASE requests'[c] = requests[c] /\ New(p) = {}
      BY <3>1
    <3>2. CASE m \in AnyRequest /\ requests'[c] = Append(requests[c], m) /\ f \in New(p)
      BY <1>4, <2>2, <3>2, AsksThis
    <3>3. CASE m \in AnyRequest /\ requests'[c] = Append(requests[c], m) /\ f \notin New(p)
      BY <1>4, <2>2, <3>3, AsksElse
    <3>. QED
      BY <2>3, <3>1, <3>2, <3>3
  <2>5. f \notin New(p) /\ store'[c][f] > 0 => store[c][f] > 0
    BY <1>4, <2>1
  <2>6. Wants(c, f)' => Wants(c, f)
    BY <1>1, <2>4, <2>5 DEF Wants
  <2>. QED
    BY <1>1, <1>3, <2>6, OwnKept DEF fieldServerVars
<1>7. CASE c = PublisherOf[p] /\ UnsubscribeEntityFields(p)
  <2>. DEFINE m == Leaves(p)
  <2>1. /\ \A g \in FieldsOf[p] : g \in Last(p) <=> store[c][g] = 1
        /\ \A g \in Field : store'[c][g] = IF g \in FieldsOf[p] THEN store[c][g] - 1 ELSE store[c][g]
        /\ Last(p) \subseteq FieldsOf[p]
        /\ (Last(p) = {} /\ requests' = requests) \/ (m \in AnyRequest /\ requests' = [requests EXCEPT ![c] = Append(@, m)])
    BY <1>7, UnsubscribeEffect
  <2>2. m.type = "Unsubscribe" /\ m.fields = Last(p)
    BY DEF Leaves
  <2>. HIDE DEF m
  <2>3. (requests'[c] = requests[c] /\ Last(p) = {}) \/ (m \in AnyRequest /\ requests'[c] = Append(requests[c], m))
    BY <2>1 DEF FieldKinds
  <2>4. Silent(requests'[c], f) => Silent(requests[c], f)
    <3>1. CASE requests'[c] = requests[c]
      BY <3>1
    <3>2. CASE m \in AnyRequest /\ requests'[c] = Append(requests[c], m) /\ f \in Last(p)
      BY <1>4, <2>2, <3>2, AsksThis
    <3>3. CASE m \in AnyRequest /\ requests'[c] = Append(requests[c], m) /\ f \notin Last(p)
      BY <1>4, <2>2, <3>3, AsksElse
    <3>. QED
      BY <2>3, <3>1, <3>2, <3>3
  <2>5. store'[c][f] > 0 => store[c][f] > 0
    BY <1>4, <2>1
  <2>6. Wants(c, f)' => Wants(c, f)
    BY <1>1, <2>4, <2>5 DEF Wants
  <2>. QED
    BY <1>1, <1>3, <2>6, OwnKept DEF fieldServerVars
<1>. QED
  BY <1>5, <1>6, <1>7

(* Where the server takes a request that names f.                          *)
LEMMA OwnHandled ==
  ASSUME EntityFieldsAssumption, FieldKinds, FieldKinds', NamedFields, NEW c \in BrokerClient, NEW f \in Field,
         MineAt(c), EndedAt(c), AlternateAt(c, f), \A p \in Publication : RequestAt(p), CountsAt(f)',
         HandleRequest(c), Names(requests[c], 1, f)
  PROVE  OwnAt(c, f)'
<1>. SUFFICES ASSUME Wants(c, f)' PROVE \E q \in Publication : Awaits(c, f, q)'
  BY OwnParts
<1>. DEFINE a == answers[c]  r == requests[c][1]
<1>1. r \in FieldRequest /\ UNCHANGED fieldClientVars
  BY HandleRequestEffect
<1>2. c \in living /\ store[c][f] > 0 /\ Silent(requests'[c], f) /\ store[c][f] \in Nat /\ UNCHANGED <<asked, living>>
  BY <1>1 DEF Wants, FieldKinds, fieldClientVars
<1>3. f \in r.fields
  BY DEF Names
<1>4. PICK q \in Publication : r.of = q
  BY <1>1 DEF FieldRequest
<1>5. /\ asked[q] = r.fields /\ PublisherOf[q] = c
      /\ \/ q \in handling'
         \/ c \in living /\ answers'[c] = Append(a, Word("Reply", q)) /\ \E n \in Nat : n = Len(a) + 1 /\ Replied(q, n)'
         \/ c \notin living
  BY <1>4, RequestHandled
<1>6. f \in EntityFields' /\ f \in asked'[q]
  <2>1. IsCounted(c, f)'
    BY DEF Wants, IsCounted
  <2>. QED
    BY <1>2, <1>3, <1>5, <2>1, CountedIsThere
<1>7. CASE q \in handling'
  BY <1>5, <1>6, <1>7 DEF Awaits, Behind
<1>8. ASSUME answers'[c] = Append(a, Word("Reply", q)), NEW n \in Nat, n = Len(a) + 1, Replied(q, n)'
      PROVE  \E p \in Publication : Awaits(c, f, p)'
  <2>1. Word("Reply", q) \in AnyAnswer /\ f \in Word("Reply", q).fields
    BY <1>6, FieldsEffect DEF Word
  <2>2. a \in Seq(AnyAnswer)
    BY DEF FieldKinds
  <2>3. Have(answers'[c], f, n)
    BY <1>8, <2>1, <2>2, HaveAppend
  <2>4. Awaits(c, f, q)'
    BY <1>5, <1>6, <1>8, <2>3 DEF Awaits, Behind
  <2>. QED
    BY <2>4
<1>. QED
  BY <1>2, <1>5, <1>7, <1>8

(* Where the server does something else.                                   *)
LEMMA OwnServed ==
  ASSUME EntityFieldsAssumption, FieldKinds, FieldKinds', NamedFields, NEW c \in BrokerClient, NEW f \in Field, OwnAt(c, f),
         \A d \in BrokerClient : MineAt(d) /\ EndedAt(d), \A p \in Publication : RequestAt(p), CountsAt(f)',
         ~ (HandleRequest(c) /\ Names(requests[c], 1, f)),
         (\E d \in BrokerClient : HandleRequest(d) \/ HandleAll(d) \/ HandleAck(d)) \/ (\E p \in Publication : Reply(p))
  PROVE  OwnAt(c, f)'
<1>1. \E T, type, q : ServerSends(T, type, q)
  BY ServerStep
<1>2. requests[c] \in Seq(AnyRequest)
  BY DEF FieldKinds
<1>3. Silent(requests'[c], f) => Silent(requests[c], f)
  <2>1. ASSUME NEW d \in BrokerClient, requests[d] # <<>>, requests' = [requests EXCEPT ![d] = Tail(@)],
               d = c => ~ Names(requests[c], 1, f)
        PROVE  Silent(requests'[c], f) => Silent(requests[c], f)
    <3>1. requests'[c] = IF d = c THEN Tail(requests[c]) ELSE requests[c]
      BY <2>1 DEF FieldKinds
    <3>2. CASE d = c
      BY <1>2, <2>1, <3>1, <3>2, TakesElse
    <3>. QED
      BY <3>1, <3>2
  <2>2. ASSUME NEW d \in BrokerClient, HandleRequest(d) PROVE Silent(requests'[c], f) => Silent(requests[c], f)
    BY <2>1, <2>2, HandleRequestEffect
  <2>3. ASSUME NEW d \in BrokerClient, HandleAll(d) PROVE Silent(requests'[c], f) => Silent(requests[c], f)
    <3>1. ~ Names(requests[d], 1, f)
      BY <2>3, HandleAllEffect DEF Names
    <3>. QED
      BY <2>1, <2>3, <3>1, HandleAllEffect
  <2>4. ASSUME NEW d \in BrokerClient, HandleAck(d) PROVE Silent(requests'[c], f) => Silent(requests[c], f)
    <3>1. requests[d] # <<>> /\ requests' = [requests EXCEPT ![d] = Tail(@)] /\ requests[d][1].type = "Ack"
      BY <2>4, Messages DEF HandleAck, Received
    <3>2. ~ Names(requests[d], 1, f)
      BY <3>1 DEF Names
    <3>. QED
      BY <2>1, <3>1, <3>2
  <2>5. ASSUME NEW p \in Publication, Reply(p) PROVE Silent(requests'[c], f) => Silent(requests[c], f)
    BY <2>5, ReplyEffect
  <2>. QED
    BY <2>2, <2>3, <2>4, <2>5
<1>4. Wants(c, f)' => Wants(c, f) /\ f \in EntityFields'
  <2>1. UNCHANGED <<living, store>>
    BY <1>1 DEF ServerSends, fieldClientVars
  <2>2. Wants(c, f)' => IsCounted(c, f)'
    BY DEF Wants, IsCounted
  <2>. QED
    BY <1>3, <2>1, <2>2, CountedIsThere DEF Wants
<1>5. ASSUME NEW q \in handling, PublisherOf[q] = c, c \in living
      PROVE  q \in handling' \/ \E n \in Nat : n = Len(answers[c]) + 1 /\ Replied(q, n)'
  <2>1. q \in Publication
    BY DEF FieldKinds
  <2>2. CASE \E d \in BrokerClient : HandleRequest(d)
    BY <2>2, HandleRequestEffect
  <2>3. CASE \E d \in BrokerClient : HandleAll(d) \/ HandleAck(d)
    BY <2>3 DEF HandleAll, HandleAck, fieldServerVars
  <2>4. ASSUME NEW p \in Publication, Reply(p), p # q PROVE q \in handling'
    BY <2>4, ReplyEffect
  <2>5. CASE Reply(q)
    BY <1>5, <2>1, <2>5, RequestAnswered
  <2>. QED
    BY <2>2, <2>3, <2>4, <2>5
<1>. QED
  BY <1>1, <1>4, <1>5, OwnSent

(* What a client has published it knows, or it will with its own answer.   *)
LEMMA OwnStep ==
  ASSUME EntityFieldsAssumption, FieldKinds, FieldKinds', NamedFields, FieldsNext,
         \A d \in BrokerClient : MineAt(d) /\ EndedAt(d) /\ NamedAt(d), \A p \in Publication : RequestAt(p),
         NEW c \in BrokerClient, NEW f \in Field, AlternateAt(c, f), CountsAt(f)', OwnAt(c, f)
  PROVE  OwnAt(c, f)'
<1>1. CASE HandleRequest(c) /\ Names(requests[c], 1, f)
  BY <1>1, OwnHandled
<1>2. CASE /\ (\E d \in BrokerClient : HandleRequest(d) \/ HandleAll(d) \/ HandleAck(d)) \/ (\E p \in Publication : Reply(p))
           /\ ~ (HandleRequest(c) /\ Names(requests[c], 1, f))
  BY <1>2, OwnServed
<1>3. ASSUME NEW p \in Publication, PublishEntityFields(p) \/ UnsubscribeEntityFields(p) PROVE OwnAt(c, f)'
  BY <1>3, OwnAsked
<1>4. CASE OnBroadcast(c) \/ OnReply(c) \/ Continue(c)
  BY <1>4, OwnBroadcast, OwnReplied, OwnContinued
<1>5. ASSUME NEW d \in BrokerClient, Connect(d) \/ CloseFields(d) PROVE OwnAt(c, f)'
  <2>1. UNCHANGED <<fieldClientVars, answers, handling>>
    BY <1>5 DEF Connect, CloseFields
  <2>2. Wants(c, f)' => Wants(c, f)
    <3>1. c \in living => requests'[c] = requests[c]
      BY <1>5 DEF Connect, CloseFields, FieldKinds
    <3>. QED
      BY <2>1, <3>1 DEF Wants, fieldClientVars
  <2>. QED
    BY <2>1, <2>2, OwnKept DEF fieldClientVars
<1>6. ASSUME NEW d \in BrokerClient, GetEntityFields(d) PROVE OwnAt(c, f)'
  <2>. DEFINE m == [type |-> "All"]
  <2>1. UNCHANGED <<fieldServerVars, living, store, known, asked, resolved, answers>>
        /\ requests' = [requests EXCEPT ![d] = Append(@, m)]
    BY <1>6 DEF GetEntityFields, SendsRequest
  <2>2. m \in AnyRequest /\ m.type = "All" /\ requests[c] \in Seq(AnyRequest)
    BY DEF AnyRequest, All, FieldKinds
  <2>. HIDE DEF m
  <2>3. requests'[c] = requests[c] \/ requests'[c] = Append(requests[c], m)
    BY <2>1 DEF FieldKinds
  <2>4. Silent(requests'[c], f) => Silent(requests[c], f)
    BY <2>2, <2>3, AsksElse
  <2>5. Wants(c, f)' => Wants(c, f)
    BY <2>1, <2>4 DEF Wants
  <2>. QED
    BY <2>1, <2>5, OwnKept DEF fieldServerVars
<1>7. ASSUME NEW d \in BrokerClient, d # c, ClientDies(d) \/ OnBroadcast(d) \/ OnReply(d) \/ Continue(d) PROVE OwnAt(c, f)'
  <2>1. /\ answers'[c] = answers[c] /\ resolved'[c] = resolved[c] /\ known'[c] = known[c] /\ store'[c] = store[c]
        /\ c \in living' <=> c \in living
    BY <1>7, TakeEffect
  <2>2. handling' = handling /\ requests'[c] = requests[c]
    <3>1. CASE ClientDies(d) \/ OnReply(d) \/ Continue(d)
      BY <3>1 DEF ClientDies, OnReply, Continue, fieldServerVars
    <3>2. CASE OnBroadcast(d)
      BY <1>7, <3>2 DEF OnBroadcast, fieldServerVars, FieldKinds
    <3>. QED
      BY <1>7, <3>1, <3>2
  <2>3. Wants(c, f)' => Wants(c, f)
    BY <2>1, <2>2 DEF Wants
  <2>4. CASE ClientDies(d) \/ OnBroadcast(d) \/ OnReply(d)
    <3>1. asked' = asked
      BY <2>4 DEF ClientDies, OnBroadcast, OnReply
    <3>. QED
      BY <2>1, <2>2, <2>3, <3>1, OwnKept
  <2>5. CASE Continue(d)
    <3>. SUFFICES ASSUME Wants(c, f)' PROVE KnowsOwn(c, f)' \/ \E q \in Publication : Awaits(c, f, q)'
      BY OwnParts
    <3>1. CASE KnowsOwn(c, f)
      BY <2>1, <3>1 DEF KnowsOwn
    <3>2. ASSUME NEW q \in Publication, Awaits(c, f, q) PROVE Awaits(c, f, q)'
      <4>1. PublisherOf[q] = c /\ f \in asked[q] /\ Behind(c, f, q)
        BY <3>2 DEF Awaits
      <4>2. resolved[d] # <<>> /\ Head(resolved[d]) = resolved[d][1] /\ 1 \in DOMAIN resolved[d]
        BY <2>5, Messages DEF Continue
      <4>3. Head(resolved[d]).of # q
        <5>1. resolved[d][1] \in OwnReply(d)
          BY <4>2 DEF MineAt
        <5>. QED
          BY <1>7, <4>1, <4>2, <5>1 DEF OwnReply, OwnAnswer, EntityFieldsAssumption
      <4>4. asked'[q] = asked[q]
        BY <2>5, <4>3 DEF Continue, Settle, FieldKinds
      <4>5. \A i : (Replied(q, i) => Replied(q, i)') /\ (Settled(q, i) => Settled(q, i)')
        BY <2>1, <4>1 DEF Replied, Settled
      <4>6. Behind(c, f, q)'
        BY <2>1, <2>2, <4>1, <4>5 DEF Behind
      <4>. QED
        BY <4>1, <4>4, <4>6 DEF Awaits
    <3>. QED
      BY <2>3, <3>1, <3>2, OwnParts
  <2>. QED
    BY <1>7, <2>4, <2>5
<1>8. CASE ClientDies(c)
  <2>1. c \notin living'
    BY <1>8, TakeEffect
  <2>. QED
    BY <2>1 DEF OwnAt
<1>. QED
  BY <1>1, <1>2, <1>3, <1>4, <1>5, <1>6, <1>7, <1>8 DEF FieldsNext

(* RequestsAlternate, client by client and field by field.                 *)
LEMMA AlternatesAt ==
  /\ RequestsAlternate <=> \A c \in BrokerClient, f \in Field : AlternateAt(c, f)
  /\ RequestsAlternate' <=> \A c \in BrokerClient, f \in Field : AlternateAt(c, f)'
BY DEF RequestsAlternate, AlternateAt

(* The initial states satisfy the invariant.                               *)
LEMMA FieldsInitInv ==
  ASSUME EntityFieldsAssumption, FieldsInit
  PROVE  FieldsInv
<1>1. FieldKinds
  BY EmptySeq DEF FieldsInit, FieldKinds
<1>2. \A c \in BrokerClient : requests[c] = <<>> /\ answers[c] = <<>> /\ resolved[c] = <<>>
  BY DEF FieldsInit
<1>. DEFINE none == <<>>
<1>3. DOMAIN none = {} /\ none \in Seq({}) /\ \A S : none \in Seq(S)
  BY EmptySeq
<1>4. ASSUME NEW c \in BrokerClient PROVE EndedAt(c) /\ StoreAt(c) /\ MineAt(c) /\ NamedAt(c) /\ FollowsAt(c)
  <2>1. EndedAt(c) /\ MineAt(c)
    BY <1>2, <1>3 DEF EndedAt, MineAt, FieldsInit
  <2>2. StoreAt(c)
    <3>1. ASSUME NEW f \in Field PROVE store[c][f] = Cardinality(Holders(c, f))
      <4>1. Holders(c, f) = {} /\ store[c][f] = 0
        BY DEF Holders, FieldsInit
      <4>. QED
        BY <4>1, FS_EmptySet
    <3>. QED
      BY <3>1 DEF StoreAt
  <2>3. NamedAt(c)
    BY <1>2, <1>3 DEF NamedAt, FieldsInit
  <2>4. FollowsAt(c)
    BY <1>2 DEF FollowsAt, FieldsInit
  <2>. QED
    BY <2>1, <2>2, <2>3, <2>4
<1>5. ASSUME NEW p \in Publication PROVE RequestAt(p)
  <2>1. \A i : ~ Requested(p, i) /\ ~ Replied(p, i) /\ ~ Settled(p, i)
    BY <1>2, <1>3 DEF Requested, Replied, Settled, EntityFieldsAssumption
  <2>2. asked[p] = {} /\ p \notin handling
    BY DEF FieldsInit
  <2>. QED
    BY <2>1, <2>2 DEF RequestAt, Once, UnderWay
<1>6. ASSUME NEW c \in BrokerClient, NEW f \in Field PROVE AlternateAt(c, f) /\ OwnAt(c, f) /\ ~ IsCounted(c, f)
  <2>1. store[c][f] = 0
    BY DEF FieldsInit
  <2>2. \A t : ~ LastAsks(requests[c], t, f) /\ ~ FirstAsks(requests[c], t, f)
    BY <1>2, <1>3 DEF LastAsks, FirstAsks
  <2>. QED
    BY <1>2, <1>3, <2>1, <2>2 DEF AlternateAt, Alternating, OwnAt, IsCounted
<1>7. ASSUME NEW f \in Field PROVE CountsAt(f)
  <2>1. counts[f] = 0
    BY DEF FieldsInit
  <2>2. Counted(f) = {}
    BY <1>6 DEF Counted
  <2>3. Cardinality(Counted(f)) = 0 /\ Cardinality(Countable(f)) \in Nat
    BY <2>2, FS_EmptySet, CountedFinite
  <2>. QED
    BY <2>1, <2>3 DEF CountsAt, Counted, Countable
<1>8. NamedFields
  BY DEF NamedFields, FieldsInit
<1>. QED
  BY <1>1, <1>4, <1>5, <1>6, <1>7, <1>8, AlternatesAt DEF FieldsInv

(* An entity with fields that are counted has an entry.                    *)
LEMMA NamedFieldsStep ==
  ASSUME EntityFieldsAssumption, FieldKinds, FieldKinds', NamedFields, FieldsNext,
         \A c \in BrokerClient : MineAt(c) /\ EndedAt(c)
  PROVE  NamedFields'
<1>1. CASE ~ (\E c \in BrokerClient : HandleRequest(c) \/ HandleAll(c) \/ HandleAck(c)) /\ ~ (\E p \in Publication : Reply(p))
  <2>1. UNCHANGED <<counts, named>>
    BY <1>1, QuietStep
  <2>. QED
    BY <2>1 DEF NamedFields
<1>. QED
  BY <1>1, ServerStep

(* Every step preserves the invariant,                                     *)
LEMMA FieldsInvStep ==
  ASSUME EntityFieldsAssumption, FieldsInv, FieldsNext
  PROVE  FieldsInv'
<1>1. /\ FieldKinds /\ NamedFields /\ \A c \in BrokerClient, f \in Field : AlternateAt(c, f)
      /\ \A c \in BrokerClient : EndedAt(c) /\ StoreAt(c) /\ MineAt(c) /\ NamedAt(c) /\ FollowsAt(c)
      /\ \A p \in Publication : RequestAt(p)
      /\ \A f \in Field : CountsAt(f)
      /\ \A c \in BrokerClient, f \in Field : OwnAt(c, f)
  BY AlternatesAt DEF FieldsInv
<1>2. FieldKinds'
  BY <1>1, KindsStep
<1>3. NamedFields'
  BY <1>1, <1>2, NamedFieldsStep
<1>4. ASSUME NEW d \in BrokerClient PROVE EndedAt(d)' /\ StoreAt(d)' /\ MineAt(d)' /\ NamedAt(d)' /\ FollowsAt(d)'
  <2>1. EndedAt(d)'
    BY <1>1, EndedStep
  <2>2. StoreAt(d)'
    BY <1>1, <1>2, StoreStep
  <2>3. MineAt(d)'
    BY <1>1, <1>2, MineStep
  <2>4. NamedAt(d)'
    BY <1>1, <1>2, NamesStep
  <2>5. FollowsAt(d)'
    BY <1>1, <1>2, FollowsStep
  <2>. QED
    BY <2>1, <2>2, <2>3, <2>4, <2>5
<1>5. ASSUME NEW p \in Publication PROVE RequestAt(p)'
  BY <1>1, <1>2, RequestStep
<1>6. ASSUME NEW f \in Field PROVE CountsAt(f)' /\ \A c \in BrokerClient : AlternateAt(c, f)'
  BY <1>1, <1>2, CountsStep
<1>7. ASSUME NEW c \in BrokerClient, NEW f \in Field PROVE OwnAt(c, f)'
  <2>1. CountsAt(f)'
    BY <1>6
  <2>. QED
    BY <1>1, <1>2, <2>1, OwnStep
<1>8. RequestsAlternate'
  BY <1>6, AlternatesAt
<1>. QED
  BY <1>2, <1>3, <1>4, <1>5, <1>6, <1>7, <1>8 DEF FieldsInv

(* and so do stuttering steps.                                             *)
LEMMA FieldsInvStutter ==
  ASSUME FieldsInv, UNCHANGED fieldVars
  PROVE  FieldsInv'
<1>. USE DEF fieldVars, fieldServerVars, fieldClientVars
<1>1. FieldKinds'
  BY DEF FieldsInv, FieldKinds
<1>2. \A c \in BrokerClient : EndedAt(c)' /\ StoreAt(c)' /\ MineAt(c)' /\ NamedAt(c)' /\ FollowsAt(c)'
  BY DEF FieldsInv, EndedAt, StoreAt, Holders, MineAt, NamedAt, FollowsAt, EntityFields
<1>3. ASSUME NEW p \in Publication PROVE RequestAt(p)'
  <2>1. \A i : (Requested(p, i)' <=> Requested(p, i)) /\ (Replied(p, i)' <=> Replied(p, i)) /\ (Settled(p, i)' <=> Settled(p, i))
    BY DEF Requested, Replied, Settled
  <2>2. RequestAt(p)
    BY DEF FieldsInv
  <2>. QED
    BY <2>1, <2>2 DEF RequestAt, Once, UnderWay
<1>4. RequestsAlternate' /\ NamedFields'
  BY DEF FieldsInv, RequestsAlternate, NamedFields
<1>5. \A f \in Field : CountsAt(f)'
  BY DEF FieldsInv, CountsAt, IsCounted, MayCount
<1>6. ASSUME NEW c \in BrokerClient, NEW f \in Field PROVE OwnAt(c, f)'
  <2>1. OwnAt(c, f)
    BY DEF FieldsInv
  <2>2. Wants(c, f)' => Wants(c, f)
    BY DEF Wants
  <2>. QED
    BY <2>1, <2>2, OwnKept
<1>. QED
  BY <1>1, <1>2, <1>3, <1>4, <1>5, <1>6 DEF FieldsInv

(* FieldsInv is an invariant: for every finite set of clients and          *)
(* publications, whoever may die and whichever fields they share.          *)
THEOREM FieldsInvariance ==
  ASSUME EntityFieldsAssumption
  PROVE  FieldsSpec => []FieldsInv
<1>1. FieldsInit => FieldsInv
  BY FieldsInitInv
<1>2. FieldsInv /\ [FieldsNext]_fieldVars => FieldsInv'
  BY FieldsInvStep, FieldsInvStutter
<1>. QED
  BY <1>1, <1>2, PTL DEF FieldsSpec

(* The server counts clients (kernel.ts:182-217).                          *)
LEMMA CountsFromInv ==
  ASSUME EntityFieldsAssumption, FieldsInv
  PROVE  CountsAreClients /\ \A f \in Field : counts[f] \in 0 .. Cardinality(BrokerClient)
<1>. SUFFICES ASSUME NEW f \in Field
              PROVE  /\ counts[f] >= Cardinality({c \in living : IsCounted(c, f)})
                     /\ living = BrokerClient => counts[f] = Cardinality({c \in BrokerClient : IsCounted(c, f)})
                     /\ counts[f] \in 0 .. Cardinality(BrokerClient)
  BY DEF CountsAreClients
<1>. DEFINE alive == {c \in living : IsCounted(c, f)}
<1>1. counts[f] \in Nat /\ Cardinality(Counted(f)) <= counts[f] /\ counts[f] <= Cardinality(Countable(f))
      /\ living \subseteq BrokerClient
  BY DEF FieldsInv, CountsAt, Counted, Countable, FieldKinds
<1>2. IsFiniteSet(Counted(f)) /\ Cardinality(Counted(f)) \in Nat /\ Cardinality(Countable(f)) \in Nat
  BY CountedFinite
<1>3. counts[f] >= Cardinality(alive)
  <2>1. alive \subseteq Counted(f)
    BY <1>1 DEF Counted
  <2>2. Cardinality(alive) \in Nat /\ Cardinality(alive) <= Cardinality(Counted(f))
    BY <1>2, <2>1, FS_Subset, FS_CardinalityType
  <2>. QED
    BY <1>1, <1>2, <2>2
<1>4. ASSUME living = BrokerClient PROVE counts[f] = Cardinality(Counted(f))
  <2>1. Countable(f) = Counted(f)
    BY <1>4 DEF Countable, Counted, MayCount
  <2>. QED
    BY <1>1, <1>2, <2>1
<1>5. counts[f] <= Cardinality(BrokerClient) /\ Cardinality(BrokerClient) \in Nat
  <2>1. Countable(f) \subseteq BrokerClient /\ IsFiniteSet(BrokerClient)
    BY DEF Countable, EntityFieldsAssumption
  <2>2. Cardinality(Countable(f)) <= Cardinality(BrokerClient) /\ Cardinality(BrokerClient) \in Nat
    BY <2>1, FS_Subset, FS_CardinalityType
  <2>. QED
    BY <1>1, <1>2, <2>2
<1>. QED
  BY <1>1, <1>3, <1>4, <1>5 DEF Counted

(* A client with an active publication knows its fields (client.ts:172,    *)
(* 210).                                                                   *)
LEMMA OwnFromInv ==
  ASSUME EntityFieldsAssumption, FieldsInv
  PROVE  OwnFieldsAreKnown
<1>. SUFFICES ASSUME NEW p \in Publication, NEW f \in FieldsOf[p], progress[p] = "active", PublisherOf[p] \in living,
                     \A q \in Publication : PublisherOf[q] = PublisherOf[p] => f \notin asked[q]
              PROVE  f \in known[PublisherOf[p]]
  BY DEF OwnFieldsAreKnown
<1>. DEFINE c == PublisherOf[p]
<1>1. c \in BrokerClient /\ f \in Field
  BY DEF EntityFieldsAssumption
<1>2. OwnAt(c, f) /\ StoreAt(c) /\ MineAt(c) /\ FieldKinds
  BY <1>1 DEF FieldsInv
<1>3. store[c][f] > 0
  <2>1. p \in Holders(c, f)
    BY DEF Holders
  <2>2. Holders(c, f) # {} /\ store[c][f] = Cardinality(Holders(c, f))
    BY <1>1, <1>2, <2>1 DEF StoreAt
  <2>. QED
    BY <1>1, <2>2, HoldersAre
<1>4. Silent(requests[c], f)
  <2>. SUFFICES ASSUME NEW i \in DOMAIN requests[c], Names(requests[c], i, f) PROVE FALSE
    BY DEF Silent
  <2>1. requests[c][i] \in OwnRequest(c) /\ i \in Nat
    BY <1>2 DEF MineAt
  <2>2. PICK q : q = requests[c][i].of
    OBVIOUS
  <2>3. q \in Publication /\ PublisherOf[q] = c
    BY <2>1, <2>2 DEF OwnRequest, AnyRequest, FieldRequest, Ack, All, Names
  <2>4. Requested(q, i) /\ RequestAt(q)
    BY <2>2, <2>3 DEF Requested, Names, FieldsInv
  <2>5. f \in asked[q]
    BY <2>1, <2>3, <2>4 DEF RequestAt, Names
  <2>. QED
    BY <2>3, <2>5
<1>. QED
  BY <1>2, <1>3, <1>4 DEF OwnAt

(* The invariant implies what the runs check.                              *)
LEMMA FieldsInvHolds ==
  ASSUME EntityFieldsAssumption, FieldsInv
  PROVE  FieldsAgree
<1>1. CountsAreClients /\ \A f \in Field : counts[f] \in 0 .. Cardinality(BrokerClient)
  BY CountsFromInv
<1>2. FieldKinds
  BY DEF FieldsInv
<1>3. ASSUME NEW c \in BrokerClient, NEW f \in Field PROVE store[c][f] \in 0 .. Cardinality(Publication)
  <2>1. EndedAt(c) /\ StoreAt(c)
    BY DEF FieldsInv
  <2>2. store[c][f] = 0 \/ store[c][f] = Cardinality(Holders(c, f))
    BY <2>1 DEF EndedAt, StoreAt
  <2>3. Cardinality(Publication) \in Nat
    BY FS_CardinalityType DEF EntityFieldsAssumption
  <2>. QED
    BY <2>2, <2>3, HoldersAre
<1>4. counts \in [Field -> 0 .. Cardinality(BrokerClient)]
  BY <1>1, <1>2 DEF FieldKinds
<1>5. store \in [BrokerClient -> [Field -> 0 .. Cardinality(Publication)]]
  <2>1. ASSUME NEW c \in BrokerClient PROVE store[c] \in [Field -> 0 .. Cardinality(Publication)]
    <3>1. store[c] \in [Field -> Nat]
      BY <1>2 DEF FieldKinds
    <3>. QED
      BY <1>3, <3>1
  <2>2. store = [c \in BrokerClient |-> store[c]]
    BY <1>2 DEF FieldKinds
  <2>. QED
    BY <2>1, <2>2
<1>6. FieldsTypeOK
  <2>1. \A c \in BrokerClient :
          /\ \A i \in DOMAIN requests[c] : requests[c][i] \in FieldRequest \cup Ack \cup All
          /\ \A i \in DOMAIN answers[c] : answers[c][i] \in FieldAnswer \cup AllAnswer
          /\ \A i \in DOMAIN resolved[c] : resolved[c][i] \in FieldAnswer \cup AllAnswer
    BY <1>2, Messages DEF AnyRequest, AnyAnswer
  <2>. QED
    BY <1>2, <1>4, <1>5, <2>1 DEF FieldsTypeOK, FieldKinds
<1>7. RequestsAlternate
  BY DEF FieldsInv
<1>8. KnownIsCurrent
  BY <1>2 DEF FieldsInv, FollowsAt, KnownIsCurrent, FieldKinds
<1>. QED
  BY <1>1, <1>6, <1>7, <1>8, OwnFromInv DEF FieldsAgree

(* At every moment the counts of the server are those of its clients,      *)
(* requests go to and fro, clients know the fields of the server once      *)
(* nothing is on its way, and their own as soon as their request was       *)
(* answered.                                                               *)
THEOREM FieldsAreSafe ==
  ASSUME EntityFieldsAssumption
  PROVE  FieldsSpec => []FieldsAgree
BY FieldsInvariance, FieldsInvHolds, PTL
=============================================================================
