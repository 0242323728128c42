------------------------------ MODULE PoolsProofs ------------------------------
(***************************************************************************)
(* The safety of the two pools of connections, for every set of commands,  *)
(* hosts, sessions, rounds and queries, every limit and every batch size.  *)
(* Of the pool of the MongoDB client one part of the invariant says which  *)
(* connections are made and whose they are, the other counts them: what a  *)
(* host has beyond its first connection was made below the limit.  Of the  *)
(* SQL adapters the invariant says who holds the connection of a commit,   *)
(* and which rows the last insert on it has written.                       *)
(***************************************************************************)
EXTENDS MongoPool, SqlPersistence, FiniteSetTheorems, TLAPS

(***************************************************************************)
(* The pool of the MongoDB client.                                         *)
(***************************************************************************)

(* Connections are numbered as they are made; the others are untouched.    *)
MadeOnly ==
  \A k \in Connection :
    /\ k <= made <=> socket[k] # "none"
    /\ k <= made => hostOf[k] \in Host
    /\ k > made => current[k] = None /\ ~ idle[k]

(* A command is on a connection that was made; the connection it runs on   *)
(* has sent it and nothing since.                                          *)
Users ==
  /\ \A c \in Command : on[c] # None => on[c] <= made
  /\ \A c \in Command : pc[c] \in {"waiting", "running", "retrying"} => on[c] # None
  /\ \A k \in Connection : current[k] \in Command => pc[current[k]] = "running"

(* The first connection of a host is free, each other one was made below   *)
(* the limit.                                                              *)
HostsOf(ks) == {hostOf[k] : k \in ks}
Counted == Cardinality(Pool) <= Cardinality(HostsOf(Pool)) + (MaxPoolSize - 1)

Assigned == TypeOK /\ OneUser /\ MadeOnly /\ Users
PInv == Assigned /\ Counted

USE PoolAssumption

LEMMA PoolInit == Init => PInv
<1> SUFFICES ASSUME Init PROVE PInv
  OBVIOUS
<1>1. TypeOK
  BY DEF Init, TypeOK, Connection, PromiseState, SocketState, Place
<1>2. OneUser /\ MadeOnly /\ Users
  BY DEF Init, OneUser, MadeOnly, Users, Connection
<1>3. Pool = {} /\ HostsOf(Pool) = {}
  BY DEF Init, Pool, HostsOf
<1>4. Counted
  BY <1>3, FS_EmptySet DEF Counted
<1> QED BY <1>1, <1>2, <1>4 DEF PInv, Assigned

-----------------------------------------------------------------------------
(* Facts about the operators of the pool.                                  *)

(* A set of numbers that is not empty has a smallest one: the sets of      *)
(* those that are not above a member are well-founded by inclusion.        *)
LEMMA Smallest ==
  ASSUME NEW T, T \subseteq Nat, T # {}
  PROVE  \E x \in T : \A y \in T : x <= y
<1> DEFINE below == [x \in T |-> {y \in T : y <= x}]
           family == {below[x] : x \in T}
<1>1. \A x \in T : below[x] \in SUBSET Nat /\ IsFiniteSet(below[x])
  BY FS_BoundedSetOfNaturals
<1>2. family \subseteq FiniteSubsetsOf(Nat) /\ family # {}
  BY <1>1 DEF FiniteSubsetsOf
<1> HIDE DEF family
<1>3. \E u \in family : \A v \in family : <<v, u>> \notin StrictSubsetOrdering(Nat)
  BY <1>2, FS_StrictSubsetOrderingWellFounded, WFMin
<1>4. PICK x \in T : \A y \in T : <<below[y], below[x]>> \notin StrictSubsetOrdering(Nat)
  BY <1>3 DEF family
<1>5. ASSUME NEW y \in T, y < x PROVE FALSE
  <2>1. below[y] = {z \in T : z <= y} /\ below[x] = {z \in T : z <= x}
    OBVIOUS
  <2>2. below[y] \in SUBSET Nat /\ below[x] \in SUBSET Nat
    BY <1>1
  <2> HIDE DEF below
  <2>3. below[y] \subseteq below[x] /\ x \in below[x] /\ x \notin below[y]
    <3>1. x <= x /\ ~ (x <= y) /\ \A z \in T : z <= y => z <= x
      BY <1>5
    <3> QED BY <2>1, <3>1, Zenon
  <2>4. <<below[y], below[x]>> \in StrictSubsetOrdering(Nat)
    BY <2>2, <2>3, Zenon DEF StrictSubsetOrdering
  <2> QED BY <1>4, <2>4
<1> QED BY <1>5

(* getConnection() finds a connection, and it is a free one.               *)
LEMMA FirstFree ==
  ASSUME NEW c \in Command, Free(c) # {}
  PROVE  (CHOOSE k \in Free(c) : \A j \in Free(c) : k <= j) \in Free(c)
<1>1. Free(c) \subseteq Nat
  BY DEF Free, Pool, Connection
<1>2. \E k \in Free(c) : \A j \in Free(c) : k <= j
  BY <1>1, Smallest
<1> QED BY <1>2

(* newConnection() for the hosts hs: as many as they are, each of one.     *)
LEMMA NewEffect ==
  ASSUME PInv, NEW hs \in SUBSET Host, NewConnections(hs)
  PROVE  /\ Cardinality(hs) \in Nat /\ made' = made + Cardinality(hs)
         /\ made' \in 0 .. MaxConnections
         /\ hostOf' \in [Connection -> Host \union {None}]
         /\ socket' \in [Connection -> SocketState]
         /\ current' \in [Connection -> Command \union {Handshake, None}]
         /\ \A k \in Connection :
              IF k > made /\ k <= made'
              THEN hostOf'[k] \in hs /\ socket'[k] = "open" /\ current'[k] = Handshake
              ELSE hostOf'[k] = hostOf[k] /\ socket'[k] = socket[k] /\ current'[k] = current[k]
         /\ \A h \in hs : \E k \in made + 1 .. made' : hostOf'[k] = h
<1>1. TypeOK
  BY DEF PInv, Assigned
<1>2. Cardinality(hs) \in Nat
  BY FS_Subset, FS_CardinalityType
<1>3. made' = made + Cardinality(hs) /\ made' \in 0 .. MaxConnections
  BY <1>1, <1>2 DEF TypeOK, NewConnections
<1> DEFINE fresh == made + 1 .. made + Cardinality(hs)
<1>4. fresh \subseteq Connection
  BY <1>1, <1>2, <1>3 DEF TypeOK, Connection
<1>5. \A k \in Connection : k \in fresh <=> k > made /\ k <= made'
  BY <1>1, <1>2, <1>3 DEF TypeOK, Connection
<1>6. PICK host \in [fresh -> hs] :
        /\ \A h \in hs : \E k \in fresh : host[k] = h
        /\ hostOf' = [k \in Connection |-> IF k \in fresh THEN host[k] ELSE hostOf[k]]
  BY DEF NewConnections
<1>7. /\ socket' = [k \in Connection |-> IF k \in fresh THEN "open" ELSE socket[k]]
      /\ current' = [k \in Connection |-> IF k \in fresh THEN Handshake ELSE current[k]]
  BY DEF NewConnections
<1>8. fresh = made + 1 .. made'
  BY <1>3
<1> HIDE DEF fresh
<1>9. /\ hostOf' \in [Connection -> Host \union {None}]
      /\ \A k \in fresh : hostOf'[k] = host[k] /\ hostOf'[k] \in hs
      /\ \A k \in Connection : k \notin fresh => hostOf'[k] = hostOf[k]
  BY <1>1, <1>4, <1>6 DEF TypeOK
<1>10. /\ socket' \in [Connection -> SocketState]
       /\ current' \in [Connection -> Command \union {Handshake, None}]
  BY <1>1, <1>7 DEF TypeOK, SocketState
<1>11. \A k \in Connection :
         IF k \in fresh THEN hostOf'[k] \in hs /\ socket'[k] = "open" /\ current'[k] = Handshake
         ELSE hostOf'[k] = hostOf[k] /\ socket'[k] = socket[k] /\ current'[k] = current[k]
  BY <1>7, <1>9
<1>12. \A h \in hs : \E k \in made + 1 .. made' : hostOf'[k] = h
  BY <1>6, <1>8, <1>9
<1> QED BY <1>2, <1>3, <1>5, <1>9, <1>10, <1>11, <1>12

(* A command that leaves its connection, or has none, leaves nobody else.  *)
LEMMA LeaveEffect ==
  ASSUME TypeOK, NEW c \in Command, NEW next \in Place, Leave(c, next)
  PROVE  /\ pc' \in [Command -> Place] /\ on' \in [Command -> Connection \union {None}]
         /\ reserved' \in [Connection -> BOOLEAN] /\ idle' \in [Connection -> BOOLEAN]
         /\ \A d \in Command : IF d = c THEN pc'[d] = next /\ on'[d] = None
                               ELSE pc'[d] = pc[d] /\ on'[d] = on[d]
         /\ \A k \in Connection : k # on[c] => (reserved'[k] <=> reserved[k]) /\ (idle'[k] <=> idle[k])
BY DEF TypeOK, Leave, Release

(* MongoConnection.close() opens nothing.                                  *)
LEMMA CloseEffect ==
  ASSUME TypeOK, NEW ks, CloseAll(ks)
  PROVE  /\ status' \in [Connection -> {"connecting", "connected", "disconnected"}]
         /\ socket' \in [Connection -> SocketState]
         /\ \A k \in Connection : /\ socket'[k] = "none" <=> socket[k] = "none"
                                  /\ k \in Pool' <=> k \in Pool
BY DEF TypeOK, CloseAll, SocketState, Pool
-----------------------------------------------------------------------------
(* What each step keeps of the users of connections.                       *)
LEMMA ExecuteAssigned ==
  ASSUME PInv, NEW c \in Command, Execute(c)
  PROVE  Assigned'
<1> DEFINE lonely == {h \in hosts : ~ \E k \in Pool : hostOf[k] = h}
<1>1. lonely \in SUBSET Host /\ NewConnections(lonely) /\ Assigned
  BY DEF PInv, Assigned, TypeOK, Execute
<1> HIDE DEF lonely
<1>2. /\ made' \in 0 .. MaxConnections /\ made <= made'
      /\ hostOf' \in [Connection -> Host \union {None}]
      /\ socket' \in [Connection -> SocketState]
      /\ current' \in [Connection -> Command \union {Handshake, None}]
      /\ \A k \in Connection :
           IF k > made /\ k <= made'
           THEN hostOf'[k] \in lonely /\ socket'[k] = "open" /\ current'[k] = Handshake
           ELSE hostOf'[k] = hostOf[k] /\ socket'[k] = socket[k] /\ current'[k] = current[k]
  <2>1. made \in Int
    BY <1>1 DEF Assigned, TypeOK
  <2> QED BY <1>1, <2>1, NewEffect
<1>3. /\ awaited' \in [Command -> SUBSET Connection]
      /\ pc' = [pc EXCEPT ![c] = "connecting"] /\ pc[c] = "idle"
      /\ UNCHANGED <<hosts, role, type, status, reserved, promise, idle, on, tries, events>>
  BY <1>1 DEF Execute, hostVars, Assigned, TypeOK, Pool
<1>4. TypeOK'
  BY <1>1, <1>2, <1>3 DEF Assigned, TypeOK, Place
<1>5. MadeOnly'
  BY <1>1, <1>2, <1>3 DEF Assigned, TypeOK, MadeOnly, Connection
<1>6. \A k \in Connection : current'[k] \in Command => current'[k] = current[k]
  BY <1>2
<1>7. OneUser'
  BY <1>1, <1>3, <1>6 DEF Assigned, OneUser
<1>8. Users'
  <2>1. \A d \in Command : on[d] # None => on[d] <= made'
    BY <1>1, <1>2 DEF Assigned, TypeOK, Users, Connection
  <2>2. \A d \in Command : pc'[d] \in {"waiting", "running", "retrying"} => on[d] # None
    BY <1>1, <1>3 DEF Assigned, TypeOK, Users
  <2>3. \A k \in Connection : current'[k] \in Command => pc'[current'[k]] = "running"
    BY <1>1, <1>3, <1>6 DEF Assigned, TypeOK, Users
  <2> QED BY <1>3, <2>1, <2>2, <2>3 DEF Users
<1> QED BY <1>4, <1>5, <1>7, <1>8 DEF Assigned

LEMMA ConnectedAssigned ==
  ASSUME Assigned, NEW c \in Command, Connected(c)
  PROVE  Assigned'
<1>1. TypeOK'
  BY DEF Assigned, TypeOK, Connected, hostVars, connectionVars, Place
<1>2. OneUser' /\ MadeOnly'
  BY DEF Assigned, Connected, connectionVars, OneUser, MadeOnly
<1>3. Users'
  BY DEF Assigned, TypeOK, Connected, connectionVars, Users
<1> QED BY <1>1, <1>2, <1>3 DEF Assigned

LEMMA TakeFreeAssigned ==
  ASSUME Assigned, NEW c \in Command, TakeFree(c)
  PROVE  Assigned'
<1>1. PICK k \in Free(c) :
        /\ reserved' = [reserved EXCEPT ![k] = TRUE] /\ idle' = [idle EXCEPT ![k] = FALSE]
        /\ current' = [current EXCEPT ![k] = c] /\ on' = [on EXCEPT ![c] = k]
  BY FirstFree DEF TakeFree
<1>2. /\ k \in Connection /\ socket[k] # "none" /\ ~ reserved[k]
      /\ \A d \in Command : on[d] # k
  BY <1>1 DEF Free, Pool, Assigned, OneUser
<1>3. TypeOK'
  <2>1. /\ reserved' \in [Connection -> BOOLEAN] /\ idle' \in [Connection -> BOOLEAN]
    BY <1>1 DEF Assigned, TypeOK
  <2>2. /\ current' \in [Connection -> Command \union {Handshake, None}]
        /\ on' \in [Command -> Connection \union {None}]
    BY <1>1, <1>2 DEF Assigned, TypeOK
  <2>3. pc' \in [Command -> Place]
    BY DEF TakeFree, Assigned, TypeOK, Place
  <2> QED BY <2>1, <2>2, <2>3 DEF TakeFree, Assigned, TypeOK, hostVars
<1>4. MadeOnly'
  <2>1. k <= made /\ made' = made /\ socket' = socket /\ hostOf' = hostOf
    BY <1>2 DEF TakeFree, Assigned, MadeOnly
  <2>2. \A j \in Connection : j > made => j # k
    BY <1>2, <2>1 DEF Assigned, TypeOK, Connection
  <2>3. \A j \in Connection : j # k => current'[j] = current[j] /\ (idle'[j] <=> idle[j])
    BY <1>1 DEF Assigned, TypeOK
  <2> QED BY <2>1, <2>2, <2>3 DEF Assigned, MadeOnly
<1>5. pc' = [pc EXCEPT ![c] = "running"] /\ pc[c] = "getting"
  BY DEF TakeFree
<1>6. \A d \in Command : d # c => on'[d] = on[d] /\ pc'[d] = pc[d]
  BY <1>1, <1>5 DEF Assigned, TypeOK
<1>7. on'[c] = k /\ pc'[c] = "running"
  BY <1>1, <1>5 DEF Assigned, TypeOK
<1>8. \A j \in Connection : j # k => /\ current'[j] = current[j]
                                     /\ (reserved'[j] <=> reserved[j]) /\ (idle'[j] <=> idle[j])
  BY <1>1 DEF Assigned, TypeOK
<1>9. current'[k] = c /\ reserved'[k] /\ ~ idle'[k]
  BY <1>1, <1>2 DEF Assigned, TypeOK
<1>10. \A j \in Connection : j # k /\ current'[j] \in Command => current'[j] # c
  BY <1>5, <1>8 DEF Assigned, Users
<1>11. OneUser'
  <2>1. ASSUME NEW d \in Command, on'[d] # None
        PROVE  /\ reserved'[on'[d]] /\ ~ idle'[on'[d]]
               /\ \A e \in Command : on'[e] = on'[d] => e = d
    <3>1. CASE d = c
      BY <1>2, <1>6, <1>7, <1>9, <3>1
    <3>2. CASE d # c
      <4>1. on[d] \in Connection /\ on[d] # k /\ on'[d] = on[d]
        BY <1>2, <1>6, <2>1, <3>2 DEF Assigned, TypeOK
      <4> QED BY <1>6, <1>7, <1>8, <4>1, <2>1 DEF Assigned, OneUser
    <3> QED BY <3>1, <3>2
  <2>2. ASSUME NEW j \in Connection, current'[j] \in Command
        PROVE  on'[current'[j]] = j
    BY <1>6, <1>7, <1>8, <1>9, <1>10, <2>2 DEF Assigned, OneUser
  <2> QED BY <2>1, <2>2 DEF OneUser
<1>12. Users'
  <2>1. made' = made /\ k <= made /\ k # None
    BY <1>2 DEF TakeFree, Assigned, MadeOnly, Connection
  <2> QED BY <1>6, <1>7, <1>8, <1>9, <2>1 DEF Assigned, Users
<1> QED BY <1>3, <1>4, <1>11, <1>12 DEF Assigned

LEMMA MakeOneAssigned ==
  ASSUME PInv, NEW c \in Command, MakeOne(c)
  PROVE  Assigned'
<1>1. PICK h \in hosts : NewConnections({h})
  BY DEF MakeOne
<1>2. {h} \in SUBSET Host /\ Assigned /\ Cardinality({h}) = 1
  BY <1>1, FS_Singleton DEF PInv, Assigned, TypeOK
<1>3. made' = made + 1 /\ made' \in Connection
  BY <1>1, <1>2, NewEffect DEF Assigned, TypeOK, Connection
<1>4. /\ reserved' = [reserved EXCEPT ![made'] = TRUE] /\ on' = [on EXCEPT ![c] = made']
      /\ pc' = [pc EXCEPT ![c] = "waiting"] /\ pc[c] = "getting"
      /\ UNCHANGED <<hostVars, status, promise, idle, awaited, tries, events>>
  BY DEF MakeOne
<1>5. TypeOK'
  BY <1>1, <1>2, <1>3, <1>4, NewEffect DEF Assigned, TypeOK, hostVars, Place
<1>6. MadeOnly'
  <2>1. \A k \in Connection :
          IF k > made /\ k <= made' THEN hostOf'[k] \in Host /\ socket'[k] = "open"
          ELSE hostOf'[k] = hostOf[k] /\ socket'[k] = socket[k] /\ current'[k] = current[k]
    BY <1>1, <1>2, NewEffect
  <2> QED BY <1>2, <1>3, <1>4, <2>1 DEF Assigned, TypeOK, MadeOnly, Connection
<1>7. \A k \in Connection : current'[k] \in Command => current'[k] = current[k] /\ current[k] # c
  BY <1>1, <1>2, <1>4, NewEffect DEF Assigned, Users
<1>8. \A d \in Command : IF d = c THEN on'[d] = made' /\ pc'[d] = "waiting"
                         ELSE on'[d] = on[d] /\ pc'[d] = pc[d]
  BY <1>2, <1>4 DEF Assigned, TypeOK
<1>9. \A d \in Command : on[d] # None => on[d] # made'
  BY <1>2, <1>3 DEF Assigned, TypeOK, Users, Connection
<1>10. OneUser'
  <2>1. ASSUME NEW d \in Command, on'[d] # None
        PROVE  /\ reserved'[on'[d]] /\ ~ idle'[on'[d]]
               /\ \A e \in Command : on'[e] = on'[d] => e = d
    <3>1. CASE d = c
      <4>1. ~ idle[made'] /\ reserved'[made']
        BY <1>2, <1>3, <1>4 DEF Assigned, TypeOK, MadeOnly, Connection
      <4> QED BY <1>3, <1>4, <1>8, <1>9, <3>1, <4>1
    <3>2. CASE d # c
      <4>1. on[d] \in Connection /\ on'[d] = on[d] /\ on[d] # made'
        BY <1>2, <1>8, <1>9, <2>1, <3>2 DEF Assigned, TypeOK
      <4>2. reserved'[on[d]] <=> reserved[on[d]]
        BY <1>2, <1>3, <1>4, <4>1 DEF Assigned, TypeOK
      <4> QED BY <1>2, <1>4, <1>8, <4>1, <4>2, <2>1 DEF Assigned, OneUser
    <3> QED BY <3>1, <3>2
  <2>2. \A k \in Connection : current'[k] \in Command => on'[current'[k]] = k
    BY <1>2, <1>7, <1>8 DEF Assigned, OneUser
  <2> QED BY <2>1, <2>2 DEF OneUser
<1>11. Users'
  <2>1. \A d \in Command : on'[d] # None => on'[d] <= made'
    <3>1. made \in Nat /\ \A d \in Command : on[d] # None => on[d] \in Nat /\ on[d] <= made
      BY <1>2 DEF Assigned, TypeOK, Users, Connection
    <3> QED BY <1>3, <1>8, <3>1
  <2>2. made' # None
    BY <1>3
  <2> QED BY <1>2, <1>7, <1>8, <2>1, <2>2 DEF Assigned, Users
<1> QED BY <1>5, <1>6, <1>10, <1>11 DEF Assigned

LEMMA NoHostAssigned ==
  ASSUME Assigned, NEW c \in Command, NoHost(c)
  PROVE  Assigned'
<1>1. TypeOK'
  BY DEF Assigned, TypeOK, NoHost, hostVars, connectionVars, Place
<1>2. OneUser' /\ MadeOnly'
  BY DEF Assigned, NoHost, connectionVars, OneUser, MadeOnly
<1>3. Users'
  BY DEF Assigned, TypeOK, NoHost, connectionVars, Users
<1> QED BY <1>1, <1>2, <1>3 DEF Assigned

(* A command that leaves its connection to nobody.                         *)
LEMMA LeaveAssigned ==
  ASSUME Assigned, NEW c \in Command, NEW next \in {"getting", "done", "failed"}, Leave(c, next),
         TypeOK', made' = made, \A k \in Connection : socket'[k] = "none" <=> socket[k] = "none", hostOf' = hostOf,
         \A k \in Connection : current'[k] \in {current[k], None} /\ current'[k] # c
  PROVE  Assigned'
<1>1. /\ next \in Place
      /\ \A d \in Command : IF d = c THEN pc'[d] = next /\ on'[d] = None
                            ELSE pc'[d] = pc[d] /\ on'[d] = on[d]
      /\ \A k \in Connection : k # on[c] => (reserved'[k] <=> reserved[k]) /\ (idle'[k] <=> idle[k])
  BY LeaveEffect DEF Assigned, Place
<1>2. OneUser'
  <2>1. ASSUME NEW d \in Command, on'[d] # None
        PROVE  /\ reserved'[on'[d]] /\ ~ idle'[on'[d]]
               /\ \A e \in Command : on'[e] = on'[d] => e = d
    <3>1. d # c /\ on'[d] = on[d] /\ on[d] \in Connection
      BY <1>1, <2>1 DEF Assigned, TypeOK
    <3>2. on[d] # on[c]
      BY <3>1, <2>1 DEF Assigned, OneUser
    <3> QED BY <1>1, <2>1, <3>1, <3>2 DEF Assigned, OneUser
  <2>2. ASSUME NEW k \in Connection, current'[k] \in Command PROVE on'[current'[k]] = k
    BY <1>1, <2>2 DEF Assigned, OneUser
  <2> QED BY <2>1, <2>2 DEF OneUser
<1>3. MadeOnly'
  <2>1. ASSUME NEW k \in Connection, k > made PROVE ~ idle'[k]
    <3>1. on[c] # None => on[c] # k
      BY <2>1 DEF Assigned, TypeOK, Users, Connection
    <3>2. k # None
      OBVIOUS
    <3> QED BY <1>1, <2>1, <3>1, <3>2 DEF Assigned, MadeOnly
  <2> QED BY <2>1 DEF Assigned, MadeOnly
<1>4. Users'
  BY <1>1 DEF Assigned, Users
<1> QED BY <1>2, <1>3, <1>4 DEF Assigned

LEMMA HandshakeDoneAssigned ==
  ASSUME Assigned, NEW k \in Connection, HandshakeDone(k)
  PROVE  Assigned'
<1> DEFINE waiting == WaitsFor(k)
           user == IF waiting = {} THEN None ELSE CHOOSE c \in waiting : TRUE
<1>1. /\ current' = [current EXCEPT ![k] = user]
      /\ pc' = [c \in Command |-> IF c \in waiting THEN "running" ELSE pc[c]]
      /\ UNCHANGED <<hosts, role, made, hostOf, reserved, socket, idle, awaited, on, tries, events>>
  BY DEF HandshakeDone
<1>2. user = None \/ user \in waiting
  OBVIOUS
<1>3. \A c \in waiting : c \in Command /\ pc[c] = "waiting" /\ on[c] = k
  BY DEF WaitsFor
<1> HIDE DEF user, waiting
<1>4. hostOf[k] \in Host /\ k <= made
  BY DEF HandshakeDone, Answers, Assigned, MadeOnly
<1>5. TypeOK'
  <2>1. type' \in [Host -> {"unknown", "primary", "secondary"}]
    BY <1>4 DEF HandshakeDone, Assigned, TypeOK
  <2>2. status' \in [Connection -> {"connecting", "connected", "disconnected"}] /\ promise' \in [Connection -> PromiseState]
    BY DEF HandshakeDone, Assigned, TypeOK, PromiseState
  <2>3. current' \in [Connection -> Command \union {Handshake, None}] /\ pc' \in [Command -> Place]
    BY <1>1, <1>2, <1>3 DEF Assigned, TypeOK, Place
  <2> QED BY <1>1, <2>1, <2>2, <2>3 DEF Assigned, TypeOK
<1>6. \A j \in Connection : current'[j] = IF j = k THEN user ELSE current[j]
  BY <1>1 DEF Assigned, TypeOK
<1>7. OneUser'
  BY <1>1, <1>2, <1>3, <1>6 DEF Assigned, OneUser
<1>8. MadeOnly'
  BY <1>1, <1>4, <1>6 DEF Assigned, TypeOK, MadeOnly, Connection
<1>9. Users'
  <2>1. \A c \in Command : pc'[c] \in {"waiting", "running", "retrying"} => on[c] # None
    BY <1>1, <1>3 DEF Assigned, Users
  <2>2. \A j \in Connection : current'[j] \in Command => pc'[current'[j]] = "running"
    BY <1>1, <1>2, <1>3, <1>6 DEF Assigned, Users
  <2> QED BY <1>1, <2>1, <2>2 DEF Assigned, Users
<1> QED BY <1>5, <1>7, <1>8, <1>9 DEF Assigned

(* What neither makes nor assigns connections, nor moves a command.        *)
LEMMA KeepAssigned ==
  ASSUME Assigned, TypeOK', UNCHANGED <<made, hostOf, reserved, pc, on>>,
         \A k \in Connection : /\ socket'[k] = "none" <=> socket[k] = "none"
                               /\ current'[k] \in {current[k], None}
                               /\ idle'[k] => idle[k]
  PROVE  Assigned'
<1>1. OneUser'
  <2>1. \A c \in Command : on[c] # None => on[c] \in Connection
    BY DEF Assigned, TypeOK
  <2> QED BY <2>1 DEF Assigned, OneUser
<1>2. MadeOnly' /\ Users'
  BY DEF Assigned, MadeOnly, Users
<1> QED BY <1>1, <1>2 DEF Assigned

LEMMA HandshakeRefusedAssigned ==
  ASSUME Assigned, NEW k \in Connection, HandshakeRefused(k)
  PROVE  Assigned'
<1>1. /\ current[k] = Handshake /\ socket[k] # "none"
      /\ current' = [current EXCEPT ![k] = None] /\ socket' = [socket EXCEPT ![k] = "ending"]
      /\ UNCHANGED <<hosts, role, type, made, hostOf, status, awaited, tries>>
  BY DEF HandshakeRefused, Answers, hostVars
<1>2. /\ promise' \in [Connection -> PromiseState] /\ events' \in 0 .. MaxEvents
      /\ current' \in [Connection -> Command \union {Handshake, None}]
      /\ socket' \in [Connection -> SocketState]
  BY <1>1 DEF HandshakeRefused, Assigned, TypeOK, PromiseState, SocketState
<1>3. \A j \in Connection : /\ current'[j] = IF j = k THEN None ELSE current[j]
                            /\ socket'[j] = "none" <=> socket[j] = "none"
  BY <1>1 DEF Assigned, TypeOK
<1>4. CASE UNCHANGED <<pc, on, reserved, idle>>
  <2>1. TypeOK'
    BY <1>1, <1>2, <1>4 DEF Assigned, TypeOK
  <2> QED BY <1>1, <1>3, <1>4, <2>1, KeepAssigned
<1>5. ASSUME NEW c \in WaitsFor(k), Leave(c, "failed")
      PROVE  Assigned'
  <2>1. c \in Command /\ pc[c] = "waiting" /\ "failed" \in Place
    BY DEF WaitsFor, Place
  <2>2. TypeOK'
    BY <1>1, <1>2, <1>5, <2>1, LeaveEffect DEF Assigned, TypeOK
  <2>3. \A j \in Connection : current'[j] \in {current[j], None} /\ current'[j] # c
    BY <1>3, <2>1 DEF Assigned, Users
  <2> QED BY <1>1, <1>3, <1>5, <2>1, <2>2, <2>3, LeaveAssigned
<1> QED BY <1>4, <1>5 DEF HandshakeRefused

LEMMA ReplyAssigned ==
  ASSUME Assigned, NEW k \in Connection, NEW answer \in {"done", "failed", "retry"}, Reply(k, answer)
  PROVE  Assigned'
<1> DEFINE c == current[k]
           next == IF answer = "done" THEN "done" ELSE "failed"
<1>1. /\ c \in Command /\ pc[c] = "running" /\ on[c] = k
      /\ current' = [current EXCEPT ![k] = None]
      /\ UNCHANGED <<hosts, role, type, made, hostOf, status, socket, promise, awaited, events>>
  BY DEF Reply, hostVars, Assigned, Users, OneUser
<1>2. \/ Leave(c, next) /\ UNCHANGED tries
      \/ /\ pc' = [pc EXCEPT ![c] = "retrying"] /\ tries' = [tries EXCEPT ![c] = @ + 1]
         /\ UNCHANGED <<on, reserved, idle>>
  BY DEF Reply
<1> HIDE DEF c, next
<1>3. /\ current' \in [Connection -> Command \union {Handshake, None}]
      /\ \A j \in Connection : current'[j] = IF j = k THEN None ELSE current[j]
  BY <1>1 DEF Assigned, TypeOK
<1>4. \A j \in Connection : current'[j] \in {current[j], None} /\ current'[j] # c
  BY <1>1, <1>3 DEF Assigned, OneUser
<1>5. CASE Leave(c, next) /\ UNCHANGED tries
  <2>1. next \in {"getting", "done", "failed"} /\ next \in Place
    BY DEF next, Place
  <2>2. TypeOK'
    BY <1>1, <1>3, <1>5, <2>1, LeaveEffect DEF Assigned, TypeOK
  <2> QED BY <1>1, <1>4, <1>5, <2>1, <2>2, LeaveAssigned
<1>6. CASE /\ pc' = [pc EXCEPT ![c] = "retrying"] /\ tries' = [tries EXCEPT ![c] = @ + 1]
           /\ UNCHANGED <<on, reserved, idle>>
  <2>1. TypeOK'
    BY <1>1, <1>3, <1>6 DEF Assigned, TypeOK, Place
  <2>2. OneUser'
    BY <1>1, <1>4, <1>6 DEF Assigned, OneUser
  <2>3. MadeOnly'
    BY <1>1, <1>3, <1>6 DEF Assigned, MadeOnly
  <2>4. Users'
    BY <1>1, <1>4, <1>6 DEF Assigned, TypeOK, Users
  <2> QED BY <2>1, <2>2, <2>3, <2>4 DEF Assigned
<1> QED BY <1>2, <1>5, <1>6

LEMMA RetryAssigned ==
  ASSUME Assigned, NEW c \in Command, Retry(c)
  PROVE  Assigned'
<1>1. /\ pc[c] = "retrying" /\ Leave(c, "getting") /\ "getting" \in Place
      /\ UNCHANGED <<hosts, role, type, made, hostOf, status, socket, promise, current, awaited, tries, events>>
  BY DEF Retry, hostVars, Place
<1>2. TypeOK'
  BY <1>1, LeaveEffect DEF Assigned, TypeOK
<1>3. \A k \in Connection : current[k] # c
  BY <1>1 DEF Assigned, Users
<1> QED BY <1>1, <1>2, <1>3, LeaveAssigned

LEMMA CloseAssigned ==
  ASSUME Assigned, NEW ks, CloseAll(ks), hosts' \in SUBSET Host,
         UNCHANGED <<role, type, made, hostOf, reserved, promise, current, commandVars>>,
         idle' \in [Connection -> BOOLEAN], events' \in 0 .. MaxEvents,
         \A k \in Connection : idle'[k] => idle[k]
  PROVE  Assigned'
<1>1. TypeOK'
  BY CloseEffect DEF Assigned, TypeOK, commandVars
<1> QED BY <1>1, CloseEffect, KeepAssigned DEF Assigned, commandVars

LEMMA ServersAssigned ==
  ASSUME Assigned,
         \/ \E k \in Connection : IdleTimeout(k) \/ OnError(k) \/ OnClose(k)
         \/ Close \/ \E h \in Host : DeleteHost(h) \/ Failover(h)
  PROVE  Assigned'
<1>1. ASSUME NEW k \in Connection, IdleTimeout(k) PROVE Assigned'
  <2>1. /\ idle' \in [Connection -> BOOLEAN]
        /\ \A j \in Connection : idle'[j] => idle[j]
    BY <1>1 DEF IdleTimeout, Assigned, TypeOK
  <2> QED BY <1>1, <2>1, CloseAssigned DEF IdleTimeout, hostVars, Assigned, TypeOK
<1>2. ASSUME NEW k \in Connection, OnError(k) PROVE Assigned'
  <2>1. TypeOK'
    BY <1>2 DEF OnError, Assigned, TypeOK, hostVars, commandVars, SocketState, PromiseState
  <2>2. \A j \in Connection : socket'[j] = "none" <=> socket[j] = "none"
    BY <1>2 DEF OnError, Assigned, TypeOK
  <2> QED BY <1>2, <2>1, <2>2, KeepAssigned DEF OnError, commandVars
<1>3. ASSUME NEW k \in Connection, OnClose(k) PROVE Assigned'
  <2>1. TypeOK'
    BY <1>3 DEF OnClose, Assigned, TypeOK, hostVars, commandVars, SocketState
  <2>2. \A j \in Connection : socket'[j] = "none" <=> socket[j] = "none"
    BY <1>3 DEF OnClose, Assigned, TypeOK
  <2> QED BY <1>3, <2>1, <2>2, KeepAssigned DEF OnClose, commandVars
<1>4. CASE Close
  BY <1>4, CloseAssigned DEF Close, hostVars, Assigned, TypeOK
<1>5. ASSUME NEW h \in Host, DeleteHost(h) PROVE Assigned'
  BY <1>5, CloseAssigned DEF DeleteHost, Assigned, TypeOK
<1>6. ASSUME NEW h \in Host, Failover(h) PROVE Assigned'
  <2>1. TypeOK'
    BY <1>6 DEF Failover, Assigned, TypeOK, connectionVars, commandVars
  <2> QED BY <1>6, <2>1, KeepAssigned DEF Failover, connectionVars, commandVars
<1> QED BY <1>1, <1>2, <1>3, <1>4, <1>5, <1>6
-----------------------------------------------------------------------------
(* What each step keeps of the number of connections.                      *)

(* The connections of the pool, and their hosts, are finitely many.        *)
LEMMA Finite ==
  ASSUME Assigned
  PROVE  /\ IsFiniteSet(Pool) /\ Cardinality(Pool) \in Nat
         /\ HostsOf(Pool) \subseteq Host /\ IsFiniteSet(HostsOf(Pool))
         /\ Cardinality(HostsOf(Pool)) \in Nat
         /\ Cardinality(HostsOf(Pool)) <= Cardinality(Host)
<1>1. IsFiniteSet(Connection) /\ Pool \in SUBSET Connection
  BY FS_Interval DEF Connection, Pool
<1>2. HostsOf(Pool) \in SUBSET Host
  BY DEF HostsOf, Pool, Assigned, MadeOnly
<1> QED BY <1>1, <1>2, FS_Subset, FS_CardinalityType

LEMMA AtMostOneLess ==
  ASSUME NEW S, NEW T, NEW x, IsFiniteSet(S), T = S \/ T = S \ {x}
  PROVE  /\ Cardinality(S) \in Nat /\ Cardinality(T) \in Nat
         /\ Cardinality(T) >= Cardinality(S) - 1
<1>1. Cardinality(S) \in Nat
  BY FS_CardinalityType
<1>2. CASE T = S
  BY <1>1, <1>2
<1>3. CASE T = S \ {x}
  <2>1. IsFiniteSet(T) /\ Cardinality(T) = IF x \in S THEN Cardinality(S) - 1 ELSE Cardinality(S)
    BY <1>3, FS_RemoveElement
  <2>2. Cardinality(T) \in Nat
    BY <2>1, FS_CardinalityType
  <2> QED BY <1>1, <2>1, <2>2
<1> QED BY <1>2, <1>3

LEMMA NextNumbers ==
  ASSUME NEW m \in Nat, NEW n \in Nat
  PROVE  IsFiniteSet(m + 1 .. m + n) /\ Cardinality(m + 1 .. m + n) = n
<1>1. /\ IsFiniteSet(m + 1 .. m + n)
      /\ Cardinality(m + 1 .. m + n) = IF m + 1 > m + n THEN 0 ELSE (m + n) - (m + 1) + 1
  BY FS_Interval
<1> QED BY <1>1

LEMMA SameCounted ==
  ASSUME Counted, Pool' = Pool, hostOf' = hostOf
  PROVE  Counted'
BY DEF Counted, HostsOf

(* A connection that closes takes at most its host along.                  *)
LEMMA ClosedCounted ==
  ASSUME PInv, NEW k \in Pool, Pool' = Pool \ {k}, hostOf' = hostOf
  PROVE  Counted'
<1>1. /\ Assigned /\ Counted /\ HostsOf(Pool)' = HostsOf(Pool \ {k})
  BY DEF PInv, HostsOf
<1>2. Cardinality(Pool)' = Cardinality(Pool) - 1
  BY <1>1, Finite, FS_RemoveElement
<1>3. HostsOf(Pool)' = HostsOf(Pool) \/ HostsOf(Pool)' = HostsOf(Pool) \ {hostOf[k]}
  BY <1>1 DEF HostsOf
<1>4. /\ Cardinality(HostsOf(Pool)) \in Nat /\ Cardinality(HostsOf(Pool)') \in Nat
      /\ Cardinality(HostsOf(Pool)') >= Cardinality(HostsOf(Pool)) - 1
  BY <1>1, <1>3, Finite, AtMostOneLess
<1>5. Cardinality(Pool) \in Nat
  BY <1>1, Finite
<1> QED BY <1>1, <1>2, <1>4, <1>5 DEF Counted

(* New connections join the pool, and so do their hosts.                   *)
LEMMA GrownPool ==
  ASSUME PInv, NEW hs \in SUBSET Host, NewConnections(hs)
  PROVE  /\ Cardinality(hs) \in Nat
         /\ Cardinality(Pool') = Cardinality(Pool) + Cardinality(hs)
         /\ HostsOf(Pool)' = HostsOf(Pool) \union hs
<1> DEFINE fresh == made + 1 .. made'
<1>1. Assigned /\ made \in Nat /\ made' \in Nat /\ made' <= MaxConnections
  BY NewEffect DEF PInv, Assigned, TypeOK
<1>2. Cardinality(hs) \in Nat /\ made' = made + Cardinality(hs)
  BY NewEffect
<1>3. fresh \subseteq Connection /\ IsFiniteSet(fresh) /\ Cardinality(fresh) = Cardinality(hs)
  <2>1. IsFiniteSet(fresh) /\ Cardinality(fresh) = Cardinality(hs)
    BY <1>1, <1>2, NextNumbers
  <2>2. fresh \subseteq Connection
    BY <1>1 DEF Connection
  <2> QED BY <2>1, <2>2
<1>4. \A k \in Connection : k \in fresh <=> k > made /\ k <= made'
  BY <1>1 DEF Connection
<1> HIDE DEF fresh
<1>5. \A k \in Connection : IF k \in fresh THEN socket'[k] = "open" /\ hostOf'[k] \in hs
                            ELSE socket'[k] = socket[k] /\ hostOf'[k] = hostOf[k]
  BY <1>4, NewEffect
<1>6. \A k \in Pool : k \in Connection /\ k \notin fresh
  <2>1. \A k \in Pool : k \in Connection /\ k <= made
    BY <1>1 DEF Pool, Assigned, MadeOnly
  <2> QED BY <1>1, <1>4, <2>1 DEF Connection
<1>7. Pool' = Pool \union fresh /\ Pool \intersect fresh = {}
  BY <1>3, <1>5, <1>6 DEF Pool
<1>8. Cardinality(Pool') = Cardinality(Pool) + Cardinality(hs)
  <2>1. Cardinality(Pool \union fresh) = Cardinality(Pool) + Cardinality(fresh) - Cardinality({})
    BY <1>1, <1>3, <1>7, Finite, FS_Union
  <2>2. Cardinality({}) = 0 /\ Cardinality(Pool) \in Nat
    BY <1>1, Finite, FS_EmptySet
  <2> QED BY <1>2, <1>3, <1>7, <2>1, <2>2
<1>9. \A h \in hs : \E k \in fresh : hostOf'[k] = h
  BY NewEffect DEF fresh
<1>10. HostsOf(Pool)' = HostsOf(Pool) \union hs
  BY <1>3, <1>5, <1>6, <1>7, <1>9 DEF HostsOf
<1> QED BY <1>2, <1>8, <1>10

(* The first connections of hosts raise both sides.                        *)
LEMMA ExecuteCounted ==
  ASSUME PInv, NEW c \in Command, Execute(c)
  PROVE  Counted'
<1> DEFINE lonely == {h \in hosts : ~ \E k \in Pool : hostOf[k] = h}
<1>1. /\ lonely \in SUBSET Host /\ NewConnections(lonely) /\ Assigned /\ Counted
      /\ HostsOf(Pool) \intersect lonely = {}
  BY DEF PInv, Assigned, TypeOK, Execute, HostsOf
<1> HIDE DEF lonely
<1>2. IsFiniteSet(lonely) /\ Cardinality(lonely) \in Nat
  BY <1>1, FS_Subset, FS_CardinalityType
<1>3. Cardinality(HostsOf(Pool)') = Cardinality(HostsOf(Pool)) + Cardinality(lonely)
  <2>1. Cardinality(HostsOf(Pool) \union lonely)
          = Cardinality(HostsOf(Pool)) + Cardinality(lonely) - Cardinality({})
    BY <1>1, <1>2, Finite, FS_Union
  <2>2. Cardinality({}) = 0 /\ Cardinality(HostsOf(Pool)) \in Nat
    BY <1>1, Finite, FS_EmptySet
  <2>3. HostsOf(Pool)' = HostsOf(Pool) \union lonely
    BY <1>1, GrownPool
  <2> QED BY <1>2, <2>1, <2>2, <2>3
<1>4. Cardinality(Pool') = Cardinality(Pool) + Cardinality(lonely)
  BY <1>1, GrownPool
<1> QED BY <1>1, <1>2, <1>3, <1>4, Finite DEF Counted

(* Every other connection is made below the limit.                         *)
LEMMA MakeOneCounted ==
  ASSUME PInv, NEW c \in Command, MakeOne(c)
  PROVE  Counted'
<1>1. PICK h \in hosts : NewConnections({h})
  BY DEF MakeOne
<1>2. {h} \in SUBSET Host /\ Assigned
  BY <1>1 DEF PInv, Assigned, TypeOK
<1>3. /\ Cardinality(Pool') = Cardinality(Pool) + 1
      /\ HostsOf(Pool)' = HostsOf(Pool) \union {h}
  BY <1>1, <1>2, GrownPool, FS_Singleton
<1>4. Cardinality(Pool) < MaxPoolSize
  BY DEF MakeOne
<1>5. Cardinality(HostsOf(Pool)') \in Nat /\ Cardinality(HostsOf(Pool)') >= 1
  <2>1. IsFiniteSet(HostsOf(Pool)') /\ HostsOf(Pool)' # {}
    BY <1>2, <1>3, Finite, FS_AddElement
  <2> QED BY <2>1, FS_EmptySet, FS_CardinalityType
<1> QED BY <1>2, <1>3, <1>4, <1>5, Finite DEF Counted

LEMMA CloseCounted ==
  ASSUME PInv, NEW ks, CloseAll(ks), hostOf' = hostOf
  PROVE  Counted'
<1>1. Pool' = Pool
  <2>1. \A k \in Connection : k \in Pool' <=> k \in Pool
    BY CloseEffect DEF PInv, Assigned
  <2> QED BY <2>1 DEF Pool
<1> QED BY <1>1, SameCounted DEF PInv

LEMMA ServersCounted ==
  ASSUME PInv,
         \/ \E k \in Connection : IdleTimeout(k) \/ OnError(k) \/ OnClose(k)
         \/ Close \/ \E h \in Host : DeleteHost(h) \/ Failover(h)
  PROVE  Counted'
<1>1. ASSUME NEW k \in Connection, OnClose(k) PROVE Counted'
  <2>1. k \in Pool /\ Pool' = Pool \ {k} /\ hostOf' = hostOf
    BY <1>1 DEF OnClose, Pool, PInv, Assigned, TypeOK
  <2> QED BY <2>1, ClosedCounted
<1>2. ASSUME NEW k \in Connection, OnError(k) PROVE Counted'
  <2>1. Pool' = Pool /\ hostOf' = hostOf
    BY <1>2 DEF OnError, Pool, PInv, Assigned, TypeOK
  <2> QED BY <2>1, SameCounted DEF PInv
<1>3. ASSUME NEW h \in Host, Failover(h) PROVE Counted'
  BY <1>3, SameCounted DEF Failover, connectionVars, Pool, PInv
<1> QED BY <1>1, <1>2, <1>3, CloseCounted DEF IdleTimeout, Close, DeleteHost
-----------------------------------------------------------------------------
LEMMA PoolNext == PInv /\ [Next]_vars => PInv'
<1> SUFFICES ASSUME PInv, [Next]_vars PROVE PInv'
  OBVIOUS
<1>1. Assigned
  BY DEF PInv
<1>2. ASSUME NEW c \in Command, Execute(c) PROVE PInv'
  BY <1>2, ExecuteAssigned, ExecuteCounted DEF PInv
<1>3. ASSUME NEW c \in Command, Connected(c) PROVE PInv'
  BY <1>1, <1>3, ConnectedAssigned, SameCounted DEF PInv, Connected, connectionVars, Pool
<1>4. ASSUME NEW c \in Command, TakeFree(c) PROVE PInv'
  BY <1>1, <1>4, TakeFreeAssigned, SameCounted DEF PInv, TakeFree, Pool
<1>5. ASSUME NEW c \in Command, MakeOne(c) PROVE PInv'
  BY <1>5, MakeOneAssigned, MakeOneCounted DEF PInv
<1>6. ASSUME NEW c \in Command, NoHost(c) PROVE PInv'
  BY <1>1, <1>6, NoHostAssigned, SameCounted DEF PInv, NoHost, connectionVars, Pool
<1>7. ASSUME NEW c \in Command, Retry(c) PROVE PInv'
  BY <1>1, <1>7, RetryAssigned, SameCounted DEF PInv, Retry, Pool
<1>8. ASSUME NEW k \in Connection, HandshakeDone(k) PROVE PInv'
  BY <1>1, <1>8, HandshakeDoneAssigned, SameCounted DEF PInv, HandshakeDone, Pool
<1>9. ASSUME NEW k \in Connection, HandshakeRefused(k) PROVE PInv'
  <2>1. Pool' = Pool /\ hostOf' = hostOf
    BY <1>1, <1>9 DEF HandshakeRefused, Answers, Pool, Assigned, TypeOK
  <2> QED BY <1>1, <1>9, <2>1, HandshakeRefusedAssigned, SameCounted DEF PInv
<1>10. ASSUME NEW k \in Connection, NEW answer \in {"done", "failed", "retry"}, Reply(k, answer)
       PROVE  PInv'
  BY <1>1, <1>10, ReplyAssigned, SameCounted DEF PInv, Reply, Pool
<1>11. CASE \/ \E k \in Connection : IdleTimeout(k) \/ OnError(k) \/ OnClose(k)
            \/ Close \/ \E h \in Host : DeleteHost(h) \/ Failover(h)
  BY <1>1, <1>11, ServersAssigned, ServersCounted DEF PInv
<1>12. CASE UNCHANGED vars
  <2>1. Assigned'
    BY <1>1, <1>12 DEF vars, hostVars, connectionVars, commandVars,
       Assigned, TypeOK, OneUser, MadeOnly, Users
  <2> QED BY <1>12, <2>1, SameCounted DEF PInv, vars, connectionVars, Pool
<1> QED BY <1>2, <1>3, <1>4, <1>5, <1>6, <1>7, <1>8, <1>9, <1>10, <1>11, <1>12 DEF Next

(* An answer goes to a command that runs on a connection reserved for it. *)
AnswersReachRunning ==
  \A k \in Connection : current[k] \in Command =>
    pc[current[k]] = "running" /\ reserved[k] /\ on[current[k]] = k

(* For every set of commands and hosts, and every limit: connections that  *)
(* are made, reserved, timed and counted agree with the commands on them.  *)
THEOREM PoolInvariance == Spec => []PInv
BY PoolInit, PoolNext, PTL DEF Spec

(* A connection has one user, who gets its replies and whom its idle timer *)
(* does not cut off (MongoConnectionPool.getConnection, release), and the  *)
(* pool exceeds its limit by the first connections of hosts at most.       *)
THEOREM PoolSafe == Spec => []PoolSafety
<1>1. ASSUME PInv PROVE PoolSafety
  <2>1. TypeOK /\ OneUser
    BY <1>1 DEF PInv, Assigned
  <2>2. Cardinality(Host) \in Nat
    BY FS_CardinalityType
  <2>3. PoolIsLimited
    BY <1>1, <2>2, Finite DEF PInv, Counted, PoolIsLimited
  <2> QED BY <2>1, <2>3 DEF PoolSafety
<1> QED BY <1>1, PoolInvariance, PTL

(* No answer of a server reaches a command that has failed, finished or    *)
(* moved on to another connection (MongoConnection.execute, onResponse).   *)
THEOREM RepliesFindTheirUser == Spec => []AnswersReachRunning
<1>1. ASSUME PInv PROVE AnswersReachRunning
  <2>1. \A k \in Connection : k # None
    OBVIOUS
  <2> QED BY <1>1, <2>1 DEF PInv, Assigned, OneUser, Users, AnswersReachRunning
<1> QED BY <1>1, PoolInvariance, PTL

------------------------------------------------------------------------------
(***************************************************************************)
(* The mutex, the pools of the SQL adapters and SQLPersistence.            *)
(***************************************************************************)

(* No reset() came into a commit, and no two rounds shared a persistence.  *)
Orderly == ~ (wasReset \/ overlapped)

(* The types of the variables.                                             *)
Stage == {"new", "queued", "idle", "run", "locking", "committed", "failed", "done"}
Insertion == [first : Nat, count : Nat]

Typed ==
  /\ adapter \in {"sqlite", "mysql", "postgres"}
  /\ promisesMade \in Nat /\ mutexPromise \in 0 .. promisesMade
  /\ resolved \subseteq 1 .. promisesMade /\ awaits \in [Flow -> Nat]
  /\ active \in Int /\ out \subseteq Flow
  /\ rounds \in [Session -> Seq(Round)] /\ depth \in [Session -> Int]
  /\ persistence \in [Session -> Round \cup {Absent}]
  /\ of \in [Round -> Session \cup {Absent}]
  /\ given \in [Round -> Round \cup {Absent}]
  /\ connection \in [Round -> Round \cup {Absent}]
  /\ stage \in [Flow -> Stage]
  /\ written \in [Round -> Nat] /\ table \in Seq(Flow \X Nat)
  /\ ids \in [Round -> Seq(Int)] /\ last \in [Flow \cup {Absent} -> Insertion]
  /\ overlapped \in BOOLEAN /\ wasReset \in BOOLEAN /\ failures \in Nat /\ resets \in Nat

(* A round is entered into one session, and that session commits it.       *)
Filed ==
  /\ \A s \in Session : \A i \in 1 .. Len(rounds[s]) :
       of[rounds[s][i]] = s /\ stage[rounds[s][i]] # "new"
  /\ \A s \in Session : persistence[s] # Absent => of[persistence[s]] = s
  /\ \A r \in Round : InCommit(r) => of[r] \in Session

(* A round in commit has a persistence, and its session has one as long as *)
(* it knows the round.                                                     *)
Provided ==
  /\ \A r \in Round : InCommit(r) => given[r] # Absent
  /\ \A s \in Session : \A i \in 1 .. Len(rounds[s]) : InCommit(rounds[s][i]) => persistence[s] # Absent

(* Nothing is known of a round whose commit has not begun.                 *)
Fresh ==
  \A r \in Round : stage[r] \in {"new", "queued"} =>
    /\ given[r] = Absent /\ connection[r] = Absent /\ written[r] = 0
    /\ \A s \in Session : persistence[s] # r
    /\ \A o \in Round : given[o] # r

(* A connection is asked for by a round on the persistence that keeps it.  *)
Named == \A p \in Round : connection[p] # Absent => given[connection[p]] = p

(* SQLite's mutex is locked while its one connection is out; only its      *)
(* holder can be the connection of a commit or run a query.                *)
Held ==
  adapter = "sqlite" /\ ~ wasReset =>
    /\ mutexPromise # 0 <=> out # {}
    /\ \A f, g \in out : f = g
    /\ \A s \in Session : persistence[s] # Absent /\ connection[persistence[s]] # Absent =>
         connection[persistence[s]] \in out
    /\ \A q \in Query : stage[q] = "run" => q \in out

(* A session has a persistence while one of its rounds is in commit, and   *)
(* that round has it alone.                                                *)
Alone ==
  Orderly =>
    /\ \A r \in Round : InCommit(r) =>
         given[r] # Absent /\ persistence[of[r]] = given[r] /\ depth[of[r]] = 1
    /\ \A r, o \in Round : InCommit(r) /\ InCommit(o) /\ given[r] = given[o] => r = o
    /\ \A s \in Session : persistence[s] # Absent => \E r \in Round : InCommit(r) /\ given[r] = persistence[s]
    /\ \A s \in Session : persistence[s] = Absent => depth[s] = 0

(* Nothing is written without a connection.                                *)
Asking ==
  Orderly => \A r \in Round : InCommit(r) =>
    /\ stage[r] = "locking" => connection[given[r]] = Absent
    /\ connection[given[r]] = Absent => written[r] = 0

(* What the handle of a round tells of its last insert: the rows of the    *)
(* round's last batch, and with SQLite those before it are the round's.    *)
Row(r) == last[Handle(connection[given[r]])]
Told(r) ==
  /\ written[r] <= Inserts[r]
  /\ Row(r).first \in 1 .. Len(table) /\ Row(r).count \in 1 .. written[r]
  /\ Row(r).first + Row(r).count - 1 <= Len(table)
  /\ \A j \in 1 .. Row(r).count : table[Row(r).first + j - 1] = <<r, written[r] - Row(r).count + j>>
  /\ Inserts[r] <= BatchSize => Row(r).count = written[r] /\ written[r] = Inserts[r]
  /\ adapter = "sqlite" =>
       /\ Row(r).first + Row(r).count - 1 = Len(table) /\ written[r] <= Len(table)
       /\ \A k \in 1 .. written[r] : table[Len(table) - written[r] + k] = <<r, k>>
Rows == Orderly => \A r \in Round : InCommit(r) /\ written[r] > 0 => Told(r)

PersistenceInv ==
  Typed /\ Filed /\ Provided /\ Fresh /\ Named /\ Held /\ Alone /\ Asking /\ Rows /\ IdsAreOfTheirRows

HIDE PoolAssumption
USE SqlAssumption

LEMMA SqlStart == SqlInit => PersistenceInv
<1> SUFFICES ASSUME SqlInit PROVE PersistenceInv
  OBVIOUS
<1>1. Typed
  <2>1. stage \in [Flow -> Stage] /\ awaits \in [Flow -> Nat]
    BY DEF SqlInit, Flow, Stage
  <2>2. last \in [Flow \cup {Absent} -> Insertion]
    BY DEF SqlInit, Insertion
  <2>3. rounds \in [Session -> Seq(Round)] /\ table \in Seq(Flow \X Nat) /\ ids \in [Round -> Seq(Int)]
    BY DEF SqlInit
  <2>4. /\ depth \in [Session -> Int] /\ persistence \in [Session -> Round \cup {Absent}]
        /\ of \in [Round -> Session \cup {Absent}] /\ given \in [Round -> Round \cup {Absent}]
        /\ connection \in [Round -> Round \cup {Absent}] /\ written \in [Round -> Nat]
    BY DEF SqlInit
  <2>5. /\ adapter \in {"sqlite", "mysql", "postgres"} /\ promisesMade \in Nat /\ mutexPromise \in 0 .. promisesMade
        /\ resolved \subseteq 1 .. promisesMade /\ active \in Int /\ out \subseteq Flow
        /\ failures \in Nat /\ resets \in Nat
    BY DEF SqlInit
  <2>6. overlapped \in BOOLEAN /\ wasReset \in BOOLEAN
    BY DEF SqlInit
  <2> QED BY <2>1, <2>2, <2>3, <2>4, <2>5, <2>6 DEF Typed
<1>2. Filed /\ Provided /\ Fresh /\ Named
  BY DEF SqlInit, Filed, Provided, Fresh, Named, InCommit, Flow
<1>3. Held
  BY DEF SqlInit, Held, Flow
<1>4. Alone /\ Asking /\ Rows
  BY DEF SqlInit, Alone, Asking, Rows, InCommit, Flow
<1>5. IdsAreOfTheirRows
  BY DEF SqlInit, IdsAreOfTheirRows, Flow
<1> QED BY <1>1, <1>2, <1>3, <1>4, <1>5 DEF PersistenceInv

-----------------------------------------------------------------------------
(* Facts about the steps.                                                  *)

(* Rows are added behind those that are there.                             *)
Grows ==
  /\ Len(table') \in Nat /\ Len(table) <= Len(table')
  /\ \A i \in 1 .. Len(table) : table'[i] = table[i]

LEMMA OneRow ==
  ASSUME Typed, NEW q \in Query, table' = Append(table, <<q, 1>>)
  PROVE  table' \in Seq(Flow \X Nat) /\ Grows
<1>1. <<q, 1>> \in Flow \X Nat /\ table \in Seq(Flow \X Nat)
  BY DEF Typed, Flow
<1> QED BY <1>1 DEF Grows

LEMMA ManyRows ==
  ASSUME Typed, NEW more \in Seq(Flow \X Nat), table' = table \o more
  PROVE  /\ table' \in Seq(Flow \X Nat) /\ Grows /\ Len(table') = Len(table) + Len(more)
         /\ \A k \in 1 .. Len(more) : table'[Len(table) + k] = more[k]
<1>1. table \in Seq(Flow \X Nat)
  BY DEF Typed
<1> QED BY <1>1 DEF Grows

(* What others have committed is not touched.                              *)
LEMMA CommittedStays ==
  ASSUME Typed, IdsAreOfTheirRows, Grows, adapter' = adapter, ids' = ids, Orderly' => Orderly,
         \A r \in Round : stage'[r] = "committed" => stage[r] = "committed"
  PROVE  IdsAreOfTheirRows'
<1> SUFFICES ASSUME Orderly',
                    NEW r \in Round, stage'[r] = "committed", adapter' = "mysql" => Inserts[r] <= BatchSize,
                    NEW k \in 1 .. Inserts[r]
             PROVE  ids'[r][k] \in 1 .. Len(table') /\ table'[ids'[r][k]] = <<r, k>>
  BY Zenon DEF IdsAreOfTheirRows, Orderly
<1>1. ids[r][k] \in 1 .. Len(table) /\ table[ids[r][k]] = <<r, k>>
  BY Zenon DEF IdsAreOfTheirRows, Orderly
<1> DEFINE i == ids[r][k]
<1>2. i \in 1 .. Len(table') /\ table'[i] = table[i]
  <2>1. i \in 1 .. Len(table)
    BY <1>1
  <2> HIDE DEF i
  <2> QED BY <2>1 DEF Typed, Grows
<1> QED BY <1>1, <1>2

(* A round in commit whose facts stay the same.                            *)
LEMMA RowsStay ==
  ASSUME Typed, Rows, Grows, adapter' = adapter, adapter = "sqlite" => table' = table,
         NEW r \in Round, Orderly, InCommit(r), written[r] > 0,
         written'[r] = written[r], Row(r)' = Row(r)
  PROVE  Told(r)'
<1>1. Told(r)
  BY DEF Rows
<1> DEFINE row == Row(r)
<1>2. /\ Len(table) \in Nat /\ Len(table') \in Nat /\ Len(table) <= Len(table')
      /\ written[r] \in Nat /\ Inserts[r] \in Nat
  BY DEF Typed, Grows
<1>3. row.first + row.count - 1 <= Len(table')
  BY <1>1, <1>2 DEF Told
<1>4. \A j \in 1 .. row.count : table'[row.first + j - 1] = <<r, written[r] - row.count + j>>
  <2> SUFFICES ASSUME NEW j \in 1 .. row.count
               PROVE  table'[row.first + j - 1] = <<r, written[r] - row.count + j>>
    OBVIOUS
  <2>1. row.first \in Nat /\ row.count \in Nat /\ row.first >= 1 /\ row.first + row.count - 1 <= Len(table)
    BY <1>1, <1>2 DEF Told
  <2>2. table[row.first + j - 1] = <<r, written[r] - row.count + j>>
    BY <1>1 DEF Told
  <2> HIDE DEF row
  <2>3. row.first + j - 1 \in 1 .. Len(table)
    BY <1>2, <2>1
  <2> QED BY <2>2, <2>3 DEF Grows
<1>5. adapter = "sqlite" =>
       /\ row.first + row.count - 1 = Len(table') /\ written[r] <= Len(table')
       /\ \A k \in 1 .. written[r] : table'[Len(table') - written[r] + k] = <<r, k>>
  BY <1>1, <1>2 DEF Told
<1>6. Row(r)' = row
  OBVIOUS
<1> HIDE DEF row
<1> QED BY <1>1, <1>2, <1>3, <1>4, <1>5, <1>6 DEF Told

(* release() of what a session has.                                        *)
LEMMA ReleaseTypes ==
  ASSUME Typed, NEW p \in Round \cup {Absent}, PersistenceReleased(p)
  PROVE  /\ promisesMade' \in Nat /\ mutexPromise' \in 0 .. promisesMade'
         /\ resolved' \subseteq 1 .. promisesMade' /\ awaits' \in [Flow -> Nat]
         /\ active' \in Int /\ out' \subseteq Flow
<1>1. CASE UNCHANGED <<active, out, mutexVars>>
  BY <1>1 DEF Typed, mutexVars
<1>2. CASE p # Absent /\ connection[p] # Absent
  <2>1. active' = active - 1 /\ out' = out \ {connection[p]} /\ (Unlocked \/ UNCHANGED mutexVars)
    BY <1>2 DEF PersistenceReleased, Released
  <2>2. active' \in Int /\ out' \subseteq Flow
    BY <2>1 DEF Typed
  <2>3. CASE Unlocked
    BY <2>2, <2>3 DEF Typed, Unlocked
  <2>4. CASE UNCHANGED mutexVars
    BY <2>2, <2>4 DEF Typed, mutexVars
  <2> QED BY <2>1, <2>2, <2>3, <2>4
<1> QED BY <1>1, <1>2 DEF PersistenceReleased

LEMMA ReleaseHolds ==
  ASSUME Typed, Filed, Named, Held, NEW s \in Session, PersistenceReleased(persistence[s]),
         persistence' = [persistence EXCEPT ![s] = Absent],
         UNCHANGED <<adapter, connection, wasReset>>, \A q \in Query : stage'[q] = stage[q]
  PROVE  Held'
<1> SUFFICES ASSUME adapter = "sqlite", ~ wasReset PROVE Held'
  BY DEF Held
<1> DEFINE p == persistence[s]
<1>1. CASE p # Absent /\ connection[p] # Absent
  <2> DEFINE k == connection[p]
  <2>1. k \in Round /\ k \in out /\ p \in Round
    BY <1>1 DEF Typed, Held
  <2>2. out' = {} /\ mutexPromise' = 0
    BY <1>1, <2>1 DEF PersistenceReleased, Released, Unlocked, Held
  <2>3. \A q \in Query : stage[q] # "run"
    BY <2>1 DEF Held
  <2>4. ASSUME NEW t \in Session, t # s, persistence[t] # Absent, connection[persistence[t]] # Absent PROVE FALSE
    <3>1. connection[persistence[t]] = k /\ persistence[t] \in Round
      BY <2>1, <2>4 DEF Held, Typed
    <3>2. given[k] = persistence[t] /\ given[k] = p
      BY <1>1, <2>1, <3>1 DEF Named
    <3>3. of[persistence[t]] = t /\ of[p] = s
      BY <1>1, <2>4 DEF Filed
    <3> QED BY <2>4, <3>2, <3>3
  <2>5. \A t \in Session : persistence'[t] = IF t = s THEN Absent ELSE persistence[t]
    BY DEF Typed
  <2> QED BY <2>2, <2>3, <2>4, <2>5 DEF Held
<1>2. CASE p = Absent \/ connection[p] = Absent
  <2>1. out' = out /\ mutexPromise' = mutexPromise
    BY <1>2 DEF PersistenceReleased, mutexVars
  <2>2. \A t \in Session : persistence'[t] = IF t = s THEN Absent ELSE persistence[t]
    BY DEF Typed
  <2>3. \A t \in Session : persistence'[t] # Absent /\ connection'[persistence'[t]] # Absent =>
          connection'[persistence'[t]] \in out'
    BY <2>1, <2>2 DEF Held
  <2>4. (mutexPromise' # 0 <=> out' # {}) /\ (\A f, g \in out' : f = g)
        /\ \A q \in Query : stage'[q] = "run" => q \in out'
    BY <2>1 DEF Held
  <2> QED BY <2>3, <2>4 DEF Held
<1> QED BY <1>1, <1>2

-----------------------------------------------------------------------------
(* The steps that write nothing and end nothing.                           *)

(* Without a write every round in commit is told the same as before.       *)
LEMMA RowsKept ==
  ASSUME PersistenceInv, UNCHANGED <<adapter, written, last, table>>, Orderly' => Orderly,
         \A r \in Round : Orderly /\ (InCommit(r))' /\ written[r] > 0 =>
           InCommit(r) /\ connection'[given'[r]] = connection[given[r]]
  PROVE  Rows'
<1> SUFFICES ASSUME Orderly', NEW r \in Round, (InCommit(r))', written'[r] > 0 PROVE Told(r)'
  BY Zenon DEF Rows
<1>1. Orderly /\ InCommit(r) /\ written[r] > 0 /\ connection'[given'[r]] = connection[given[r]]
  OBVIOUS
<1>2. Row(r)' = Row(r)
  BY <1>1 DEF Row, Handle
<1>3. Typed /\ Rows /\ Grows
  BY DEF PersistenceInv, Typed, Grows
<1> QED BY <1>1, <1>2, <1>3, RowsStay

LEMMA IdsKept ==
  ASSUME PersistenceInv, UNCHANGED <<adapter, table, ids>>, Orderly' => Orderly,
         \A r \in Round : stage'[r] = "committed" => stage[r] = "committed"
  PROVE  IdsAreOfTheirRows'
<1>1. Typed /\ IdsAreOfTheirRows /\ Grows
  BY DEF PersistenceInv, Typed, Grows
<1> QED BY <1>1, CommittedStays

LEMMA InRounds ==
  ASSUME Typed, NEW s \in Session, NEW i \in 1 .. Len(rounds[s])
  PROVE  rounds[s][i] \in Round
<1>1. rounds[s] \in Seq(Round)
  BY DEF Typed
<1> QED BY <1>1

LEMMA FiledKept ==
  ASSUME PersistenceInv, UNCHANGED <<rounds, persistence, of, given>>,
         \A r \in Round : (stage[r] # "new" => stage'[r] # "new") /\ ((InCommit(r))' => InCommit(r))
  PROVE  Filed' /\ Provided'
<1>1. Typed /\ Filed /\ Provided
  BY DEF PersistenceInv
<1>2. ASSUME NEW s \in Session, NEW i \in 1 .. Len(rounds[s])
      PROVE  /\ of[rounds[s][i]] = s /\ stage'[rounds[s][i]] # "new"
             /\ (InCommit(rounds[s][i]))' => persistence[s] # Absent
  <2> DEFINE r == rounds[s][i]
  <2>1. r \in Round /\ of[r] = s /\ stage[r] # "new" /\ (InCommit(r) => persistence[s] # Absent)
    BY <1>1, InRounds DEF Filed, Provided
  <2>2. rounds'[s][i] = rounds[s][i]
    OBVIOUS
  <2> QED BY <2>1, <2>2 DEF InCommit
<1>3. \A s \in Session : \A i \in 1 .. Len(rounds'[s]) :
        /\ of'[rounds'[s][i]] = s /\ stage'[rounds'[s][i]] # "new"
        /\ (InCommit(rounds[s][i]))' => persistence'[s] # Absent
  BY <1>2
<1>4. Filed'
  <2>1. \A s \in Session : \A i \in 1 .. Len(rounds'[s]) : of'[rounds'[s][i]] = s /\ stage'[rounds'[s][i]] # "new"
    BY <1>3
  <2> QED BY <1>1, <2>1, Zenon DEF Filed
<1>5. Provided'
  BY <1>1, <1>3, Zenon DEF Provided
<1> QED BY <1>4, <1>5

LEMMA StartQueryStep ==
  ASSUME PersistenceInv, NEW q \in Query, StartQuery(q)
  PROVE  PersistenceInv'
<1>1. /\ stage' \in [Flow -> Stage] /\ stage'[q] = "locking" /\ \A f \in Flow \ {q} : stage'[f] = stage[f]
  BY DEF StartQuery, PersistenceInv, Typed, Flow, Stage
<1>2. UNCHANGED <<adapter, mutexVars, active, out, sessionVars, given, connection, dataVars, ghostVars>>
  BY DEF StartQuery
<1>3. Typed'
  BY <1>1, <1>2 DEF PersistenceInv, Typed, mutexVars, sessionVars, dataVars, ghostVars
<1>4. \A r \in Round : stage'[r] = stage[r] /\ ((InCommit(r))' <=> InCommit(r))
  BY <1>1 DEF InCommit, Flow
<1>5. Filed' /\ Provided' /\ Fresh' /\ Named'
  <2>1. Filed' /\ Provided'
    BY <1>2, <1>4, FiledKept DEF sessionVars
  <2>2. Fresh' /\ Named'
    BY <1>2, <1>4 DEF PersistenceInv, Fresh, Named, sessionVars, dataVars
  <2> QED BY <2>1, <2>2
<1>6. Held'
  BY <1>1, <1>2 DEF PersistenceInv, Held, mutexVars, sessionVars, ghostVars, Flow
<1>7. Alone'
  BY <1>2, <1>4 DEF PersistenceInv, Alone, Orderly, sessionVars, ghostVars
<1>8. Asking'
  BY <1>2, <1>4 DEF PersistenceInv, Asking, Orderly, dataVars, ghostVars
<1>9. Orderly' <=> Orderly
  BY <1>2 DEF Orderly, ghostVars
<1>10. UNCHANGED <<adapter, written, last, table, ids, connection, given>>
  BY <1>2 DEF dataVars
<1>11. Rows' /\ IdsAreOfTheirRows'
  BY <1>4, <1>9, <1>10, RowsKept, IdsKept
<1> QED BY <1>3, <1>5, <1>6, <1>7, <1>8, <1>11 DEF PersistenceInv

LEMMA AskStep ==
  ASSUME PersistenceInv, NEW r \in Round, Ask(r)
  PROVE  PersistenceInv'
<1>1. /\ stage[r] = "run" /\ connection[given[r]] = Absent
      /\ stage' \in [Flow -> Stage] /\ stage'[r] = "locking" /\ \A f \in Flow \ {r} : stage'[f] = stage[f]
  BY DEF Ask, PersistenceInv, Typed, Flow, Stage
<1>2. UNCHANGED <<adapter, mutexVars, active, out, sessionVars, given, connection, dataVars, ghostVars>>
  BY DEF Ask
<1>3. Typed'
  BY <1>1, <1>2 DEF PersistenceInv, Typed, mutexVars, sessionVars, dataVars, ghostVars
<1>4. \A o \in Round : (InCommit(o))' <=> InCommit(o)
  BY <1>1 DEF InCommit, Flow
<1>5. \A o \in Round : stage'[o] # "locking" => stage'[o] = stage[o]
  BY <1>1 DEF Flow
<1>6. Filed' /\ Provided' /\ Fresh' /\ Named'
  <2>1. Filed' /\ Provided'
    BY <1>1, <1>2, <1>4, FiledKept DEF sessionVars, Flow
  <2>2. Fresh' /\ Named'
    BY <1>1, <1>2 DEF PersistenceInv, Fresh, Named, sessionVars, dataVars, Flow
  <2> QED BY <2>1, <2>2
<1>7. Held'
  BY <1>1, <1>2 DEF PersistenceInv, Held, mutexVars, sessionVars, ghostVars, Flow
<1>8. Alone'
  BY <1>2, <1>4 DEF PersistenceInv, Alone, Orderly, sessionVars, ghostVars
<1>9. Asking'
  BY <1>1, <1>2, <1>4 DEF PersistenceInv, Asking, Orderly, dataVars, ghostVars, Flow
<1>10. Orderly' <=> Orderly
  BY <1>2 DEF Orderly, ghostVars
<1>11. UNCHANGED <<adapter, written, last, table, ids, connection, given>>
  BY <1>2 DEF dataVars
<1>12. Rows' /\ IdsAreOfTheirRows'
  BY <1>4, <1>5, <1>10, <1>11, RowsKept, IdsKept
<1> QED BY <1>3, <1>6, <1>7, <1>8, <1>9, <1>12 DEF PersistenceInv

LEMMA AddStep ==
  ASSUME PersistenceInv, NEW s \in Session, NEW r \in Round, Add(s, r)
  PROVE  PersistenceInv'
<1>1. /\ stage[r] = "new"
      /\ stage' \in [Flow -> Stage] /\ stage'[r] = "queued" /\ \A f \in Flow \ {r} : stage'[f] = stage[f]
  BY DEF Add, PersistenceInv, Typed, Flow, Stage
<1>2. UNCHANGED <<adapter, mutexVars, active, out, depth, persistence, given, connection, dataVars, ghostVars>>
  BY DEF Add
<1>3. /\ of' \in [Round -> Session \cup {Absent}] /\ of'[r] = s /\ \A o \in Round \ {r} : of'[o] = of[o]
  BY DEF Add, PersistenceInv, Typed
<1>4. /\ rounds' \in [Session -> Seq(Round)] /\ rounds'[s] = Append(rounds[s], r)
      /\ \A t \in Session \ {s} : rounds'[t] = rounds[t]
  BY DEF Add, PersistenceInv, Typed
<1>5. Typed'
  BY <1>1, <1>2, <1>3, <1>4 DEF PersistenceInv, Typed, mutexVars, dataVars, ghostVars
<1>6. \A o \in Round : (InCommit(o))' <=> InCommit(o)
  BY <1>1 DEF InCommit, Flow
<1>7. Filed'
  <2>1. ASSUME NEW t \in Session, NEW i \in 1 .. Len(rounds'[t])
        PROVE  of'[rounds'[t][i]] = t /\ stage'[rounds'[t][i]] # "new"
    <3>1. CASE i \in 1 .. Len(rounds[t])
      <4>1. rounds[t] \in Seq(Round) /\ rounds'[t][i] = rounds[t][i] /\ rounds[t][i] \in Round
        <5>1. rounds[t] \in Seq(Round) /\ rounds[s] \in Seq(Round)
          BY DEF PersistenceInv, Typed
        <5>2. CASE t = s
          BY <1>4, <3>1, <5>1, <5>2
        <5>3. CASE t # s
          BY <1>4, <3>1, <5>1, <5>3
        <5> QED BY <5>2, <5>3
      <4>2. of[rounds[t][i]] = t /\ stage[rounds[t][i]] # "new"
        BY <3>1 DEF PersistenceInv, Filed
      <4> QED BY <1>1, <1>3, <4>1, <4>2 DEF Flow
    <3>2. CASE i \notin 1 .. Len(rounds[t])
      <4>1. rounds[t] \in Seq(Round)
        BY DEF PersistenceInv, Typed
      <4>2. t = s /\ rounds'[t][i] = r
        BY <1>4, <2>1, <3>2, <4>1
      <4> QED BY <1>1, <1>3, <4>2
    <3> QED BY <3>1, <3>2
  <2>2. \A t \in Session : persistence'[t] # Absent => of'[persistence'[t]] = t
    BY <1>1, <1>2, <1>3 DEF PersistenceInv, Typed, Filed, Fresh
  <2>3. \A o \in Round : (InCommit(o))' => of'[o] \in Session
    BY <1>3, <1>6 DEF PersistenceInv, Filed
  <2> QED BY <2>1, <2>2, <2>3 DEF Filed
<1>7a. Provided'
  <2>1. \A o \in Round : (InCommit(o))' => given'[o] # Absent
    BY <1>2, <1>6 DEF PersistenceInv, Provided
  <2>2. ASSUME NEW t \in Session, NEW i \in 1 .. Len(rounds'[t]), stage'[rounds'[t][i]] \in {"run", "locking"}
        PROVE  persistence'[t] # Absent
    <3>1. rounds[t] \in Seq(Round) /\ rounds[s] \in Seq(Round)
      BY DEF PersistenceInv, Typed
    <3>2. i \in 1 .. Len(rounds[t]) /\ rounds'[t][i] = rounds[t][i] /\ rounds[t][i] # r
      <4>1. CASE t = s
        <5>1. i \in 1 .. Len(rounds[s]) \/ rounds'[s][i] = r
          BY <1>4, <2>2, <3>1, <4>1
        <5>2. i \in 1 .. Len(rounds[s])
          BY <1>1, <2>2, <4>1, <5>1
        <5>3. rounds'[s][i] = rounds[s][i]
          BY <1>4, <3>1, <5>2
        <5> QED BY <1>1, <2>2, <4>1, <5>2, <5>3
      <4>2. CASE t # s
        BY <1>1, <1>4, <2>2, <3>1, <4>2
      <4> QED BY <4>1, <4>2
    <3>3. rounds[t][i] \in Round
      BY <3>1, <3>2
    <3>4. InCommit(rounds[t][i])
      BY <1>1, <2>2, <3>2, <3>3 DEF InCommit, Flow
    <3> QED BY <1>2, <3>2, <3>4 DEF PersistenceInv, Provided
  <2> QED BY <2>1, <2>2, Zenon DEF Provided, InCommit
<1>8. Fresh' /\ Named'
  BY <1>1, <1>2 DEF PersistenceInv, Fresh, Named, dataVars, Flow
<1>9. Held'
  BY <1>1, <1>2 DEF PersistenceInv, Held, mutexVars, ghostVars, Flow
<1>10. Alone'
  <2>1. \A o \in Round : InCommit(o) => of'[o] = of[o]
    BY <1>1, <1>3 DEF InCommit
  <2> QED BY <1>2, <1>6, <2>1 DEF PersistenceInv, Alone, Orderly, ghostVars
<1>11. Asking'
  BY <1>1, <1>2, <1>6 DEF PersistenceInv, Asking, Orderly, dataVars, ghostVars, Flow
<1>12. Orderly' <=> Orderly
  BY <1>2 DEF Orderly, ghostVars
<1>13. UNCHANGED <<adapter, written, last, table, ids, connection, given>>
  BY <1>2 DEF dataVars
<1>14. \A o \in Round : stage'[o] = "committed" => stage[o] = "committed"
  BY <1>1 DEF Flow
<1>15. Rows' /\ IdsAreOfTheirRows'
  BY <1>6, <1>12, <1>13, <1>14, RowsKept, IdsKept
<1> QED BY <1>5, <1>7, <1>7a, <1>8, <1>9, <1>10, <1>11, <1>15 DEF PersistenceInv

(* getConnection() that waits: for the promise of the holder.              *)
Waits(f) ==
  /\ mutexPromise # 0 /\ awaits' = [awaits EXCEPT ![f] = mutexPromise]
  /\ UNCHANGED <<adapter, mutexPromise, promisesMade, resolved, active, out, sessionVars, given, connection, stage,
                 dataVars, ghostVars>>

(* getConnection() that gets one.                                          *)
Gets(f) ==
  /\ active' = active + 1 /\ out' = out \cup {f}
  /\ stage' = [stage EXCEPT ![f] = "run"]
  /\ connection' = IF f \in Round THEN [connection EXCEPT ![given[f]] = f] ELSE connection
  /\ IF adapter = "sqlite"
       THEN /\ mutexPromise = 0 /\ mutexPromise' = promisesMade + 1 /\ promisesMade' = promisesMade + 1
            /\ resolved' = resolved /\ awaits' = [awaits EXCEPT ![f] = 0]
       ELSE UNCHANGED mutexVars
  /\ UNCHANGED <<adapter, sessionVars, given, dataVars, ghostVars>>

LEMMA WaitsStep ==
  ASSUME PersistenceInv, NEW f \in Flow, Waits(f)
  PROVE  PersistenceInv'
<1>1. awaits' \in [Flow -> Nat]
  BY DEF Waits, PersistenceInv, Typed
<1>2. UNCHANGED <<adapter, mutexPromise, promisesMade, resolved, active, out, sessionVars, given, connection, stage,
                  dataVars, ghostVars>>
  BY DEF Waits
<1>3. Typed'
  BY <1>1, <1>2 DEF PersistenceInv, Typed, sessionVars, dataVars, ghostVars
<1>4. Filed' /\ Provided'
  BY <1>2, FiledKept DEF sessionVars, InCommit
<1>5. Fresh' /\ Named'
  BY <1>2 DEF PersistenceInv, Fresh, Named, sessionVars, dataVars
<1>6. Held'
  BY <1>2 DEF PersistenceInv, Held, sessionVars, ghostVars
<1>7. Alone'
  BY <1>2 DEF PersistenceInv, Alone, Orderly, InCommit, sessionVars, ghostVars
<1>8. Asking'
  BY <1>2 DEF PersistenceInv, Asking, Orderly, InCommit, dataVars, ghostVars
<1>9. Orderly' <=> Orderly
  BY <1>2 DEF Orderly, ghostVars
<1>10. UNCHANGED <<adapter, written, last, table, ids, connection, given, stage>>
  BY <1>2 DEF dataVars
<1>11. Rows' /\ IdsAreOfTheirRows'
  BY <1>9, <1>10, RowsKept, IdsKept DEF InCommit
<1> QED BY <1>3, <1>4, <1>5, <1>6, <1>7, <1>8, <1>11 DEF PersistenceInv

LEMMA GetsStep ==
  ASSUME PersistenceInv, NEW f \in Flow, stage[f] = "locking", Gets(f)
  PROVE  PersistenceInv'
<1>1. /\ stage' \in [Flow -> Stage] /\ stage'[f] = "run" /\ \A g \in Flow \ {f} : stage'[g] = stage[g]
  BY DEF Gets, PersistenceInv, Typed, Stage
<1>2. UNCHANGED <<adapter, sessionVars, given, dataVars, ghostVars>>
  BY DEF Gets
<1>3. /\ connection' \in [Round -> Round \cup {Absent}]
      /\ \A p \in Round : connection'[p] = IF f \in Round /\ given[f] = p THEN f ELSE connection[p]
  BY DEF Gets, PersistenceInv, Typed
<1>4. active' \in Int /\ out' \subseteq Flow /\ out' = out \cup {f}
  BY DEF Gets, PersistenceInv, Typed
<1>5. /\ promisesMade' \in Nat /\ mutexPromise' \in 0 .. promisesMade'
      /\ resolved' \subseteq 1 .. promisesMade' /\ awaits' \in [Flow -> Nat]
  <2>1. CASE adapter = "sqlite"
    <3>1. promisesMade \in Nat /\ promisesMade' = promisesMade + 1 /\ mutexPromise' = promisesMade'
      BY <2>1 DEF Gets, PersistenceInv, Typed
    <3>2. resolved \subseteq 1 .. promisesMade /\ awaits \in [Flow -> Nat]
      BY DEF PersistenceInv, Typed
    <3>3. resolved' = resolved /\ awaits' = [awaits EXCEPT ![f] = 0]
      BY <2>1 DEF Gets
    <3>4. resolved' \subseteq 1 .. promisesMade'
      BY <3>1, <3>2, <3>3
    <3>5. awaits' \in [Flow -> Nat]
      BY <3>2, <3>3
    <3> QED BY <3>1, <3>4, <3>5
  <2>2. CASE adapter # "sqlite"
    BY <2>2 DEF Gets, PersistenceInv, Typed, mutexVars
  <2> QED BY <2>1, <2>2
<1>6. Typed'
  BY <1>1, <1>2, <1>3, <1>4, <1>5 DEF PersistenceInv, Typed, sessionVars, dataVars, ghostVars
<1>7. \A r \in Round : (InCommit(r))' <=> InCommit(r)
  BY <1>1 DEF InCommit, Flow
<1>8. \A r \in Round : stage'[r] # "run" => stage'[r] = stage[r]
  BY <1>1 DEF Flow
<1>9. Filed' /\ Provided'
  BY <1>1, <1>2, <1>7, FiledKept DEF sessionVars, Flow
<1>10. Fresh'
  <2> SUFFICES ASSUME NEW r \in Round, stage'[r] \in {"new", "queued"}
               PROVE  /\ given'[r] = Absent /\ connection'[r] = Absent /\ written'[r] = 0
                      /\ \A s \in Session : persistence'[s] # r
                      /\ \A o \in Round : given'[o] # r
    BY DEF Fresh
  <2>1. stage[r] \in {"new", "queued"}
    BY <1>8
  <2>2. /\ given[r] = Absent /\ connection[r] = Absent /\ written[r] = 0
        /\ \A s \in Session : persistence[s] # r
        /\ \A o \in Round : given[o] # r
    BY <2>1 DEF PersistenceInv, Fresh
  <2> QED BY <1>2, <1>3, <2>2 DEF sessionVars, dataVars
<1>11. Named'
  BY <1>2, <1>3 DEF PersistenceInv, Named
<1>12. Held'
  <2> SUFFICES ASSUME adapter = "sqlite", ~ wasReset PROVE Held'
    BY <1>2 DEF Held, ghostVars
  <2>1. out = {} /\ mutexPromise' # 0
    BY DEF Gets, PersistenceInv, Held, Typed
  <2>2. \A s \in Session : persistence[s] # Absent /\ connection'[persistence[s]] # Absent =>
          connection'[persistence[s]] = f
    BY <1>3, <2>1 DEF PersistenceInv, Held, Typed
  <2>3. \A q \in Query : stage'[q] = "run" => q = f
    BY <1>1, <2>1 DEF PersistenceInv, Held, Flow
  <2> QED BY <1>2, <1>4, <2>1, <2>2, <2>3 DEF Held, sessionVars
<1>13. Alone'
  BY <1>2, <1>7 DEF PersistenceInv, Alone, Orderly, sessionVars, ghostVars
<1>14. ASSUME Orderly, NEW r \in Round, InCommit(r), r # f
       PROVE  connection'[given[r]] = connection[given[r]]
  <2>1. given[r] \in Round
    BY <1>14 DEF PersistenceInv, Alone, Typed
  <2>2. f \in Round => given[f] # given[r]
    BY <1>14 DEF PersistenceInv, Alone, InCommit
  <2> QED BY <1>3, <2>1, <2>2
<1>15. Asking'
  <2> SUFFICES ASSUME Orderly, NEW r \in Round, InCommit(r)
               PROVE  /\ stage'[r] = "locking" => connection'[given[r]] = Absent
                      /\ connection'[given[r]] = Absent => written[r] = 0
    BY <1>2, <1>7 DEF Asking, Orderly, dataVars, ghostVars
  <2>1. CASE r = f
    <3>1. given[f] \in Round /\ f # Absent
      BY <2>1 DEF PersistenceInv, Alone, Typed, Flow
    <3> QED BY <1>1, <1>3, <2>1, <3>1
  <2>2. CASE r # f
    BY <1>8, <1>14, <2>2 DEF PersistenceInv, Asking
  <2> QED BY <2>1, <2>2
<1>16. Orderly' <=> Orderly
  BY <1>2 DEF Orderly, ghostVars
<1>17. UNCHANGED <<adapter, written, last, table, ids, given>>
  BY <1>2 DEF dataVars
<1>18. ASSUME Orderly, NEW r \in Round, (InCommit(r))', written[r] > 0
       PROVE  InCommit(r) /\ connection'[given'[r]] = connection[given[r]]
  <2>1. InCommit(r)
    BY <1>7, <1>18
  <2>2. r # f
    BY <1>18, <2>1 DEF PersistenceInv, Asking
  <2> QED BY <1>14, <1>17, <1>18, <2>1, <2>2
<1>19. Rows'
  BY <1>16, <1>17, <1>18, RowsKept
<1>20. IdsAreOfTheirRows'
  BY <1>8, <1>16, <1>17, IdsKept
<1> QED BY <1>6, <1>9, <1>10, <1>11, <1>12, <1>13, <1>15, <1>19, <1>20 DEF PersistenceInv

LEMMA GetConnectionStep ==
  ASSUME PersistenceInv, NEW f \in Flow, GetConnection(f)
  PROVE  PersistenceInv'
<1>1. stage[f] = "locking"
  BY DEF GetConnection
<1>2. Waits(f) \/ Gets(f)
  <2>1. CASE adapter = "sqlite"
    BY <2>1 DEF GetConnection, Waits, Gets
  <2>2. CASE adapter # "sqlite"
    BY <2>2 DEF GetConnection, Gets
  <2> QED BY <2>1, <2>2
<1> QED BY <1>1, <1>2, WaitsStep, GetsStep

-----------------------------------------------------------------------------
(* The steps that write.                                                   *)

LEMMA RunQueryStep ==
  ASSUME PersistenceInv, NEW q \in Query, RunQuery(q)
  PROVE  PersistenceInv'
<1>1. /\ stage[q] = "run" /\ stage' \in [Flow -> Stage] /\ stage'[q] \in {"done", "failed"}
      /\ \A f \in Flow \ {q} : stage'[f] = stage[f]
  BY DEF RunQuery, PersistenceInv, Typed, Flow, Stage
<1>2. Released(q) /\ UNCHANGED <<adapter, sessionVars, given, connection, written, ids, overlapped, wasReset, resets>>
  BY DEF RunQuery
<1>3. failures' \in Nat
  BY DEF RunQuery, PersistenceInv, Typed
<1>4. Grows /\ table' \in Seq(Flow \X Nat)
  <2>1. Typed
    BY DEF PersistenceInv
  <2>2. CASE table' = Append(table, <<q, 1>>)
    BY <2>1, <2>2, OneRow
  <2>3. CASE table' = table
    BY <2>1, <2>3 DEF Typed, Grows
  <2> QED BY <2>2, <2>3 DEF RunQuery
<1>5. /\ last' \in [Flow \cup {Absent} -> Insertion]
      /\ \A h \in (Flow \cup {Absent}) \ {Handle(q)} : last'[h] = last[h]
  <2> DEFINE inserted == [first |-> Len(table) + 1, count |-> 1]
  <2>1. inserted \in Insertion /\ last \in [Flow \cup {Absent} -> Insertion]
    BY DEF PersistenceInv, Typed, Insertion
  <2>2. CASE last' = last
    BY <2>1, <2>2
  <2>3. CASE last' = [last EXCEPT ![Handle(q)] = inserted]
    <3> HIDE DEF inserted
    <3> QED BY <2>1, <2>3
  <2> QED BY <2>2, <2>3 DEF RunQuery
<1>6. /\ promisesMade' \in Nat /\ mutexPromise' \in 0 .. promisesMade'
      /\ resolved' \subseteq 1 .. promisesMade' /\ awaits' \in [Flow -> Nat]
      /\ active' \in Int /\ out' \subseteq Flow
  <2>1. active' \in Int /\ out' \subseteq Flow
    BY <1>2 DEF Released, PersistenceInv, Typed
  <2>2. CASE Unlocked
    BY <2>1, <2>2 DEF PersistenceInv, Typed, Unlocked
  <2>3. CASE UNCHANGED mutexVars
    BY <2>1, <2>3 DEF PersistenceInv, Typed, mutexVars
  <2> QED BY <1>2, <2>2, <2>3 DEF Released
<1>7. Typed'
  BY <1>1, <1>2, <1>3, <1>4, <1>5, <1>6 DEF PersistenceInv, Typed, sessionVars
<1>8. \A r \in Round : stage'[r] = stage[r] /\ ((InCommit(r))' <=> InCommit(r))
  BY <1>1 DEF InCommit, Flow
<1>9. Filed' /\ Provided'
  BY <1>2, <1>8, FiledKept DEF sessionVars
<1>10. Fresh' /\ Named'
  BY <1>2, <1>8 DEF PersistenceInv, Fresh, Named, sessionVars
<1>11. Held'
  <2> SUFFICES ASSUME adapter = "sqlite", ~ wasReset PROVE Held'
    BY <1>2 DEF Held
  <2>1. q \in out
    BY <1>1 DEF PersistenceInv, Held
  <2>2. out' = {} /\ mutexPromise' = 0
    BY <1>2, <2>1 DEF PersistenceInv, Held, Released, Unlocked
  <2>3. \A p \in Query : stage'[p] # "run"
    BY <1>1, <2>1 DEF PersistenceInv, Held, Flow
  <2>4. ASSUME NEW s \in Session, persistence[s] # Absent PROVE connection[persistence[s]] = Absent
    <3>1. persistence[s] \in Round /\ connection[persistence[s]] \in Round \cup {Absent}
      BY <2>4 DEF PersistenceInv, Typed
    <3> QED BY <2>1, <2>4, <3>1 DEF PersistenceInv, Held
  <2> QED BY <1>2, <2>2, <2>3, <2>4 DEF Held, sessionVars
<1>12. Alone'
  BY <1>2, <1>8 DEF PersistenceInv, Alone, Orderly, sessionVars
<1>13. Asking'
  BY <1>2, <1>8 DEF PersistenceInv, Asking, Orderly
<1>14. Rows'
  <2> SUFFICES ASSUME Orderly, NEW r \in Round, InCommit(r), written[r] > 0 PROVE Told(r)'
    BY <1>2, <1>8, Zenon DEF Rows, Orderly
  <2> DEFINE k == connection[given[r]]
  <2>1. /\ given[r] \in Round /\ persistence[of[r]] = given[r] /\ of[r] \in Session
        /\ k # Absent /\ k \in Round
    BY DEF PersistenceInv, Alone, Asking, Typed, Filed
  <2>2. adapter # "sqlite"
    BY <1>1, <2>1 DEF PersistenceInv, Held, Orderly
  <2>3. Row(r)' = Row(r)
    BY <1>2, <1>5, <2>1, <2>2 DEF Row, Handle, Flow
  <2>4. Typed /\ Rows
    BY DEF PersistenceInv
  <2>5. written'[r] = written[r] /\ adapter' = adapter
    BY <1>2
  <2> QED BY <1>4, <2>2, <2>3, <2>4, <2>5, RowsStay
<1>15. IdsAreOfTheirRows'
  <2>1. Typed /\ IdsAreOfTheirRows /\ adapter' = adapter /\ ids' = ids /\ (Orderly' => Orderly)
    BY <1>2 DEF PersistenceInv, Orderly
  <2> QED BY <1>4, <1>8, <2>1, CommittedStays
<1> QED BY <1>7, <1>9, <1>10, <1>11, <1>12, <1>13, <1>14, <1>15 DEF PersistenceInv

LEMMA BatchInsertStep ==
  ASSUME PersistenceInv, NEW r \in Round, BatchInsert(r)
  PROVE  PersistenceInv'
<1> DEFINE n == IF Inserts[r] - written[r] < BatchSize THEN Inserts[r] - written[r] ELSE BatchSize
           k == connection[given[r]]
           inserted == [first |-> Len(table) + 1, count |-> n]
<1>1. /\ stage[r] = "run" /\ k # Absent /\ written[r] < Inserts[r]
      /\ UNCHANGED <<adapter, mutexVars, active, out, sessionVars, given, connection, stage, ids, ghostVars>>
  BY DEF BatchInsert, Runs
<1>2. /\ written[r] \in Nat /\ Len(table) \in Nat /\ Inserts[r] \in Nat
      /\ n \in Nat /\ n >= 1 /\ n <= BatchSize /\ written[r] + n <= Inserts[r]
  BY <1>1 DEF PersistenceInv, Typed
<1>3. /\ table' = table \o [i \in 1 .. n |-> <<r, written[r] + i>>]
      /\ last' = [last EXCEPT ![Handle(k)] = inserted]
      /\ written' = [written EXCEPT ![r] = @ + n]
  BY DEF BatchInsert
<1>4. Inserts[r] <= BatchSize => n = Inserts[r] - written[r]
  BY <1>2
<1>5. inserted \in Insertion /\ inserted.first = Len(table) + 1 /\ inserted.count = n
  BY <1>2 DEF Insertion
<1> HIDE DEF n, inserted
<1>6. /\ table' \in Seq(Flow \X Nat) /\ Grows /\ Len(table') = Len(table) + n
      /\ \A i \in 1 .. n : table'[Len(table) + i] = <<r, written[r] + i>>
  <2> DEFINE more == [i \in 1 .. n |-> <<r, written[r] + i>>]
  <2>1. Typed /\ table' = table \o more
    BY <1>3 DEF PersistenceInv
  <2>2. more \in Seq(Flow \X Nat) /\ Len(more) = n
    BY <1>2 DEF Flow
  <2>3. \A i \in 1 .. n : more[i] = <<r, written[r] + i>>
    OBVIOUS
  <2> HIDE DEF more
  <2> QED BY <2>1, <2>2, <2>3, ManyRows
<1>7. /\ last' \in [Flow \cup {Absent} -> Insertion]
      /\ \A h \in (Flow \cup {Absent}) \ {Handle(k)} : last'[h] = last[h]
  BY <1>3, <1>5 DEF PersistenceInv, Typed
<1>8. /\ written' \in [Round -> Nat] /\ written'[r] = written[r] + n
      /\ \A o \in Round \ {r} : written'[o] = written[o]
  BY <1>2, <1>3 DEF PersistenceInv, Typed
<1>9. Typed'
  BY <1>1, <1>6, <1>7, <1>8 DEF PersistenceInv, Typed, mutexVars, sessionVars, ghostVars
<1>10. Filed' /\ Provided'
  BY <1>1, FiledKept DEF sessionVars, InCommit
<1>11. Fresh' /\ Named'
  BY <1>1, <1>8 DEF PersistenceInv, Fresh, Named, sessionVars
<1>12. Held'
  BY <1>1 DEF PersistenceInv, Held, mutexVars, sessionVars, ghostVars
<1>13. Alone'
  BY <1>1 DEF PersistenceInv, Alone, Orderly, InCommit, sessionVars, ghostVars
<1>14. \A o \in Round : connection[given[o]] = Absent => o # r
  BY <1>1
<1>15. Asking'
  BY <1>1, <1>8, <1>14 DEF PersistenceInv, Asking, Orderly, InCommit, ghostVars
<1>16. Orderly' <=> Orderly
  BY <1>1 DEF Orderly, ghostVars
<1>17. ASSUME Orderly PROVE Told(r)'
  <2>1. given[r] \in Round /\ k \in Round /\ InCommit(r)
    BY <1>1, <1>17 DEF PersistenceInv, Alone, Typed, InCommit
  <2>2. Row(r)' = inserted
    BY <1>1, <1>3, <2>1 DEF PersistenceInv, Typed, Row, Handle, Flow
  <2>3. written[r] > 0 => Told(r)
    BY <1>17, <2>1 DEF PersistenceInv, Rows
  <2>4. /\ inserted.first \in 1 .. Len(table') /\ inserted.count \in 1 .. written'[r]
        /\ inserted.first + inserted.count - 1 = Len(table') /\ written'[r] <= Inserts[r]
    <3>1. Len(table') = Len(table) + n /\ written'[r] = written[r] + n
      BY <1>6, <1>8
    <3> QED BY <1>2, <1>5, <3>1
  <2>5. \A j \in 1 .. n : table'[inserted.first + j - 1] = <<r, written'[r] - n + j>>
    <3> SUFFICES ASSUME NEW j \in 1 .. n
                 PROVE  table'[inserted.first + j - 1] = <<r, written'[r] - n + j>>
      OBVIOUS
    <3>1. inserted.first + j - 1 = Len(table) + j /\ written'[r] - n + j = written[r] + j
      BY <1>2, <1>5, <1>8
    <3> QED BY <1>6, <3>1
  <2>6. Inserts[r] <= BatchSize => n = written'[r] /\ written'[r] = Inserts[r]
    <3> SUFFICES ASSUME Inserts[r] <= BatchSize PROVE n = written'[r] /\ written'[r] = Inserts[r]
      OBVIOUS
    <3>1. written[r] = 0
      BY <1>1, <1>2, <2>3 DEF Told
    <3> QED BY <1>2, <1>4, <1>8, <3>1
  <2>7. ASSUME adapter = "sqlite"
        PROVE  /\ written'[r] <= Len(table')
               /\ \A i \in 1 .. written'[r] : table'[Len(table') - written'[r] + i] = <<r, i>>
    <3>1. written[r] <= Len(table) /\ \A i \in 1 .. written[r] : table[Len(table) - written[r] + i] = <<r, i>>
      <4>1. CASE written[r] = 0
        BY <1>2, <4>1
      <4>2. CASE written[r] > 0
        BY <2>3, <2>7, <4>2 DEF Told
      <4> QED BY <1>2, <4>1, <4>2
    <3>2. written'[r] <= Len(table') /\ Len(table') - written'[r] = Len(table) - written[r]
      BY <1>2, <1>6, <1>8, <3>1
    <3>3. ASSUME NEW i \in 1 .. written'[r] PROVE table'[Len(table) - written[r] + i] = <<r, i>>
      <4>1. CASE i <= written[r]
        <5>1. i \in 1 .. written[r] /\ Len(table) - written[r] + i \in 1 .. Len(table)
          BY <1>2, <1>8, <3>1, <4>1
        <5> QED BY <1>6, <3>1, <5>1 DEF Grows
      <4>2. CASE i > written[r]
        <5>1. /\ i - written[r] \in 1 .. n /\ written[r] + (i - written[r]) = i
              /\ Len(table) - written[r] + i = Len(table) + (i - written[r])
          BY <1>2, <1>8, <4>2
        <5> QED BY <1>6, <5>1
      <4> QED BY <1>2, <1>8, <4>1, <4>2
    <3> QED BY <3>2, <3>3
  <2>8. adapter' = adapter
    BY <1>1
  <2>9. /\ \A j \in 1 .. inserted.count : table'[inserted.first + j - 1] = <<r, written'[r] - inserted.count + j>>
        /\ Inserts[r] <= BatchSize => inserted.count = written'[r] /\ written'[r] = Inserts[r]
    BY <1>5, <2>5, <2>6
  <2>10. inserted.first + inserted.count - 1 <= Len(table')
    BY <1>2, <1>6, <2>4
  <2> QED BY <2>2, <2>4, <2>7, <2>8, <2>9, <2>10 DEF Told
<1>18. Rows'
  <2> SUFFICES ASSUME Orderly, NEW o \in Round, InCommit(o), o # r, written'[o] > 0 PROVE Told(o)'
    BY <1>1, <1>16, <1>17 DEF Rows, InCommit
  <2>1. InCommit(r) /\ given[r] \in Round /\ k \in Round /\ of[r] \in Session /\ persistence[of[r]] = given[r]
    BY <1>1 DEF PersistenceInv, Alone, Typed, InCommit, Filed
  <2>2. written[o] > 0 /\ written'[o] = written[o]
    BY <1>8
  <2> DEFINE c == connection[given[o]]
  <2>3. /\ given[o] \in Round /\ c # Absent /\ c \in Round
        /\ of[o] \in Session /\ persistence[of[o]] = given[o]
    BY <2>2 DEF PersistenceInv, Alone, Asking, Typed, Filed
  <2>4. given[o] # given[r]
    BY <2>1 DEF PersistenceInv, Alone
  <2>5. c # k
    BY <1>1, <2>1, <2>3, <2>4 DEF PersistenceInv, Named
  <2>6. adapter # "sqlite"
    BY <1>1, <2>1, <2>3, <2>5 DEF PersistenceInv, Held, Orderly
  <2>7. Row(o)' = Row(o)
    BY <1>1, <1>7, <2>1, <2>3, <2>5, <2>6 DEF Row, Handle, Flow
  <2>8. Typed /\ Rows /\ adapter' = adapter
    BY <1>1 DEF PersistenceInv
  <2> QED BY <1>6, <2>2, <2>6, <2>7, <2>8, RowsStay
<1>19. IdsAreOfTheirRows'
  <2>1. Typed /\ IdsAreOfTheirRows /\ adapter' = adapter /\ ids' = ids /\ stage' = stage /\ (Orderly' => Orderly)
    BY <1>1, <1>16 DEF PersistenceInv
  <2> QED BY <1>6, <2>1, CommittedStays
<1> QED BY <1>9, <1>10, <1>11, <1>12, <1>13, <1>15, <1>18, <1>19 DEF PersistenceInv

-----------------------------------------------------------------------------
(* The beginning of a commit and the ends of its rounds.                   *)

LEMMA CommitStep ==
  ASSUME PersistenceInv, NEW s \in Session, Commit(s)
  PROVE  PersistenceInv'
<1>1. PICK i \in 1 .. Len(rounds[s]) :
        LET r == rounds[s][i]
            p == IF persistence[s] = Absent THEN r ELSE persistence[s]
        IN /\ stage[r] = "queued"
           /\ persistence' = [persistence EXCEPT ![s] = p]
           /\ depth' = [depth EXCEPT ![s] = @ + 1]
           /\ stage' = [stage EXCEPT ![r] = "run"]
           /\ Begins(r, p, Round)
  BY DEF Commit
<1> DEFINE r == rounds[s][i]
           p == IF persistence[s] = Absent THEN r ELSE persistence[s]
<1>2. r \in Round /\ of[r] = s
  BY InRounds DEF PersistenceInv, Filed
<1>3. p \in Round /\ p \in {r, persistence[s]}
  BY <1>2 DEF PersistenceInv, Typed
<1>4. UNCHANGED <<adapter, mutexVars, active, out, rounds, of, connection, dataVars, wasReset, failures, resets>>
  BY DEF Commit
<1>5. p = IF persistence[s] = Absent THEN r ELSE persistence[s]
  OBVIOUS
<1>6. /\ stage[r] = "queued" /\ persistence' = [persistence EXCEPT ![s] = p]
      /\ depth' = [depth EXCEPT ![s] = @ + 1] /\ stage' = [stage EXCEPT ![r] = "run"]
      /\ given' = [given EXCEPT ![r] = p]
      /\ overlapped' = (overlapped \/ \E o \in Round : InCommit(o) /\ given[o] = p)
  BY <1>1 DEF Begins
<1> HIDE DEF p, r
<1>7. /\ stage' \in [Flow -> Stage] /\ stage'[r] = "run" /\ \A f \in Flow \ {r} : stage'[f] = stage[f]
  BY <1>2, <1>6 DEF PersistenceInv, Typed, Flow, Stage
<1>8. /\ persistence' \in [Session -> Round \cup {Absent}] /\ persistence'[s] = p
      /\ \A t \in Session \ {s} : persistence'[t] = persistence[t]
  BY <1>3, <1>6 DEF PersistenceInv, Typed
<1>9. /\ depth' \in [Session -> Int] /\ depth'[s] = depth[s] + 1
      /\ \A t \in Session \ {s} : depth'[t] = depth[t]
  BY <1>6 DEF PersistenceInv, Typed
<1>10. /\ given' \in [Round -> Round \cup {Absent}] /\ given'[r] = p
       /\ \A o \in Round \ {r} : given'[o] = given[o]
  BY <1>2, <1>3, <1>6 DEF PersistenceInv, Typed
<1>11. overlapped' \in BOOLEAN /\ (Orderly' => Orderly /\ \A o \in Round : InCommit(o) => given[o] # p)
  BY <1>4, <1>6 DEF Orderly
<1>12. Typed'
  BY <1>4, <1>7, <1>8, <1>9, <1>10, <1>11 DEF PersistenceInv, Typed, mutexVars, dataVars
<1>13. /\ given[r] = Absent /\ connection[r] = Absent /\ written[r] = 0
       /\ \A t \in Session : persistence[t] # r
       /\ \A o \in Round : given[o] # r
  BY <1>2, <1>6 DEF PersistenceInv, Fresh
<1>14. \A o \in Round \ {r} : stage'[o] = stage[o] /\ ((InCommit(o))' <=> InCommit(o))
  BY <1>7 DEF InCommit, Flow
<1>15. Filed'
  <2>1. ASSUME NEW t \in Session, NEW j \in 1 .. Len(rounds[t])
        PROVE  of[rounds[t][j]] = t /\ stage'[rounds[t][j]] # "new"
    <3>1. rounds[t][j] \in Round /\ of[rounds[t][j]] = t /\ stage[rounds[t][j]] # "new"
      BY InRounds DEF PersistenceInv, Filed
    <3> QED BY <1>7, <1>14, <3>1
  <2>2. \A t \in Session : persistence'[t] # Absent => of[persistence'[t]] = t
    BY <1>2, <1>3, <1>8 DEF PersistenceInv, Filed
  <2>3. \A o \in Round : (InCommit(o))' => of[o] \in Session
    BY <1>2, <1>14 DEF PersistenceInv, Filed
  <2>4. rounds' = rounds /\ of' = of
    BY <1>4
  <2> QED BY <2>1, <2>2, <2>3, <2>4 DEF Filed
<1>15a. Provided'
  <2>1. \A o \in Round : (InCommit(o))' => given'[o] # Absent
    BY <1>3, <1>10, <1>14 DEF PersistenceInv, Provided
  <2>2. ASSUME NEW t \in Session, NEW j \in 1 .. Len(rounds[t]), stage'[rounds[t][j]] \in {"run", "locking"}
        PROVE  persistence'[t] # Absent
    <3>1. CASE t = s
      BY <1>3, <1>8, <3>1
    <3>2. CASE t # s
      <4>1. rounds[t][j] \in Round \ {r}
        BY <1>2, <3>2, InRounds DEF PersistenceInv, Filed
      <4>2. InCommit(rounds[t][j])
        BY <1>7, <2>2, <4>1 DEF InCommit, Flow
      <4> QED BY <1>8, <3>2, <4>2 DEF PersistenceInv, Provided
    <3> QED BY <3>1, <3>2
  <2>3. rounds' = rounds
    BY <1>4
  <2> QED BY <2>1, <2>2, <2>3, Zenon DEF Provided, InCommit
<1>16. Fresh'
  <2> SUFFICES ASSUME NEW o \in Round, stage'[o] \in {"new", "queued"}
               PROVE  /\ given'[o] = Absent /\ connection'[o] = Absent /\ written'[o] = 0
                      /\ \A t \in Session : persistence'[t] # o
                      /\ \A x \in Round : given'[x] # o
    BY DEF Fresh
  <2>1. o # r /\ stage[o] \in {"new", "queued"}
    BY <1>7, <1>14
  <2>2. /\ given[o] = Absent /\ connection[o] = Absent /\ written[o] = 0
        /\ \A t \in Session : persistence[t] # o
        /\ \A x \in Round : given[x] # o
    BY <2>1 DEF PersistenceInv, Fresh
  <2> QED BY <1>3, <1>4, <1>8, <1>10, <2>1, <2>2 DEF dataVars
<1>17. Named'
  BY <1>2, <1>4, <1>10, <1>13 DEF PersistenceInv, Named, Typed
<1>18. Held'
  <2>1. \A q \in Query : stage'[q] = stage[q]
    BY <1>2, <1>7 DEF Flow
  <2>2. \A t \in Session : persistence'[t] # Absent /\ connection[persistence'[t]] # Absent => persistence'[t] = persistence[t]
    BY <1>3, <1>5, <1>8, <1>13
  <2> QED BY <1>4, <2>1, <2>2 DEF PersistenceInv, Held, mutexVars
<1>19. ASSUME Orderly'
       PROVE  /\ persistence[s] = Absent /\ p = r /\ depth'[s] = 1
              /\ \A o \in Round : InCommit(o) => of[o] # s
  <2>1. Orderly /\ \A o \in Round : InCommit(o) => given[o] # p
    BY <1>11, <1>19
  <2>2. persistence[s] = Absent /\ depth[s] = 0
    BY <1>5, <2>1 DEF PersistenceInv, Alone
  <2>3. \A o \in Round : InCommit(o) => of[o] # s
    BY <2>1, <2>2 DEF PersistenceInv, Alone
  <2> QED BY <1>5, <1>9, <2>2, <2>3
<1>20. Alone'
  <2> SUFFICES ASSUME Orderly' PROVE Alone'
    BY DEF Alone
  <2>1. ASSUME NEW o \in Round, (InCommit(o))'
        PROVE  given'[o] # Absent /\ persistence'[of[o]] = given'[o] /\ depth'[of[o]] = 1
    <3>1. CASE o = r
      BY <1>2, <1>3, <1>8, <1>10, <1>19, <3>1
    <3>2. CASE o # r
      <4>1. InCommit(o) /\ given'[o] = given[o]
        BY <1>10, <1>14, <2>1, <3>2
      <4>2. of[o] \in Session \ {s} /\ given[o] # Absent /\ persistence[of[o]] = given[o] /\ depth[of[o]] = 1
        BY <1>11, <1>19, <4>1 DEF PersistenceInv, Alone, Filed
      <4> QED BY <1>8, <1>9, <4>1, <4>2
    <3> QED BY <3>1, <3>2
  <2>2. ASSUME NEW o \in Round, NEW x \in Round, (InCommit(o))', (InCommit(x))', given'[o] = given'[x]
        PROVE  o = x
    BY <1>10, <1>11, <1>13, <1>14, <1>19, <2>2 DEF PersistenceInv, Alone
  <2>3. ASSUME NEW t \in Session, persistence'[t] # Absent
        PROVE  \E o \in Round : (InCommit(o))' /\ given'[o] = persistence'[t]
    <3>1. CASE t = s
      <4>1. stage'[r] = "run" /\ given'[r] = persistence'[t]
        BY <1>7, <1>8, <1>10, <3>1
      <4> QED BY <1>2, <4>1 DEF InCommit
    <3>2. CASE t # s
      <4>1. persistence'[t] = persistence[t] /\ Orderly
        BY <1>8, <1>11, <3>2
      <4>2. PICK o \in Round : InCommit(o) /\ given[o] = persistence[t]
        BY <2>3, <4>1 DEF PersistenceInv, Alone
      <4>3. o # r
        BY <1>6, <4>2 DEF InCommit
      <4> QED BY <1>10, <1>14, <4>1, <4>2, <4>3
    <3> QED BY <3>1, <3>2
  <2>4. ASSUME NEW t \in Session, persistence'[t] = Absent PROVE depth'[t] = 0
    <3>1. t # s
      BY <1>3, <1>8, <2>4
    <3> QED BY <1>8, <1>9, <1>11, <2>4, <3>1 DEF PersistenceInv, Alone
  <2>5. of' = of
    BY <1>4
  <2> QED BY <2>1, <2>2, <2>3, <2>4, <2>5 DEF Alone
<1>21. Asking'
  <2> SUFFICES ASSUME Orderly', NEW o \in Round, (InCommit(o))'
               PROVE  /\ stage'[o] = "locking" => connection[given'[o]] = Absent
                      /\ connection[given'[o]] = Absent => written[o] = 0
    BY <1>4 DEF Asking, dataVars
  <2>1. CASE o = r
    BY <1>7, <1>13, <2>1
  <2>2. CASE o # r
    BY <1>10, <1>11, <1>14, <2>2 DEF PersistenceInv, Asking
  <2> QED BY <2>1, <2>2
<1>22. Rows'
  <2>1. \A o \in Round : Orderly /\ (InCommit(o))' /\ written[o] > 0 =>
          InCommit(o) /\ connection'[given'[o]] = connection[given[o]]
    BY <1>4, <1>10, <1>13, <1>14
  <2> QED BY <1>4, <1>11, <2>1, RowsKept DEF dataVars
<1>23. IdsAreOfTheirRows'
  <2>1. \A o \in Round : stage'[o] = "committed" => stage[o] = "committed"
    BY <1>7, <1>14
  <2> QED BY <1>4, <1>11, <2>1, IdsKept DEF dataVars
<1> QED BY <1>12, <1>15, <1>15a, <1>16, <1>17, <1>18, <1>20, <1>21, <1>22, <1>23 DEF PersistenceInv

(* A round that ends, and the next of its session that begins.             *)
Passes(r, s, n) ==
  /\ persistence[s] # Absent
  /\ stage[n] = "queued" /\ of[n] = s
  /\ stage' = [stage EXCEPT ![r] = "committed", ![n] = "run"]
  /\ given' = [given EXCEPT ![n] = persistence[s]]
  /\ overlapped' = (overlapped \/ \E o \in Round \ {r} : InCommit(o) /\ given[o] = persistence[s])
  /\ UNCHANGED <<sessionVars, active, out, mutexVars>>

(* A round that ends with a session that gives its connection back.        *)
Closes(r, s) ==
  /\ \E e \in {"committed", "failed"} : stage' = [stage EXCEPT ![r] = e]
  /\ depth' = [depth EXCEPT ![s] = 0] /\ rounds' = [rounds EXCEPT ![s] = <<>>]
  /\ PersistenceReleased(persistence[s])
  /\ persistence' = [persistence EXCEPT ![s] = Absent]
  /\ UNCHANGED <<of, given, overlapped>>

(* A round that ends inside of another commit of its session.              *)
Leaves(r, s) ==
  /\ depth[s] # 1
  /\ stage' = [stage EXCEPT ![r] = "committed"] /\ depth' = [depth EXCEPT ![s] = @ - 1]
  /\ UNCHANGED <<of, given, overlapped, rounds, persistence, active, out, mutexVars>>

(* All but the ids.                                                        *)
Rest == Typed /\ Filed /\ Provided /\ Fresh /\ Named /\ Held /\ Alone /\ Asking /\ Rows

Ends(r) ==
  /\ stage[r] = "run" /\ ids' \in [Round -> Seq(Int)] /\ failures' \in Nat
  /\ UNCHANGED <<adapter, connection, written, table, last, wasReset, resets>>

LEMMA PassesStep ==
  ASSUME PersistenceInv, NEW r \in Round, NEW s \in Session, NEW n \in Round, of[r] = s, Ends(r), Passes(r, s, n)
  PROVE  Rest'
<1>1. /\ stage[r] = "run" /\ stage[n] = "queued" /\ of[n] = s /\ n # r /\ persistence[s] # Absent
      /\ UNCHANGED <<adapter, connection, written, table, last, wasReset, resets>>
      /\ UNCHANGED <<sessionVars, active, out, mutexVars>>
  BY DEF Ends, Passes
<1>2. /\ stage' \in [Flow -> Stage] /\ stage'[r] = "committed" /\ stage'[n] = "run"
      /\ \A f \in Flow \ {r, n} : stage'[f] = stage[f]
  BY <1>1 DEF Passes, PersistenceInv, Typed, Flow, Stage
<1>3. /\ given' \in [Round -> Round \cup {Absent}] /\ given'[n] = persistence[s]
      /\ \A o \in Round \ {n} : given'[o] = given[o]
  BY DEF Passes, PersistenceInv, Typed
<1>4. /\ overlapped' \in BOOLEAN
      /\ Orderly' => Orderly /\ \A o \in Round \ {r} : InCommit(o) => given[o] # persistence[s]
  BY <1>1 DEF Passes, Orderly
<1>5. Typed'
  BY <1>1, <1>2, <1>3, <1>4 DEF Ends, PersistenceInv, Typed, mutexVars, sessionVars
<1>6. /\ given[n] = Absent /\ connection[n] = Absent /\ written[n] = 0
      /\ \A t \in Session : persistence[t] # n
      /\ \A o \in Round : given[o] # n
  BY <1>1 DEF PersistenceInv, Fresh
<1>7. /\ ~ (InCommit(r))' /\ InCommit(r)
      /\ \A o \in Round \ {r, n} : stage'[o] = stage[o] /\ ((InCommit(o))' <=> InCommit(o))
  BY <1>1, <1>2 DEF InCommit, Flow
<1>8. Filed'
  <2>1. ASSUME NEW t \in Session, NEW j \in 1 .. Len(rounds[t])
        PROVE  of[rounds[t][j]] = t /\ stage'[rounds[t][j]] # "new"
    <3>1. rounds[t][j] \in Round /\ of[rounds[t][j]] = t /\ stage[rounds[t][j]] # "new"
      BY InRounds DEF PersistenceInv, Filed
    <3> QED BY <1>2, <1>7, <3>1
  <2>2. \A t \in Session : persistence'[t] # Absent => of[persistence'[t]] = t
    BY <1>1 DEF PersistenceInv, Filed, sessionVars
  <2>3. \A o \in Round : (InCommit(o))' => of[o] \in Session
    BY <1>1, <1>7 DEF PersistenceInv, Filed
  <2>4. rounds' = rounds /\ of' = of
    BY <1>1 DEF sessionVars
  <2> QED BY <2>1, <2>2, <2>3, <2>4 DEF Filed
<1>8a. Provided'
  <2>1. \A o \in Round : (InCommit(o))' => given'[o] # Absent
    BY <1>1, <1>3, <1>7 DEF PersistenceInv, Provided
  <2>2. ASSUME NEW t \in Session, NEW j \in 1 .. Len(rounds[t]), stage'[rounds[t][j]] \in {"run", "locking"}
        PROVE  persistence[t] # Absent
    <3>1. rounds[t][j] \in Round /\ of[rounds[t][j]] = t
      BY InRounds DEF PersistenceInv, Filed
    <3>2. CASE rounds[t][j] = n
      BY <1>1, <3>1, <3>2
    <3>3. CASE rounds[t][j] # n
      <4>1. InCommit(rounds[t][j])
        BY <1>2, <2>2, <3>1, <3>3 DEF InCommit, Flow
      <4> QED BY <4>1 DEF PersistenceInv, Provided
    <3> QED BY <3>2, <3>3
  <2>3. rounds' = rounds /\ persistence' = persistence
    BY <1>1 DEF sessionVars
  <2> QED BY <2>1, <2>2, <2>3, Zenon DEF Provided, InCommit
<1>9. Fresh'
  <2> SUFFICES ASSUME NEW o \in Round, stage'[o] \in {"new", "queued"}
               PROVE  /\ given'[o] = Absent /\ connection'[o] = Absent /\ written'[o] = 0
                      /\ \A t \in Session : persistence'[t] # o
                      /\ \A x \in Round : given'[x] # o
    BY DEF Fresh
  <2>1. o \notin {r, n} /\ stage[o] \in {"new", "queued"}
    BY <1>2, <1>7
  <2>2. /\ given[o] = Absent /\ connection[o] = Absent /\ written[o] = 0
        /\ \A t \in Session : persistence[t] # o
        /\ \A x \in Round : given[x] # o
    BY <2>1 DEF PersistenceInv, Fresh
  <2> QED BY <1>1, <1>3, <2>1, <2>2 DEF sessionVars
<1>10. Named'
  BY <1>1, <1>3, <1>6 DEF PersistenceInv, Named, Typed
<1>11. Held'
  <2>1. \A q \in Query : stage'[q] = stage[q]
    BY <1>2 DEF Flow
  <2> QED BY <1>1, <2>1 DEF PersistenceInv, Held, mutexVars, sessionVars
<1>12. ASSUME Orderly'
       PROVE  /\ given[r] # Absent /\ persistence[s] = given[r] /\ depth[s] = 1
              /\ \A o \in Round : InCommit(o) /\ given[o] = given[r] => o = r
  BY <1>4, <1>7, <1>12 DEF PersistenceInv, Alone
<1>13. Alone'
  <2> SUFFICES ASSUME Orderly' PROVE Alone'
    BY DEF Alone
  <2>1. ASSUME NEW o \in Round, (InCommit(o))'
        PROVE  given'[o] # Absent /\ persistence[of[o]] = given'[o] /\ depth[of[o]] = 1
    <3>1. CASE o = n
      BY <1>1, <1>3, <1>12, <3>1
    <3>2. CASE o # n
      BY <1>3, <1>4, <1>7, <2>1, <3>2 DEF PersistenceInv, Alone
    <3> QED BY <3>1, <3>2
  <2>2. ASSUME NEW o \in Round, NEW x \in Round, (InCommit(o))', (InCommit(x))', given'[o] = given'[x]
        PROVE  o = x
    BY <1>3, <1>4, <1>7, <2>2 DEF PersistenceInv, Alone
  <2>3. ASSUME NEW t \in Session, persistence[t] # Absent
        PROVE  \E o \in Round : (InCommit(o))' /\ given'[o] = persistence[t]
    <3>1. CASE t = s
      BY <1>2, <1>3, <3>1 DEF InCommit
    <3>2. CASE t # s
      <4>1. PICK o \in Round : InCommit(o) /\ given[o] = persistence[t]
        BY <1>4, <2>3 DEF PersistenceInv, Alone
      <4>2. o # r
        BY <1>12, <2>3, <3>2, <4>1 DEF PersistenceInv, Filed
      <4>3. o # n
        BY <1>1, <4>1 DEF InCommit
      <4> QED BY <1>3, <1>7, <4>1, <4>2, <4>3
    <3> QED BY <3>1, <3>2
  <2>4. \A t \in Session : persistence[t] = Absent => depth[t] = 0
    BY <1>4 DEF PersistenceInv, Alone
  <2>5. UNCHANGED <<of, persistence, depth>>
    BY <1>1 DEF sessionVars
  <2> QED BY <2>1, <2>2, <2>3, <2>4, <2>5 DEF Alone
<1>14. Asking'
  <2> SUFFICES ASSUME Orderly', NEW o \in Round, (InCommit(o))'
               PROVE  /\ stage'[o] = "locking" => connection[given'[o]] = Absent
                      /\ connection[given'[o]] = Absent => written[o] = 0
    BY <1>1 DEF Asking
  <2>1. CASE o = n
    BY <1>2, <1>6, <2>1
  <2>2. CASE o # n
    BY <1>3, <1>4, <1>7, <2>2 DEF PersistenceInv, Asking
  <2> QED BY <2>1, <2>2
<1>15. Rows'
  <2>1. \A o \in Round : Orderly /\ (InCommit(o))' /\ written[o] > 0 =>
          InCommit(o) /\ connection'[given'[o]] = connection[given[o]]
    BY <1>1, <1>3, <1>6, <1>7
  <2> QED BY <1>1, <1>4, <2>1, RowsKept
<1> QED BY <1>5, <1>8, <1>8a, <1>9, <1>10, <1>11, <1>13, <1>14, <1>15 DEF Rest

LEMMA ClosesStep ==
  ASSUME PersistenceInv, NEW r \in Round, NEW s \in Session, of[r] = s, Ends(r), Closes(r, s)
  PROVE  Rest'
<1>1. /\ stage[r] = "run" /\ PersistenceReleased(persistence[s])
      /\ UNCHANGED <<adapter, connection, written, table, last, wasReset, resets, of, given, overlapped>>
  BY DEF Ends, Closes
<1>2. /\ stage' \in [Flow -> Stage] /\ stage'[r] \in {"committed", "failed"}
      /\ \A f \in Flow \ {r} : stage'[f] = stage[f]
  BY DEF Closes, PersistenceInv, Typed, Flow, Stage
<1>3. /\ rounds' \in [Session -> Seq(Round)] /\ rounds'[s] = <<>>
      /\ \A t \in Session \ {s} : rounds'[t] = rounds[t]
  BY DEF Closes, PersistenceInv, Typed
<1>4. /\ depth' \in [Session -> Int] /\ depth'[s] = 0
      /\ \A t \in Session \ {s} : depth'[t] = depth[t]
  BY DEF Closes, PersistenceInv, Typed
<1>5. /\ persistence' \in [Session -> Round \cup {Absent}] /\ persistence'[s] = Absent
      /\ \A t \in Session \ {s} : persistence'[t] = persistence[t]
  BY DEF Closes, PersistenceInv, Typed
<1>6. /\ promisesMade' \in Nat /\ mutexPromise' \in 0 .. promisesMade'
      /\ resolved' \subseteq 1 .. promisesMade' /\ awaits' \in [Flow -> Nat]
      /\ active' \in Int /\ out' \subseteq Flow
  <2>1. Typed /\ persistence[s] \in Round \cup {Absent}
    BY DEF PersistenceInv, Typed
  <2> QED BY <1>1, <2>1, ReleaseTypes
<1>7. Typed'
  BY <1>1, <1>2, <1>3, <1>4, <1>5, <1>6 DEF Ends, PersistenceInv, Typed
<1>8. /\ ~ (InCommit(r))' /\ InCommit(r)
      /\ \A o \in Round \ {r} : stage'[o] = stage[o] /\ ((InCommit(o))' <=> InCommit(o))
  BY <1>1, <1>2 DEF InCommit, Flow
<1>9. Filed'
  <2>1. ASSUME NEW t \in Session, NEW j \in 1 .. Len(rounds'[t])
        PROVE  of[rounds'[t][j]] = t /\ stage'[rounds'[t][j]] # "new"
    <3>1. t # s /\ rounds'[t] = rounds[t]
      BY <1>3, <2>1
    <3>2. rounds[t][j] \in Round /\ of[rounds[t][j]] = t /\ stage[rounds[t][j]] # "new"
      BY <3>1, InRounds DEF PersistenceInv, Filed
    <3> QED BY <1>2, <1>8, <3>1, <3>2
  <2>2. \A t \in Session : persistence'[t] # Absent => of[persistence'[t]] = t
    BY <1>5 DEF PersistenceInv, Filed
  <2>3. \A o \in Round : (InCommit(o))' => of[o] \in Session
    BY <1>8 DEF PersistenceInv, Filed
  <2>4. of' = of
    BY <1>1
  <2> QED BY <2>1, <2>2, <2>3, <2>4 DEF Filed
<1>9a. Provided'
  <2>1. \A o \in Round : (InCommit(o))' => given'[o] # Absent
    BY <1>1, <1>8 DEF PersistenceInv, Provided
  <2>2. ASSUME NEW t \in Session, NEW j \in 1 .. Len(rounds'[t]), stage'[rounds'[t][j]] \in {"run", "locking"}
        PROVE  persistence'[t] # Absent
    <3>1. t # s /\ rounds'[t] = rounds[t]
      BY <1>3, <2>2
    <3>2. rounds[t][j] \in Round
      BY <2>2, <3>1, InRounds DEF PersistenceInv
    <3>3. InCommit(rounds[t][j])
      BY <1>2, <2>2, <3>1, <3>2 DEF InCommit, Flow
    <3> QED BY <1>5, <2>2, <3>1, <3>3 DEF PersistenceInv, Provided
  <2> QED BY <2>1, <2>2, Zenon DEF Provided, InCommit
<1>10. Fresh'
  BY <1>1, <1>2, <1>5, <1>8 DEF PersistenceInv, Fresh
<1>11. Named'
  BY <1>1 DEF PersistenceInv, Named
<1>12. Held'
  <2>1. \A q \in Query : stage'[q] = stage[q]
    BY <1>2 DEF Flow
  <2>2. persistence' = [persistence EXCEPT ![s] = Absent]
    BY DEF Closes
  <2>3. Typed /\ Filed /\ Named /\ Held
    BY DEF PersistenceInv
  <2> QED BY <1>1, <2>1, <2>2, <2>3, ReleaseHolds
<1>13. Orderly' <=> Orderly
  BY <1>1 DEF Orderly
<1>14. ASSUME Orderly
       PROVE  /\ persistence[s] = given[r] /\ given[r] # Absent
              /\ \A o \in Round \ {r} : InCommit(o) => of[o] \in Session \ {s} /\ given[o] # given[r]
  BY <1>8, <1>14 DEF PersistenceInv, Alone, Filed
<1>15. Alone'
  <2> SUFFICES ASSUME Orderly PROVE Alone'
    BY <1>13 DEF Alone
  <2>1. ASSUME NEW o \in Round, (InCommit(o))'
        PROVE  given[o] # Absent /\ persistence'[of[o]] = given[o] /\ depth'[of[o]] = 1
    <3>1. o # r /\ InCommit(o) /\ of[o] \in Session \ {s}
      BY <1>8, <1>14, <2>1
    <3> QED BY <1>4, <1>5, <3>1 DEF PersistenceInv, Alone
  <2>2. \A o, x \in Round : (InCommit(o))' /\ (InCommit(x))' /\ given[o] = given[x] => o = x
    BY <1>8 DEF PersistenceInv, Alone
  <2>3. ASSUME NEW t \in Session, persistence'[t] # Absent
        PROVE  \E o \in Round : (InCommit(o))' /\ given[o] = persistence'[t]
    <3>1. t # s /\ persistence'[t] = persistence[t]
      BY <1>5, <2>3
    <3>2. PICK o \in Round : InCommit(o) /\ given[o] = persistence[t]
      BY <2>3, <3>1 DEF PersistenceInv, Alone
    <3>3. o # r
      BY <1>14, <2>3, <3>1, <3>2 DEF PersistenceInv, Filed
    <3> QED BY <1>8, <3>1, <3>2, <3>3
  <2>4. \A t \in Session : persistence'[t] = Absent => depth'[t] = 0
    BY <1>4, <1>5 DEF PersistenceInv, Alone
  <2>5. UNCHANGED <<of, given>>
    BY <1>1
  <2> QED BY <2>1, <2>2, <2>3, <2>4, <2>5 DEF Alone
<1>16. Asking'
  BY <1>1, <1>8, <1>13 DEF PersistenceInv, Asking
<1>17. Rows'
  BY <1>1, <1>8, <1>13, RowsKept
<1> QED BY <1>7, <1>9, <1>9a, <1>10, <1>11, <1>12, <1>15, <1>16, <1>17 DEF Rest

LEMMA LeavesStep ==
  ASSUME PersistenceInv, NEW r \in Round, NEW s \in Session, of[r] = s, Ends(r), Leaves(r, s)
  PROVE  Rest'
<1>1. /\ stage[r] = "run" /\ depth[s] # 1
      /\ UNCHANGED <<adapter, connection, written, table, last, wasReset, resets, of, given, overlapped>>
      /\ UNCHANGED <<rounds, persistence, active, out, mutexVars>>
  BY DEF Ends, Leaves
<1>2. /\ stage' \in [Flow -> Stage] /\ stage'[r] = "committed"
      /\ \A f \in Flow \ {r} : stage'[f] = stage[f]
  BY DEF Leaves, PersistenceInv, Typed, Flow, Stage
<1>3. depth' \in [Session -> Int]
  BY DEF Leaves, PersistenceInv, Typed
<1>4. Typed'
  BY <1>1, <1>2, <1>3 DEF Ends, PersistenceInv, Typed, mutexVars
<1>5. /\ ~ (InCommit(r))' /\ InCommit(r)
      /\ \A o \in Round \ {r} : stage'[o] = stage[o] /\ ((InCommit(o))' <=> InCommit(o))
  BY <1>1, <1>2 DEF InCommit, Flow
<1>6. ~ Orderly /\ ~ Orderly'
  BY <1>1, <1>5 DEF PersistenceInv, Alone, Orderly
<1>7. Filed' /\ Provided'
  BY <1>1, <1>2, <1>5, FiledKept
<1>8. Fresh' /\ Named'
  BY <1>1, <1>2, <1>5 DEF PersistenceInv, Fresh, Named
<1>9. Held'
  BY <1>1, <1>2 DEF PersistenceInv, Held, mutexVars, Flow
<1>10. Alone' /\ Asking' /\ Rows'
  BY <1>6, Zenon DEF Alone, Asking, Rows
<1> QED BY <1>4, <1>7, <1>8, <1>9, <1>10 DEF Rest

LEMMA ThrowsEnds ==
  ASSUME PersistenceInv, NEW r \in Round, Throws(r)
  PROVE  Closes(r, of[r])
BY DEF Throws, Closes

LEMMA EndOfRoundEnds ==
  ASSUME PersistenceInv, NEW r \in Round, stage[r] = "run", EndOfRound(r)
  PROVE  LET s == of[r] IN (\E n \in Round : Passes(r, s, n)) \/ Closes(r, s) \/ Leaves(r, s)
<1> DEFINE s == of[r]
           place == IF Contains(rounds[s], r) THEN CHOOSE i \in 1 .. Len(rounds[s]) : rounds[s][i] = r
                    ELSE Len(rounds[s])
           open == {i \in place + 1 .. Len(rounds[s]) : stage[rounds[s][i]] = "queued"}
<1>1. s \in Session
  BY DEF PersistenceInv, Filed, InCommit
<1>2. rounds[s] \in Seq(Round)
  BY <1>1 DEF PersistenceInv, Typed
<1>3. CASE \E i \in open :
             /\ stage' = [stage EXCEPT ![r] = "committed", ![rounds[s][i]] = "run"]
             /\ Begins(rounds[s][i], persistence[s], Round \ {r})
             /\ UNCHANGED <<sessionVars, active, out, mutexVars>>
  <2>1. PICK i \in open :
          /\ stage' = [stage EXCEPT ![r] = "committed", ![rounds[s][i]] = "run"]
          /\ Begins(rounds[s][i], persistence[s], Round \ {r})
          /\ UNCHANGED <<sessionVars, active, out, mutexVars>>
    BY <1>3
  <2>2. PICK j \in 1 .. Len(rounds[s]) : rounds[s][j] = r /\ place = j
    BY <1>2 DEF Contains
  <2>3. i \in 1 .. Len(rounds[s]) /\ stage[rounds[s][i]] = "queued"
    BY <1>2, <2>2
  <2>4. rounds[s][i] \in Round /\ of[rounds[s][i]] = s
    BY <1>1, <2>3, InRounds DEF PersistenceInv, Filed
  <2>5. persistence[s] # Absent
    BY <1>1, <2>2 DEF PersistenceInv, Provided, InCommit
  <2> QED BY <2>1, <2>3, <2>4, <2>5 DEF Passes, Begins
<1>4. CASE /\ stage' = [stage EXCEPT ![r] = "committed"]
           /\ depth' = [depth EXCEPT ![s] = @ - 1]
           /\ IF depth[s] = 1
                THEN /\ PersistenceReleased(persistence[s])
                     /\ persistence' = [persistence EXCEPT ![s] = Absent]
                     /\ rounds' = [rounds EXCEPT ![s] = <<>>]
                ELSE UNCHANGED <<rounds, persistence, active, out, mutexVars>>
           /\ UNCHANGED <<of, given, overlapped>>
  <2>1. CASE depth[s] = 1
    <3>1. depth' = [depth EXCEPT ![s] = 0]
      BY <1>4, <2>1
    <3> QED BY <1>4, <2>1, <3>1 DEF Closes
  <2>2. CASE depth[s] # 1
    BY <1>4, <2>2 DEF Leaves
  <2> QED BY <2>1, <2>2
<1> QED BY <1>3, <1>4 DEF EndOfRound

LEMMA EndsStep ==
  ASSUME PersistenceInv, NEW r \in Round, Ends(r), EndOfRound(r) \/ Throws(r)
  PROVE  Rest' /\ \A o \in Round \ {r} : stage'[o] = "committed" => stage[o] = "committed"
<1> DEFINE s == of[r]
<1>1. s \in Session
  BY DEF PersistenceInv, Filed, InCommit, Ends
<1>2. (\E n \in Round : Passes(r, s, n)) \/ Closes(r, s) \/ Leaves(r, s)
  BY ThrowsEnds, EndOfRoundEnds DEF Ends
<1>3. Rest'
  <2> HIDE DEF s
  <2>1. s = of[r]
    BY DEF s
  <2> QED BY <1>1, <1>2, <2>1, PassesStep, ClosesStep, LeavesStep
<1>4. ASSUME NEW o \in Round \ {r}, stage'[o] = "committed" PROVE stage[o] = "committed"
  BY <1>2, <1>4 DEF Passes, Closes, Leaves, PersistenceInv, Typed, Flow
<1> QED BY <1>3, <1>4

LEMMA FailStep ==
  ASSUME PersistenceInv, NEW r \in Round, Fail(r)
  PROVE  PersistenceInv'
<1>1. /\ stage[r] = "run" /\ Throws(r) /\ failures' = failures + 1
      /\ UNCHANGED <<adapter, connection, dataVars, wasReset, resets>>
  BY DEF Fail, Runs
<1>2. Ends(r)
  BY <1>1 DEF Ends, PersistenceInv, Typed, dataVars
<1>3. stage'[r] = "failed" /\ overlapped' = overlapped
  BY DEF Fail, Throws, PersistenceInv, Typed, Flow
<1>4. Rest' /\ \A o \in Round : stage'[o] = "committed" => stage[o] = "committed"
  BY <1>1, <1>2, <1>3, EndsStep
<1>5. IdsAreOfTheirRows'
  BY <1>1, <1>3, <1>4, IdsKept DEF dataVars, Orderly
<1> QED BY <1>4, <1>5 DEF PersistenceInv, Rest

(* populateAutoIncrementFields changes the ids of one round.               *)
LEMMA OnlyTheIdsOf ==
  ASSUME PersistenceInv, NEW r \in Round, UNCHANGED <<adapter, table>>, Orderly' => Orderly,
         \A o \in Round \ {r} : ids'[o] = ids[o] /\ (stage'[o] = "committed" => stage[o] = "committed"),
         Orderly /\ stage'[r] = "committed" /\ (adapter = "mysql" => Inserts[r] <= BatchSize) =>
           \A k \in 1 .. Inserts[r] : ids'[r][k] \in 1 .. Len(table) /\ table[ids'[r][k]] = <<r, k>>
  PROVE  IdsAreOfTheirRows'
<1> SUFFICES ASSUME Orderly',
                    NEW o \in Round, stage'[o] = "committed", adapter' = "mysql" => Inserts[o] <= BatchSize,
                    NEW k \in 1 .. Inserts[o]
             PROVE  ids'[o][k] \in 1 .. Len(table') /\ table'[ids'[o][k]] = <<o, k>>
  BY Zenon DEF IdsAreOfTheirRows, Orderly
<1>1. CASE o = r
  BY <1>1
<1>2. CASE o # r
  <2>1. Orderly /\ stage[o] = "committed" /\ ids'[o] = ids[o] /\ (adapter = "mysql" => Inserts[o] <= BatchSize)
    BY <1>2
  <2>2. ids[o][k] \in 1 .. Len(table) /\ table[ids[o][k]] = <<o, k>>
    <3>1. IdsAreOfTheirRows
      BY DEF PersistenceInv
    <3> QED BY <2>1, <3>1, Zenon DEF IdsAreOfTheirRows, Orderly
  <2> QED BY <2>1, <2>2
<1> QED BY <1>1, <1>2

(* Round r gets n ids from start on.                                       *)
Counts(r, start, n) == ids' = [ids EXCEPT ![r] = [i \in 1 .. n |-> start + i - 1]]

LEMMA IdsType ==
  ASSUME Typed, NEW r \in Round, NEW start \in Int, NEW n \in Nat, Counts(r, start, n)
  PROVE  /\ ids' \in [Round -> Seq(Int)]
         /\ \A i \in 1 .. n : ids'[r][i] = start + i - 1
         /\ \A o \in Round \ {r} : ids'[o] = ids[o]
<1> DEFINE new == [i \in 1 .. n |-> start + i - 1]
<1>1. new \in Seq(Int) /\ \A i \in 1 .. n : new[i] = start + i - 1
  OBVIOUS
<1>2. ids \in [Round -> Seq(Int)] /\ ids' = [ids EXCEPT ![r] = new]
  BY DEF Typed, Counts
<1> HIDE DEF new
<1> QED BY <1>1, <1>2

(* What populateAutoIncrementFields assigns.                               *)
LEMMA PopulateStep ==
  ASSUME PersistenceInv, NEW r \in Round, Populate(r)
  PROVE  PersistenceInv'
<1> DEFINE k == connection[given[r]]
           row == last[Handle(k)]
           total == Inserts[r]
<1>1. /\ stage[r] = "run" /\ k # Absent /\ written[r] = total
      /\ UNCHANGED <<adapter, connection, written, table, last, wasReset, failures, resets>>
  BY DEF Populate, Runs
<1>2. total \in Nat /\ total >= 1
  OBVIOUS
<1>3. InCommit(r) /\ k \in Round /\ given[r] \in Round
  BY <1>1 DEF InCommit, PersistenceInv, Provided, Typed
<1>4. row.first \in Nat /\ row.count \in Nat
  BY <1>3 DEF PersistenceInv, Typed, Handle, Flow, Insertion
<1>5. \/ Throws(r) /\ \E start \in Int, n \in Nat : Counts(r, start, n)
      \/ /\ EndOfRound(r)
         /\ Counts(r, IF adapter = "sqlite" THEN row.first + row.count - total ELSE row.first, total)
         /\ adapter \notin {"sqlite", "mysql"} => row.count >= total
  <2>1. CASE adapter = "sqlite"
    BY <2>1 DEF Populate, SqliteIds, Numbered, Counts
  <2>2. CASE adapter = "mysql"
    BY <2>2 DEF Populate, MySQLIds, Numbered, Counts
  <2>3. CASE adapter \notin {"sqlite", "mysql"}
    <3>1. PostgresIds(r, row)
      BY <2>3 DEF Populate
    <3>2. CASE row.count >= total
      BY <1>2, <1>4, <2>3, <3>1, <3>2 DEF PostgresIds, Numbered, Counts
    <3>3. CASE ~ (row.count >= total)
      <4>1. Counts(r, row.first, row.count) /\ Throws(r)
        BY <3>1, <3>3 DEF PostgresIds, Counts
      <4> QED BY <1>4, <4>1
    <3> QED BY <3>2, <3>3
  <2> QED BY <2>1, <2>2, <2>3
<1>6. PICK start \in Int, n \in Nat : Counts(r, start, n)
  <2>1. row.first + row.count - total \in Int /\ row.first \in Int /\ total \in Nat
    BY <1>2, <1>4
  <2> HIDE DEF row, total
  <2> QED BY <1>5, <2>1
<1>7. ids' \in [Round -> Seq(Int)] /\ \A o \in Round \ {r} : ids'[o] = ids[o]
  BY <1>6, IdsType DEF PersistenceInv
<1>8. Ends(r)
  BY <1>1, <1>7 DEF Ends, PersistenceInv, Typed
<1>9. Rest' /\ \A o \in Round \ {r} : stage'[o] = "committed" => stage[o] = "committed"
  BY <1>5, <1>8, EndsStep
<1>10. Orderly' => Orderly
  BY <1>1, <1>5 DEF Orderly, Throws, EndOfRound, Begins
<1>11. ASSUME Orderly, stage'[r] = "committed", adapter = "mysql" => total <= BatchSize, NEW j \in 1 .. total
       PROVE  ids'[r][j] \in 1 .. Len(table) /\ table[ids'[r][j]] = <<r, j>>
  <2>1. ~ Throws(r)
    BY <1>11 DEF Throws, PersistenceInv, Typed, Flow
  <2>2. /\ ids'[r][j] = IF adapter = "sqlite" THEN row.first + row.count - total + j - 1 ELSE row.first + j - 1
        /\ adapter \notin {"sqlite", "mysql"} => row.count >= total
    <3> DEFINE from == IF adapter = "sqlite" THEN row.first + row.count - total ELSE row.first
    <3>1. Counts(r, from, total) /\ from \in Int
      BY <1>2, <1>4, <1>5, <2>1
    <3>2. ids'[r][j] = from + j - 1
      <4> HIDE DEF from
      <4> QED BY <1>2, <3>1, IdsType DEF PersistenceInv
    <3> QED BY <1>5, <2>1, <3>1, <3>2
  <2>3. Told(r) /\ Row(r) = row
    BY <1>1, <1>2, <1>3, <1>11 DEF PersistenceInv, Rows, Row
  <2> HIDE DEF row
  <2>4. /\ row.first \in 1 .. Len(table) /\ row.count \in 1 .. total /\ row.first + row.count - 1 <= Len(table)
        /\ \A i \in 1 .. row.count : table[row.first + i - 1] = <<r, total - row.count + i>>
        /\ total <= BatchSize => row.count = total
        /\ adapter = "sqlite" =>
             /\ row.first + row.count - 1 = Len(table) /\ total <= Len(table)
             /\ \A i \in 1 .. total : table[Len(table) - total + i] = <<r, i>>
    BY <1>1, <2>3 DEF Told
  <2>5. Len(table) \in Nat
    BY DEF PersistenceInv, Typed
  <2>6. CASE adapter = "sqlite"
    <3>1. ids'[r][j] = row.first + row.count - total + j - 1 /\ row.first + row.count - 1 = Len(table) /\ total <= Len(table)
      BY <2>2, <2>4, <2>6
    <3>2. /\ row.first + row.count - total + j - 1 = Len(table) - total + j
          /\ Len(table) - total + j \in 1 .. Len(table)
      <4> HIDE DEF total
      <4>1. j \in Nat /\ j >= 1 /\ j <= total
        BY <1>2
      <4>2. \A a, c, t, l \in Nat : a + c - 1 = l /\ t <= l /\ j <= t =>
              a + c - t + j - 1 = l - t + j /\ l - t + j \in 1 .. l
        BY <4>1
      <4> DEFINE a == row.first
                 c == row.count
                 l == Len(table)
      <4>3. a \in Nat /\ c \in Nat /\ total \in Nat /\ l \in Nat /\ a + c - 1 = l /\ total <= l
        BY <1>2, <1>4, <2>5, <3>1
      <4> HIDE DEF a, c, l
      <4>4. a + c - total + j - 1 = l - total + j /\ l - total + j \in 1 .. l
        BY <4>1, <4>2, <4>3
      <4> QED BY <4>4 DEF a, c, l
    <3> QED BY <2>4, <2>6, <3>1, <3>2
  <2>7. CASE adapter # "sqlite"
    <3>1. row.count = total
      BY <1>2, <1>11, <2>2, <2>4, <2>7
    <3>2. ids'[r][j] = row.first + j - 1 /\ ids'[r][j] \in 1 .. Len(table)
      BY <1>2, <1>4, <2>2, <2>4, <2>5, <2>7, <3>1
    <3>3. total - row.count + j = j
      BY <1>2, <3>1
    <3> QED BY <2>4, <3>1, <3>2, <3>3
  <2> QED BY <2>6, <2>7
<1>12. IdsAreOfTheirRows'
  BY <1>1, <1>7, <1>9, <1>10, <1>11, OnlyTheIdsOf
<1> QED BY <1>9, <1>12 DEF PersistenceInv, Rest

LEMMA ResetStep ==
  ASSUME PersistenceInv, NEW s \in Session, Reset(s)
  PROVE  PersistenceInv'
<1>1. /\ PersistenceReleased(persistence[s]) /\ wasReset' = TRUE /\ resets' = resets + 1
      /\ UNCHANGED <<adapter, of, given, connection, stage, dataVars, overlapped, failures>>
  BY DEF Reset
<1>2. /\ rounds' \in [Session -> Seq(Round)] /\ rounds'[s] = <<>>
      /\ \A t \in Session \ {s} : rounds'[t] = rounds[t]
  BY DEF Reset, PersistenceInv, Typed
<1>3. depth' \in [Session -> Int]
  BY DEF Reset, PersistenceInv, Typed
<1>4. /\ persistence' \in [Session -> Round \cup {Absent}] /\ persistence'[s] = Absent
      /\ \A t \in Session \ {s} : persistence'[t] = persistence[t]
  BY DEF Reset, PersistenceInv, Typed
<1>5. /\ promisesMade' \in Nat /\ mutexPromise' \in 0 .. promisesMade'
      /\ resolved' \subseteq 1 .. promisesMade' /\ awaits' \in [Flow -> Nat]
      /\ active' \in Int /\ out' \subseteq Flow
  <2>1. Typed /\ persistence[s] \in Round \cup {Absent}
    BY DEF PersistenceInv, Typed
  <2> QED BY <1>1, <2>1, ReleaseTypes
<1>6. wasReset' \in BOOLEAN /\ resets' \in Nat
  BY <1>1 DEF PersistenceInv, Typed
<1>7. Typed'
  BY <1>1, <1>2, <1>3, <1>4, <1>5, <1>6 DEF PersistenceInv, Typed, dataVars
<1>8. Filed' /\ Provided'
  <2>1. ASSUME NEW t \in Session, NEW i \in 1 .. Len(rounds'[t])
        PROVE  /\ of[rounds'[t][i]] = t /\ stage[rounds'[t][i]] # "new"
               /\ InCommit(rounds'[t][i]) => persistence'[t] # Absent
    <3>1. t # s /\ rounds'[t] = rounds[t] /\ persistence'[t] = persistence[t]
      BY <1>2, <1>4, <2>1
    <3> QED BY <2>1, <3>1 DEF PersistenceInv, Filed, Provided
  <2>2. Filed'
    BY <1>1, <1>4, <2>1 DEF PersistenceInv, Filed, InCommit
  <2>3. Provided'
    BY <1>1, <2>1 DEF PersistenceInv, Provided, InCommit
  <2> QED BY <2>2, <2>3
<1>9. Fresh' /\ Named'
  BY <1>1, <1>4 DEF PersistenceInv, Fresh, Named, dataVars
<1>10. Held' /\ Alone' /\ Asking' /\ Rows' /\ IdsAreOfTheirRows'
  BY <1>1, Zenon DEF Held, Alone, Asking, Rows, IdsAreOfTheirRows, Orderly
<1> QED BY <1>7, <1>8, <1>9, <1>10 DEF PersistenceInv

-----------------------------------------------------------------------------
LEMMA StutterStep == PersistenceInv /\ UNCHANGED persistenceVars => PersistenceInv'
<1> SUFFICES ASSUME PersistenceInv, UNCHANGED persistenceVars PROVE PersistenceInv'
  OBVIOUS
<1>1. UNCHANGED <<adapter, mutexVars, active, out, sessionVars, given, connection, stage, dataVars, ghostVars>>
  BY DEF persistenceVars
<1>2. Typed'
  BY <1>1 DEF PersistenceInv, Typed, mutexVars, sessionVars, dataVars, ghostVars
<1>3. UNCHANGED <<rounds, of, depth, persistence, given, connection, stage>>
  BY <1>1 DEF sessionVars
<1>4. UNCHANGED <<adapter, written, table, last, ids, overlapped, wasReset>>
  BY <1>1 DEF dataVars, ghostVars
<1>5. Filed' /\ Provided' /\ Fresh' /\ Named'
  BY <1>3, <1>4 DEF PersistenceInv, Filed, Provided, Fresh, Named, InCommit
<1>6. Held'
  BY <1>1, <1>3, <1>4 DEF PersistenceInv, Held, mutexVars
<1>7. Alone' /\ Asking'
  BY <1>3, <1>4 DEF PersistenceInv, Alone, Asking, Orderly, InCommit
<1>8. Rows' /\ IdsAreOfTheirRows'
  BY <1>3, <1>4, RowsKept, IdsKept DEF Orderly, InCommit
<1> QED BY <1>2, <1>5, <1>6, <1>7, <1>8 DEF PersistenceInv

(* Every step keeps the invariant.                                         *)
LEMMA PersistenceStep == PersistenceInv /\ [SqlNext]_persistenceVars => PersistenceInv'
<1> SUFFICES ASSUME PersistenceInv, [SqlNext]_persistenceVars PROVE PersistenceInv'
  OBVIOUS
<1>1. ASSUME NEW f \in Flow, Step(f) PROVE PersistenceInv'
  <2>1. CASE GetConnection(f)
    BY <2>1, GetConnectionStep
  <2>2. CASE f \in Query /\ RunQuery(f)
    BY <2>2, RunQueryStep
  <2>3. CASE f \in Round /\ Ask(f)
    BY <2>3, AskStep
  <2>4. CASE f \in Round /\ BatchInsert(f)
    BY <2>4, BatchInsertStep
  <2>5. CASE f \in Round /\ Populate(f)
    BY <2>5, PopulateStep
  <2> QED BY <1>1, <2>1, <2>2, <2>3, <2>4, <2>5 DEF Step
<1>2. ASSUME NEW q \in Query, StartQuery(q) PROVE PersistenceInv'
  BY <1>2, StartQueryStep
<1>3. ASSUME NEW s \in Session, Commit(s) PROVE PersistenceInv'
  BY <1>3, CommitStep
<1>4. ASSUME NEW s \in Session, Reset(s) PROVE PersistenceInv'
  BY <1>4, ResetStep
<1>5. ASSUME NEW s \in Session, NEW r \in Round, Add(s, r) PROVE PersistenceInv'
  BY <1>5, AddStep
<1>6. ASSUME NEW r \in Round, Fail(r) PROVE PersistenceInv'
  BY <1>6, FailStep
<1>7. CASE UNCHANGED persistenceVars
  BY <1>7, StutterStep
<1> QED BY <1>1, <1>2, <1>3, <1>4, <1>5, <1>6, <1>7 DEF SqlNext

(* Who uses a connection and whose a row is, at any moment: the inductive  *)
(* invariant of the persistence.                                           *)
THEOREM PersistenceInvariance == SqlSpec => []PersistenceInv
<1>1. SqlInit => PersistenceInv
  BY SqlStart
<1>2. PersistenceInv /\ [SqlNext]_persistenceVars => PersistenceInv'
  BY PersistenceStep
<1> QED BY <1>1, <1>2, PTL DEF SqlSpec

(* SQLite's connection has one user (SQLiteConnectionPool.getConnection    *)
(* with the Mutex), and the items of a committed round have the ids of     *)
(* their own rows (populateAutoIncrementFields of the three adapters).     *)
THEOREM PersistenceIsSafe == SqlSpec => []PersistenceSafety
<1>1. PersistenceInv => PersistenceSafety
  <2> SUFFICES ASSUME PersistenceInv PROVE PersistenceSafety
    OBVIOUS
  <2>1. SqlTypeOK
    BY DEF PersistenceInv, Typed, SqlTypeOK, Flow
  <2>2. OneUserOfSqlite
    <3> SUFFICES ASSUME adapter = "sqlite", ~ wasReset PROVE Cardinality(out) <= 1
      BY DEF OneUserOfSqlite
    <3>1. CASE out = {}
      BY <3>1, FS_EmptySet
    <3>2. ASSUME NEW f \in out PROVE Cardinality(out) <= 1
      <4>1. out = {f}
        BY DEF PersistenceInv, Held
      <4> QED BY <4>1, FS_Singleton
    <3> QED BY <3>1, <3>2
  <2>3. IdsAreOfTheirRows
    BY DEF PersistenceInv
  <2> QED BY <2>1, <2>2, <2>3 DEF PersistenceSafety
<1> QED BY <1>1, PersistenceInvariance, PTL
==============================================================================
