------------------------------ MODULE MCBroker ------------------------------
(***************************************************************************)
(* The three services of the broker: locks, entity fields and channels. Two*)
(* requests of one connection and one of another compete for a lock; two   *)
(* clients publish overlapping fields; two subscribers of one client come  *)
(* and go while another publishes.                                         *)
(***************************************************************************)
EXTENDS BrokerLocks, BrokerEntityFields, BrokerChannels

CONSTANTS i1, l1, l2, l3, c1, c2, f1, p1, p3, s1, s2

VARIABLES
  part  \* the component that runs

MCLock == {l1, l2, l3}
MCIdOf == [l \in MCLock |-> i1]
MCConnOf == [l \in MCLock |-> IF l = l3 THEN c2 ELSE c1]
MCPublisherOf == [p \in {p1, p3} |-> IF p = p3 THEN c2 ELSE c1]
MCFieldsOf == [p \in {p1, p3} |-> {f1}]
MCOwnerOf == [s \in {s1, s2} |-> c1]

locksVars == <<entry, queue, holding, ttl, ttlTimer, waitTimer, caller,
  open, locks, settled, closing, toUnlock, client, toServer, toClient>>
entitiesVars == <<counts, named, connected, waits, handling, living, store,
  known, loaded, progress, asked, resolved, requests, answers, overtaken>>
channelsVars == <<connections, subscriptions, subscribed, alive, listener,
  callbacks, at, reading, buffered, rest, handled, status, toBroker,
  fromBroker, published, thrown, delivered, since, skipped>>

ASSUME EntityFieldsAssumption
ASSUME ChannelAssumption

runVars == <<part, locksVars, entitiesVars, channelsVars>>

(* All components are at their beginning; one of them, chosen here, goes on. *)
RunInit ==
  /\ part \in {"locks", "entities", "channels"}
  /\ BrokerInit
  /\ FieldsInit
  /\ ChannelInit

LocksNext == part = "locks" /\ BrokerNext /\ UNCHANGED <<part, entitiesVars,
  channelsVars>>
EntityFieldsNext == part = "entities" /\ FieldsNext /\ UNCHANGED <<part,
  locksVars, channelsVars>>
ChannelsNext == part = "channels" /\ ChannelNext /\ UNCHANGED <<part,
  locksVars, entitiesVars>>

RunNext == LocksNext \/ EntityFieldsNext \/ ChannelsNext

(* The fairness of the components. *)
RunFairness ==
  /\ \A c \in {c1, c2} : WF_entitiesVars(part = "entities" /\ FieldsClientStep(c))
  /\ \A c \in {c1, c2} : WF_entitiesVars(part = "entities" /\ FieldsServerStep(c))
  /\ \A p \in {p1, p3} : WF_entitiesVars(part = "entities" /\ Reply(p))
  /\ \A c \in {c1, c2} : WF_channelsVars(part = "channels" /\ ClientStep(c))
  /\ \A c \in {c1, c2} : WF_channelsVars(part = "channels" /\ ServerStep(c))

RunSpec == RunInit /\ [][RunNext]_runVars /\ RunFairness
=============================================================================
