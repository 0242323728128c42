------------------------------ MODULE LiveQuery ------------------------------
(***************************************************************************)
(* Live queries: a collection that a client got from LiveQuery.find()      *)
(* (framework/src/database/live-database.ts) and entities it got from      *)
(* findOne(). Writers change rows and then publish what they did in the    *)
(* channel of the entity; the server keeps the ids of the collection up    *)
(* to date and passes patches of the entities in use on to the client,     *)
(* which keeps one item per id (rpc/src/client/entity-state.ts) under its  *)
(* collections (rpc/src/collection.ts) and subjects.                       *)
(*                                                                         *)
(* A database query has two steps, its reading and its answer, with        *)
(* messages in between. Those meetings the code has no answer to are       *)
(* noted per id in raced, and the properties are about all other ids. So   *)
(* are ids that getItem() took one another for, in misfetched.             *)
(***************************************************************************)
EXTENDS Integers, Sequences, SequencesExt, FiniteSets, FiniteSetsExt, Functions

CONSTANTS Id,
    Limit,                  \* size of a page of a collection with paging
    MaxVersion, MaxWrites,  \* bounds on the versions of a row and on the writes
    MaxSubjects             \* bound on the calls of findOne()

VARIABLES
    rows,           \* rows[id]: whether it is there, its version and whether the filter matches
    channel,        \* messages on their way to the server of the client
    paged,          \* whether the collection has a limit
    live,           \* whether LiveCollection is subscribed to the channel
    started,        \* whether the collection was sent to the client
    known,          \* knownIDs
    sent,           \* sent[id]: the SentState, its listeners and lastSentVersion
    tasks,          \* database queries under way
    client,         \* of the client: whether it has an EntitySubjectStore of the entity, the
                    \* items in it, who forked them, patches kept in onCreation, the items of
                    \* the collection, and ids of lost patches
    writes, subjects,
    raced,          \* ids for which a race was met
    misfetched      \* ids for which another row was fetched, and those of rows that came
                    \* so without being known

database == <<rows, writes>>
server == <<paged, live, started, known, sent, tasks>>
vars == <<database, channel, server, client, subjects, raced, misfetched>>

NotSent == [listeners |-> 0, last |-> 0]
NoItem == [version |-> 0, has |-> {}]
NotRead == [id \in Id |-> [status |-> "unread", version |-> 0, match |-> FALSE]]

Matching(state) == {id \in Id : state[id].status = "there" /\ state[id].match}
InOrder(ids) == SetToSortSeq(ids, <)
(* What find() of the collection returns. *)
Found(state) ==
    LET all == InOrder(Matching(state))
    IN IF paged THEN SubSeq(all, 1, Min({Len(all), Limit})) ELSE all
(* An item at version v has all changes up to it. *)
Item(state, id) == [id |-> id, version |-> state[id].version]
-----------------------------------------------------------------------------
(* The listeners of enableChangeFeed(): a unit of work or a query writes,  *)
(* then publishes; the version is increased with every update. A patch     *)
(* carries the fields that were announced when it was composed. Writes are *)
(* published in their order here, the channel is as slow as it likes.      *)
Published(type, id, row, match) ==
    /\ rows' = [rows EXCEPT ![id] = row]
    /\ channel' = Append(channel, [type |-> type, id |-> id, version |-> row.version, match |-> match,
                                   blind |-> type = "patch" /\ ~live])
Insert(id) ==
    /\ rows[id].status = "new"
    /\ \E match \in BOOLEAN :
         Published("add", id, [status |-> "there", version |-> 1, match |-> match], match)
Patch(id) ==
    /\ rows[id].status = "there" /\ rows[id].version < MaxVersion
    /\ \E match \in BOOLEAN :
         Published("patch", id, [rows[id] EXCEPT !.version = @ + 1, !.match = match], match /\ live)
Delete(id) ==
    /\ rows[id].status = "there"
    /\ Published("remove", id, [rows[id] EXCEPT !.status = "gone", !.match = FALSE], FALSE)
Write(id) ==
    /\ writes < MaxWrites /\ raced # Id
    /\ Insert(id) \/ Patch(id) \/ Delete(id)
    /\ writes' = writes + 1
    /\ UNCHANGED <<server, client, subjects, raced, misfetched>>
-----------------------------------------------------------------------------
(* increaseUsage, decreaseUsage and rmSentState of SubscriptionHandler. It *)
(* is subscribed to the channel as long as it has a state.                 *)
Increased(s, ids) == [id \in Id |-> IF id \in ids THEN [s[id] EXCEPT !.listeners = @ + 1] ELSE s[id]]
(* Mutant: the state is dropped whoever else uses the entity. *)
DecreasedAll(s, ids) == [id \in Id |-> IF id \in ids THEN NotSent ELSE s[id]]
Decreased(s, ids) ==
    [id \in Id |-> IF id \notin ids THEN s[id]
                   ELSE IF s[id].listeners <= 1 THEN NotSent ELSE [s[id] EXCEPT !.listeners = @ - 1]]

Task(kind, id) == [kind |-> kind, id |-> id, read |-> NotRead]
IsRead(t) == t.read # NotRead
(* updateCollection(): one at a time, a later call waits for the same one. *)
Updating == IF \E t \in tasks : t.kind = "update" THEN {} ELSE {Task("update", 0)}

(* What one message makes of the collection: ids that leave and enter it,  *)
(* queries it asks for and the event for the client. With a limit any of   *)
(* these is a new query; an id that comes in by a patch is fetched.        *)
Effect(m) ==
    LET none == [leave |-> {}, enter |-> {}, ask |-> {}, event |-> <<>>]
        leaves == m.type = "remove" \/ (m.type = "patch" /\ m.id \in known /\ ~m.match)
        enters == m.type # "remove" /\ m.id \notin known /\ m.match
    IN CASE (leaves \/ enters) /\ paged -> [none EXCEPT !.ask = Updating]
         [] leaves /\ ~paged -> [none EXCEPT !.leave = {m.id}, !.event = <<[type |-> "remove", ids |-> {m.id}]>>]
         [] enters /\ ~paged /\ m.type = "add" ->
              [none EXCEPT !.enter = {m.id},
                           !.event = <<[type |-> "add", item |-> [id |-> m.id, version |-> m.version]]>>]
         [] enters /\ ~paged /\ m.type = "patch" ->
              [none EXCEPT !.enter = {m.id}, !.ask = {Task("item", m.id)}]
         [] OTHER -> none

(* What the handler of entities in use passes on. *)
PassedOn(m, s) ==
    IF m.type = "remove" THEN <<[type |-> "entityRemove", id |-> m.id]>>
    ELSE IF m.type = "patch" /\ s THEN <<[type |-> "entityPatch", id |-> m.id, version |-> m.version]>>
    ELSE <<>>

(* A write that a query already read does not know of meets its answer.    *)
Newer(m, t) == \/ m.version > t.read[m.id].version
               \/ m.type = "remove" /\ t.read[m.id].status = "there"
Races(m) ==
    LET late == {t \in tasks : IsRead(t) /\ Newer(m, t)}
    IN (IF late = {} THEN {} ELSE IF paged THEN Id ELSE {m.id})
       \cup (IF m.blind /\ live THEN {m.id} ELSE {})

-----------------------------------------------------------------------------
(* EntitySubjectStore: a patch of the item's own version is left out, any  *)
(* other one is applied. *)
Patched(item, v) == IF item.version = v THEN item ELSE [version |-> v, has |-> item.has \cup {v}]

(* register(): with the patches that came before it, which may be older.   *)
Registered(c, item) ==
    LET first == [version |-> item.version, has |-> 1..item.version]
        older == \E i \in DOMAIN c.early[item.id] : c.early[item.id][i] < item.version
    IN IF c.store[item.id] # NoItem THEN c
       ELSE [c EXCEPT !.store[item.id] = FoldLeft(Patched, first, c.early[item.id]),
                      !.early[item.id] = <<>>,
                      !.lost = IF older THEN @ \cup {item.id} ELSE @]

Forked(c, item, by) == [Registered([c EXCEPT !.hasStore = TRUE], item) EXCEPT !.forks[item.id] = @ \cup {by}]

(* The last fork that is unsubscribed takes the item along.                *)
Unforked(c, id) ==
    LET left == c.forks[id] \ {"collection"}
    IN [c EXCEPT !.forks[id] = left, !.store[id] = IF left = {} THEN NoItem ELSE @]

(* The items of a collection. *)
SetItems(c, new) ==
    [FoldLeft(LAMBDA d, item : Forked(d, item, "collection"), c, new) EXCEPT
       !.items = [i \in DOMAIN new |-> new[i].id]]
AddItem(c, item) ==
    [Forked(c, item, "collection") EXCEPT !.items = IF Contains(@, item.id) THEN @ ELSE Append(@, item.id)]
RemoveItems(c, ids) ==
    [FoldSet(LAMBDA id, d : Unforked(d, id), c, ids \cap ToSet(c.items)) EXCEPT
       !.items = SelectSeq(@, LAMBDA id : id \notin ids)]
SortItems(c, ids) == [c EXCEPT !.items = SelectSeq(ids, LAMBDA id : Contains(@, id))]

(* A patch before the client has a store of the entity is an error there,  *)
(* and lost; one before the item is registered is kept.                    *)
PatchReceived(c, id, v) ==
    IF ~c.hasStore THEN [c EXCEPT !.lost = @ \cup {id}]
    ELSE IF c.store[id] = NoItem THEN [c EXCEPT !.early[id] = Append(@, v)]
    ELSE [c EXCEPT !.store[id] = Patched(@, v)]

(* onDelete() takes the item from the store, forks of it stay.             *)
Deleted(c, id) == [c EXCEPT !.store[id] = NoItem]

Received(c, m) ==
    CASE m.type = "set" -> SetItems(c, m.items)
      [] m.type = "add" -> AddItem(c, m.item)
      [] m.type = "remove" -> RemoveItems(c, m.ids)
      [] m.type = "sort" -> SortItems(c, m.ids)
      [] m.type = "entity" -> Forked(c, m.item, "subject")
      [] m.type = "entityPatch" -> PatchReceived(c, m.id, m.version)
      [] m.type = "entityRemove" -> Deleted(c, m.id)

(* What is sent is received before anything else happens: the server does  *)
(* not depend on the client, and its messages stay in order.               *)
Send(messages) == client' = FoldLeft(Received, client, messages)
-----------------------------------------------------------------------------
(* A message reaches the callbacks of the channel, LiveCollection's first. *)
(* Its events go out at the next microtask, after what the handler sends.  *)
Deliver ==
    /\ channel # <<>>
    /\ LET m == Head(channel)
           e == IF live THEN Effect(m) ELSE [leave |-> {}, enter |-> {}, ask |-> {}, event |-> <<>>]
           s == Increased(Decreased(sent, e.leave), e.enter)
           subscribed == \E id \in Id : s[id].listeners > 0 \/ sent[id].listeners > 0
           pass == s[m.id].listeners > 0 /\ m.version > s[m.id].last
       IN /\ known' = (known \ e.leave) \cup e.enter
          /\ sent' = IF m.type = "remove" THEN [s EXCEPT ![m.id] = NotSent]
                     ELSE IF m.type = "patch" /\ pass THEN [s EXCEPT ![m.id].last = m.version] ELSE s
          /\ tasks' = tasks \cup e.ask
          /\ Send((IF subscribed THEN PassedOn(m, pass) ELSE <<>>) \o (IF started THEN e.event ELSE <<>>))
          /\ raced' = raced \cup Races(m)
    /\ channel' = Tail(channel)
    /\ UNCHANGED <<database, paged, live, started, subjects, misfetched>>
-----------------------------------------------------------------------------
(* startSync(): fields are announced and the channel is subscribed before  *)
(* the query. *)
Start ==
    /\ ~live
    /\ live' = TRUE
    /\ tasks' = tasks \cup {Task("start", 0)}
    /\ UNCHANGED <<database, channel, paged, started, known, sent, client, subjects, raced, misfetched>>

(* findOne(): here only while the collection keeps the channel open.       *)
FindOne(id) ==
    /\ started /\ subjects < MaxSubjects
    /\ subjects' = subjects + 1
    /\ tasks' = tasks \cup {Task("one", id)}
    /\ UNCHANGED <<database, channel, paged, live, started, known, sent, client, raced, misfetched>>

Read(t) ==
    /\ ~IsRead(t)
    /\ tasks' = (tasks \ {t}) \cup {[t EXCEPT !.read = rows]}
    /\ UNCHANGED <<database, channel, paged, live, started, known, sent, client, subjects, raced, misfetched>>

(* The end of startSync(), and the answer of the action with it.           *)
Started(t) ==
    LET found == Found(t.read) IN
    /\ known' = known \cup ToSet(found)
    /\ sent' = Increased(sent, ToSet(found))
    /\ started' = TRUE
    /\ Send(<<[type |-> "set", items |-> [i \in DOMAIN found |-> Item(t.read, found[i])]]>>)
    /\ tasks' = tasks \ {t}
    /\ UNCHANGED <<subjects, misfetched>>

(* _updateCollection(); raced when startSync() has not finished, it sets   *)
(* its older items afterwards.                                             *)
Updated(t) ==
    LET found == Found(t.read)
        new == SelectSeq(found, LAMBDA id : id \notin known)
        old == known \ ToSet(found)
        added == [i \in DOMAIN new |-> [type |-> "add", item |-> Item(t.read, new[i])]]
        removed == IF old = {} THEN <<>> ELSE <<[type |-> "remove", ids |-> old]>>
    IN /\ t.kind = "update" /\ IsRead(t)
       /\ known' = ToSet(found)
       /\ sent' = Decreased(Increased(sent, ToSet(new)), old)
       /\ Send(IF started THEN added \o removed \o <<[type |-> "sort", ids |-> found]>> ELSE <<>>)
       /\ tasks' = tasks \ {t}
       /\ raced' = IF \E o \in tasks : o.kind = "start" THEN Id ELSE raced
       /\ UNCHANGED <<database, channel, paged, live, started, subjects, misfetched>>

(* getItem(): the condition for the id is put on a clone of the query that *)
(* is dropped, so that it gets one of the rows that match, which one is up *)
(* to the database. If there is none, all is queried.                      *)
Fetched(t) ==
    /\ IF Matching(t.read) = {}
       THEN /\ tasks' = (tasks \ {t}) \cup Updating
            /\ UNCHANGED <<client, misfetched>>
       ELSE /\ \E got \in Matching(t.read) :
                 /\ IF started THEN Send(<<[type |-> "add", item |-> Item(t.read, got)]>>) ELSE UNCHANGED client
                 /\ misfetched' = IF got = t.id THEN misfetched ELSE misfetched \cup {t.id} \cup ({got} \ known)
            /\ tasks' = tasks \ {t}
    /\ UNCHANGED <<known, sent, started, subjects>>

(* findOne(): patches are sent from any version on.                        *)
FoundOne(t) ==
    /\ IF t.read[t.id].status = "there"
       THEN /\ sent' = [Increased(sent, {t.id}) EXCEPT ![t.id].last = 0]
            /\ Send(<<[type |-> "entity", item |-> Item(t.read, t.id)]>>)
       ELSE UNCHANGED <<sent, client>>
    /\ tasks' = tasks \ {t}
    /\ UNCHANGED <<known, started, subjects, misfetched>>

Answer(t) ==
    /\ IsRead(t)
    /\ \/ t.kind = "start" /\ Started(t)
       \/ t.kind = "item" /\ Fetched(t)
       \/ t.kind = "one" /\ FoundOne(t)
    /\ UNCHANGED <<database, channel, paged, live, raced>>
-----------------------------------------------------------------------------
Init ==
    /\ rows \in [Id -> {[status |-> "new", version |-> 0, match |-> FALSE]} \cup
                        [status : {"there"}, version : {1}, match : BOOLEAN]]
    /\ channel = <<>> /\ paged \in BOOLEAN /\ live = FALSE /\ started = FALSE
    /\ known = {} /\ sent = [id \in Id |-> NotSent] /\ tasks = {}
    /\ client = [hasStore |-> FALSE, store |-> [id \in Id |-> NoItem], forks |-> [id \in Id |-> {}],
                 early |-> [id \in Id |-> <<>>], items |-> <<>>, lost |-> {}]
    /\ writes = 0 /\ subjects = 0 /\ raced = {} /\ misfetched = {}

Next ==
    \/ \E id \in Id : Write(id)
    \/ Deliver \/ Start
    \/ \E id \in Id : FindOne(id)
    \/ \E t \in tasks : Read(t) \/ Answer(t) \/ Updated(t)

Spec == Init /\ [][Next]_vars
-----------------------------------------------------------------------------
Quiet == /\ started /\ channel = <<>> /\ tasks = {}

(***************************************************************************)
(* When all is delivered, the collection at the client has the items that  *)
(* the query would find, and every item it shows or a subject holds is at  *)
(* the version of its row with all changes in it. Not so what met a race,  *)
(* and a row that a patch made match when other rows do too: its id is     *)
(* known then, but another row was sent (live-database.ts:353), possibly   *)
(* one that is not known, the changes of which are not followed.           *)
(***************************************************************************)
ClientFollows ==
    Quiet =>
      /\ ToSet(client.items) \ (raced \cup misfetched) = ToSet(Found(rows)) \ (raced \cup misfetched)
      /\ \A id \in Id \ (raced \cup misfetched \cup client.lost) :
           client.forks[id] # {} /\ rows[id].status = "there" =>
             client.store[id] = [version |-> rows[id].version, has |-> 1..rows[id].version]
=============================================================================
