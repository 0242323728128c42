# TLA+ models of Deepkit

Deepkit is a TypeScript framework: a type system with serializers, an ORM with a unit of work, an RPC protocol, a broker
between processes, an HTTP server and the application framework around them, one package each under `packages/`. These
modules model the parts whose difficulty is in the order of events, in what overlaps, and in algorithms whose parts have
to agree: the locks and the broker, the layers of the RPC protocol, the commit of the ORM with the adapters, pools and
migrations below it, the modules and services of an application and its HTTP requests. TLC checks each on a small
instance; for thirteen components TLAPS proves the safety properties for every instance.

Run `tlc -config X.cfg M` and `tlapm M.tla` in this directory. `PROJECT.json` lists the runs, the lines every definition
translates, and for every property a mutant: a plausible bug of the code that the property finds.

- [The system](#the-system)
- [The models](#the-models)
- [The runs](#the-runs)
- [Fairness](#fairness)
- [The proofs](#the-proofs)
- [Where code and claims part](#where-code-and-claims-part)
- [What is not modelled](#what-is-not-modelled)
- [Plan](#plan)

## The system

All of it runs on Node: one thread takes one event (a message, a timer, a socket event) at a time, runs its handler to
the end, then the continuations of the promises the handler resolved. What interleaves are handlers and the pieces of
an `async` function between two `await`s. Two pieces of one function see each other's state; between them anything may
have happened. That is the granularity of every model here: an action is a handler, a timer, or the code from one
`await` to the next.

### Components, their state and their hard parts

| Component | State | Operations | Interacts with | Hard | What makes it correct |
|---|---|---|---|---|---|
| Process-wide lock, `core/src/process-locker.ts` | `LOCKS[id]` with its queue; in every `ProcessLock` the flag `holding` and its ttl timer | `acquireLock`, `tryLock`, `unlock`, `isLocked`, the timers of ttl and timeout | `unlock` calls the next request directly; the broker's server uses it | timers that fire late or never get cleared, unlock twice or after the ttl | one holder, first come first served, every waiter settles, no entry left behind |
| Broker locks, `broker/src/{client,kernel}.ts` | per connection the `locks` Map; a promise per request under way | `lock`, `tryLock`, `Unlock`, `close` of a connection | RPC messages; `ProcessLocker` in the server | a connection that closes while its requests wait, the loop of `close()` that hands locks on, late messages | what clients are told is true, what is held can be given back, a dead client holds nothing |
| Broker channels | server: `subscriptions` of a channel, `subscribedChannels` of a connection; client: `listener` count and `callbacks` of a `BrokerChannel` | `subscribe`, its `unsubscribe`, `publish`, fan-out | RPC messages; live queries stand on it | subscribers come and go while requests and messages are on their way, and inside the loop that calls them; callbacks that throw into the framing, which hands out messages again | a route exactly while somebody listens; every message, in order, and again only behind an exception |
| Broker entity fields | server: a count of clients per field; client: a count of publications per field and `knownEntityFields` | `publishEntityFields`, its subscription, `getEntityFields`, broadcasts and their acks | RPC messages in both directions: the server's handler awaits answers of all other clients | overlapping requests, answers older than broadcasts, clients that never answer | the two levels of counting agree, clients know the fields of the server |
| Broker key-value store | one Map | `set`, `get`, `delete`, `increment` | RPC messages | nothing: each is one handler | - |
| RPC framing, `RpcBufferReader` in `rpc/src/protocol.ts` | the current message and its size | `feed` | sockets feed it, messages go to the reader | a stream cut anywhere, buffers the socket uses again, handlers that throw | the messages that were sent, whole, once, in order, as soon as they are there |
| RPC chunking, `RpcMessageWriter`, `RpcMessageReader` | writer: chunk id; reader: loaded chunks, ack callbacks | `write`, `writeFull`, `onRpcMessage` | framing below, calls and kernel above | large messages interleave under ids that meet; the client's reader outlives connections | whole messages; one chunk without an ack at a time; every message arrives |
| RPC client transport, `rpc/src/client/client.ts` | connection flag and id, promise of the attempt, replies that are waited for | `connect`, handshake, `disconnect`, callbacks of sockets, `sendMessage` | transports, framing, actions | callbacks of sockets that were replaced, awaits of the handshake | one connection at a time, every `connect` and every reply settles |
| RPC actions and streams, `rpc/src/{client,server}/action.ts` | subscriptions of observables and subjects at both ends | call, subscribe, next, complete, unsubscribe | the messages of one call under one id | values before the type of the stream is known, the end of a stream from both sides | values in order, none after the end, everything unsubscribed |
| RPC collections and entity states | items, forks, patches that came early | set, add, remove, patch, fork | entity messages of the server | patches before the entity, versions, forks during removal | client and server hold the same items |
| RPC kernel connections and peers, `rpc/src/server/kernel.ts` | replies waited for, timers, registered peers | messages, `registerAsPeer`, routing, `close` | security and peer exchange of the application | two awaits between "is it registered" and "register it" | one connection for a peer id, no peer after its connection |
| Unit of work of the ORM, `orm/src/{database-session,identity-map}.ts` | rounds with their add and remove queues, `commitDepth`, the persistence; identity map, snapshots, known-in-database flags | `add`, `remove`, `commit`, `reset`, hooks | adapters (insert, update, remove), the event emitter, plugins | everything is awaited: the application and listeners go on in the middle of a commit; errors halfway | after a commit the rows are what the entities hold, snapshots are what the rows hold, the session is clean |
| Grouping sort, `topsort/` | elements, groups | `add`, `sort` | orders the inserts of the unit of work | references in diamonds and circles | every element behind its dependencies |
| `Mutex` and SQL connection pools | promise and resolver; the connection a persistence keeps | `lock`, `unlock`; `getConnection`, `release` | unit of work, debugger | unlock by who does not hold it, nested waits | one user of the connection, nobody waits for ever |
| MongoDB client | connections, reservations, idle timers, last command | `getConnection`, `release`, `execute`, `close` | sockets; its framing is a copy of `RpcBufferReader` | commands that wait for one another, timers of connections in use | one command at a time, answers to their commands |
| HTTP kernel, router, listeners; workflow engine, event dispatcher, `http/src/{http,kernel,router}.ts`, `workflow/`, `event/` | the compiled router with its last match; per request the place in the workflow | `handleRequest`, listeners of ten places, `resolveFn`, `apply`, `dispatch` | injector (a scope per request) | listeners and parameters are awaited while other requests are routed; listeners that stop, send or deny | every request is answered, controllers only behind authorization, with the parameters of the own path |
| Live queries, `framework/src/database/live-database.ts` | known ids, counts of sent entities | subscription, messages of entity channels, updates | broker channels and fields, collections, ORM | queries and messages interleave | the collection is the result of the query |
| Debugger's frame store | queues of frames, last numbers | `add`, `syncNow` | files shared by worker processes | errors in the middle, several writers | no frame lost, no number twice |
| Change detection and updates, `type/src/changes*.ts`, adapters' `batchUpdate` and `patch` | items, snapshots, change sets, references | `increase`, edits, `commit`, `patch`, hydration | unit of work, databases | other sessions write the same rows; batches mix items with different changes | a commit changes what its session edited and nothing else |
| Query builder, `orm/src/query.ts` | query objects that share parameters, lifts and joins | `filter`, `join`, `end`, `lift`, `clone`, `find`, `patch`, `delete` | event listeners, adapters | what clones share | a kept query says what it said; a query of a subclass stays with its rows |
| Joins and rows, `sql/src/sql-builder.ts`, `orm/src/formatter.ts` | a stack of the last record per join | `convertRows`, `hydrate` | adapters | rows come in the order the database likes | each item once, with its items and no others |
| SQL schemas, `sql/src/schema/`, platforms | two models of a table and the table there is | `computeDiff`, `getModifyTableDDL` | migrations | columns, indices and keys change at once, on three dialects | a migrated table is that of the model and keeps its data |
| Migrations, `sql/src/cli/` | files, the table of versions, what was run | `create`, `up`, `down`, `pending` | schemas, people with a shell | commands at the same time, or cut short, without a transaction; files that come late | what is recorded was run in whole, what is not was not |
| BSON, `bson/src/` | flags and defaults that compiled functions share | `serialize`, `deserialize` | RPC, MongoDB | the sizer and the writer are two programs; nested and circular objects | buffers have their size; what was written is read |
| Injector and service container, `injector/`, `app/src/service-container.ts` | contexts, instances, flags of creation | `get`, `createChildScope`, `processModule` | modules, HTTP and RPC scopes | retrievers are shared by all requests | one instance per scope, requests apart, errors that are true |
| Modules and configuration, `app/src/{module,application}.ts` | modules with their imports, parents and options | `configure`, `setup`, `forRoot`, `clone`, `loadConfig` | injector | clones and parents | the configuration of a module is the one it was given |
| Application server and workers, type system, serializers, template, adapters' queries, user interfaces | - | - | - | data and generated code, or presentation | see [below](#what-is-not-modelled) |

How they stand on each other: sockets feed the **framing**, which feeds the **chunking**, which feeds the **client** or
the **kernel connection**; a message goes to a pending reply or a handler. **Broker** client and server are one
application of that; its locks stand on the **process-wide lock**. The **unit of work** calls the adapter and the
listeners of its hooks and orders its inserts with the **grouping sort**; its **updates** and **pools** are those of the
adapters, whose tables come from **schemas** by **migrations**. **Live queries** stand on broker channels, entity fields,
collections and the ORM. **Modules** become contexts of the **injector**, which gives **HTTP** and RPC requests a scope
each.

## The models

A module models one component. `MC*` modules hold the constants of the instances; the six that a passing run of several
components needs (`MCApplication`, `MCBroker`, `MCRpc`, `MCActions`, `MCServices`, `MCOrm`) put components that do not
touch one another side by side: the variable `part` is chosen at the beginning and names the component that runs, the
others stay where they begin, and each keeps its own fairness. Such a module EXTENDS the components whose theorems speak of
the properties of its run (`ProcessLocker`; `BrokerLocks`, `BrokerEntityFields` and `BrokerChannels`; `RpcBufferReader`, `RpcChunks` and
`RpcTransporter`; `RpcPeers`; `MongoPool` and `SqlPersistence`; `EntityUpdates` and `Migrations`) and instantiates the
others with their own variables. `MCBrokerLocks`, `MCRpcBufferReader`, `MCRpcChunks` and `MCDatabaseSession` are instances
of a single component.

Operators marked "Mutant", or not used by a specification, are the bugs of `PROJECT.json`. Variables marked "observed" do
not exist in the code: they record what a property speaks about.

| Area | Module | Models | Proofs |
|---|---|---|---|
| Locks and broker | `Arrays` | `arrayRemoveItem` | `BrokerProofs` |
| | `LockService` | the abstract promise of a lock | |
| | `ProcessLocker` | `process-locker.ts` | `BrokerProofs` |
| | `BrokerLocks` | locks through broker connections, over `ProcessLocker` | `BrokerProofs` |
| | `BrokerEntityFields` | fields of entities | `BrokerFieldsProofs` |
| | `BrokerChannels` | channels | `BrokerProofs` |
| RPC | `RpcBufferReader` | framing | `RpcProofs` |
| | `RpcChunks` | large messages | `RpcChunksProofs` |
| | `RpcTransporter` | connections of a client | `RpcProofs` |
| | `RpcStreams` | results and streams of actions | |
| | `RpcPeers` | peers of the kernel | `RpcPeersProofs` |
| | `LiveQuery` | live queries with collections and entity states | |
| | `Bson` | sizer, serializer and decoder | |
| ORM | `DatabaseSession` | the unit of work | `DatabaseSessionProofs` |
| | `EntityUpdates` | updates | `OrmProofs` |
| | `QueryBuilder`, `SqlSelect`, `SqlSchema` | queries, joins, schemas | |
| | `Migrations` | the commands of migrations | `OrmProofs` |
| | `GroupSort` | the sort of the items of a round | |
| Connections | `MongoPool` | the pool of the MongoDB client | `PoolsProofs` |
| | `SqlPersistence` | the mutex, the SQL pools and ids of new rows | `PoolsProofs` |
| Application | `Injector`, `AppModules` | services; modules and configuration | |
| | `Http` | requests, router, listeners and workflow | |

### Arrays, LockService, ProcessLocker

`Arrays` is `arrayRemoveItem` of `core/src/core.ts` with what has to be said about arrays of distinct items.
`LockService` is the abstract promise: requests are idle, waiting or the owner, at most one owner per id, and an id
somebody waits for is passed on in the step in which its owner leaves. `ProcessLocker` is `process-locker.ts`:

| Model | Code |
|---|---|
| `entry[i]`, `queue[i]` | `LOCKS[i]` exists, `LOCKS[i].queue` |
| `holding[l]`, `ttlTimer[l]` | the fields of a `ProcessLock` |
| `ttl[l]`, `waitTimer[l]` | what the closure `ourTake` and the timer of `timeout` captured |
| `caller[l]` | the promise of `acquireLock` as its caller sees it |
| `AcquireLock` (`TakeFree`, `Enqueue`), `TryLock` | `acquire`, `tryLock` |
| `Release` (`HandOver`, `Free`, `LateUnlock`) | the three ways through `unlock`; called by `Unlock` and `TtlExpires` |
| `WaitTimesOut` | the callback of the timeout, which is also armed for locks that are granted at once |
| `Forget` | nothing refers to the instance any more; it stands for the next new one |

A ttl or timeout is only "none" or "some": a timer that is armed may fire at any time, which covers every duration.

### BrokerLocks

Extends `ProcessLocker` with clients, connections and messages. `locks[c]` is the Map of a `BrokerConnection`; `settled`
are requests that were granted and whose continuation, which registers the lock and answers, has not run. `Calm` makes
continuations run before the next event, as Node does. `close()` alone is split into steps (`Close`, `CloseUnlocks`,
`CloseReturns`), since its loop hands locks to other requests while it runs. A connection opens once; requests of a
closed one are lost with it, what the server writes to it too.

### BrokerEntityFields

One entity, as entities share nothing. `store` and `known` are the client's `publishedEntityFields` and
`knownEntityFields`, `counts` and `named` the server's `entityFields`. A publication goes through `new`, `publishing`,
`active`, `leaving`, `done`. The handler of a request is two actions, `HandleRequest` up to its await of the acks and
`Reply` behind it; `resolved` holds the answers whose continuation in the client has not run, which may be behind other
messages of the same chunk of bytes. A dead client loses all it had; `CloseFields` does what `close()` does, which is nothing
about fields or acks.

### BrokerChannels

One channel, as channels share nothing. `callbacks[c]` and `listener[c]` are the fields of the client's `BrokerChannel`,
`subscriptions` the server's list for the channel, `subscribed[c]` the count in `subscribedChannels`. The loop of
`BrokerChannel.next` is a step per callback (`at`), so that `Subscribe`, `Unsubscribe` and an exception
inside of a callback find the array as the loop left it. `since` is the number of messages the server had published
when it began to route to a subscriber.

What a callback throws leaves the loop and `RpcBufferReader.feed`, under which the loop runs, so `feed` is part of this
module, with items of the socket in place of bytes. `OnData` is a data event with any number of items, the last one cut
or not; `buffered[c]` and `rest[c]` are what `feed` has or has kept, `reading[c]` the item it is at. `feed` lets go of
its buffer in front of a message only if the message is all of it (`LetGo`). Otherwise an exception leaves all of it
behind (`Throws`), and the next data event hands out every item of it again: callbacks are called a second time, in a new
`pass`, and acks whose promise is settled (`handled[c]`) raise an error of their own (`StaleAck`), so what is behind such
an ack is never handled again.

### RpcBufferReader

A byte is its position in the stream and a buffer an interval, so that "the right bytes" is an equation. `has`, `first`,
`upto`, `size` are `currentMessage` and `currentMessageSize`; the turns of the loop in `feed` are steps (`Incomplete`,
`Exact`, `CutMessage`, `CutMessageThrows`, `ThrowsOnZero`). A header read at a position where no header is gives any
number of `Garbage`, zero among them. `reused` stands for sockets that pass one buffer with a length: bytes behind it are
old.

### RpcChunks

Both ends of one connection. A buffer is a sequence of pieces (message, offset, length). `writeFull` is a step per turn
(`WriteLarge`, `Continue`), each ending in its await; `chunkAcks` and `chunks` are the Maps of the reader with the keys
the code uses, which are message ids in one and chunk ids in the other. `Reconnect` drops what the kernel drops and
keeps what the client keeps: its reader. Progress callbacks are left out.

### RpcTransporter

`RpcClientTransporter` with the requests that use it. Every attempt makes a socket, numbered in order; its callbacks
(`OnConnected`, `OnClose`, `OnError`) end in the one transporter, whether the socket is still its own or was replaced, as
the closures in `doConnect` do. The handshake is a message and an await each for the id and the token
(`HandshakeReply`, `Established`, `Refused`). `transportConnection`, `writer`, `connected`, `connectionId` and
`connectionPromise` are the fields of that name. A request sends, waits for an attempt, is answered, and may send later
messages (`FollowUp`), as subjects do.

### RpcStreams

One action, its callers and their streams, with the two ordered directions of each connection. `server[k]` has the types
that the server announced at the connection of `k`, `types[k]` what the client knows: a value carries the type it was
written under and the client parses it under its own. A subject may be returned to several calls; `listeners` is its
list of subscriptions at the server in the order it is walked. `active` and `known` are two facts that the code keeps
apart: that a subscription of an observable runs, and that the server still has its id.

### RpcPeers

Clients with connections that are numbered as they are made, and the kernel with `RpcPeerExchange`. `exchange[n]` is the
connection in `registeredPeers`, `myPeerId[c]` the field of an `RpcKernelConnection`. The handlers of `PeerRegister` and
of calls await the security; `handlers` holds those that wait, `SecurityAnswers` is the rest of the handler. `asked[k]` is
`registerAsPeer` or the deregistration of a client up to its continuation (`Continue`): a call that arrives in one chunk
of bytes with the ack finds the name not set yet. `contested` (observed) are names for which two registrations waited
at once: both are acknowledged.

### LiveQuery

`Write` changes a row and then publishes what it did, as the listeners of `enableChangeFeed` do; a message arrives as
late as it likes. `known`, `sent` and `live` are the fields of `LiveCollection` and `SubscriptionHandler`; a query is two
steps (`Read` and `Answer`), with messages in between. `client` is the `EntitySubjectStore`: items, forks, patches that
came early, and the items of the collection. `raced` (observed) are ids for which one of the meetings the code has no
answer to took place, `misfetched` those that `getItem()` took one another for.

### Bson

The sizer, the serializer and the decoder that are compiled for a schema, as three operators over one description of a
type: that the first two agree is not by construction, since each has its own case for every type, as the code has. A
schema has a property `p` of any type and a property `next` of the schema itself, before or behind it, so that shared
flags and defaults of a compiled function meet with nested objects. Bytes are counted, not written.

### DatabaseSession

One session: `round` are all `DatabaseSessionRound`s ever made, `rounds` the list of the session, `known` and `snap` the
`InstanceState`s, `identityMap` the registry. `task[c]` is where a call of `commit()` is; every `await` of `commit`,
`doDelete` and `doPersist` is a control point, and `running` holds the thread between them. Between awaits the
application changes fields, adds, removes and resets; a listener may stop its event, the database or a listener may
throw. The soft-delete plugin is the listener that stops deletes: it marks entities and adds them to a new round.
Entities of a class refer to the same entities, one level deep; then the groups of `GroupArraySort` are one per class,
and the model takes a class whose references are done (`GroupSort` models the sort itself). Fields of an entity are one
value: what the session does depends only on whether it differs from the snapshot.

### EntityUpdates, QueryBuilder, SqlSelect, SqlSchema, Migrations, GroupSort

- **EntityUpdates**: rows with a number that can be increased atomically and a text; `changeSet` and `snapshot` are those
  of `@deepkit/type`, `item` the identity map with fields that are not hydrated. `Commit` does what the `batchUpdate` of
  the chosen adapter does with a batch: one `UPDATE` with values per field, `$inc` and `$set`, or whole items. `edited`,
  `increments` and `refreshed` (observed) say what the user did.
- **QueryBuilder**: `heap` has three kinds of objects, queries, parameters and lists of lifts, because what clones share
  is the point: parameters are one object with those of the joins, the list of lifts is one for all clones, a join
  refers to its parent. An option is in a model or not.
- **SqlSelect**: the rows of a `SELECT` with two joins arrive in any order; `Row` is one turn of the loop of
  `convertRows()` with its stack, `RowThrows` one that fails, `Find` the formatter, which makes references and proxies.
- **SqlSchema**: two models of a table from small sets of columns, indices and foreign keys; `TableDiff` and the
  statements of each platform are operators, `Run` executes one statement on a table with data or finds it illegal.
- **Migrations**: `recorded` is the table of versions, `applied[v]` how many statements are in effect; each command reads
  the latest version, runs statement after statement, then records. Commands overlap and are cut short at any point.
- **GroupSort**: items are added, sorted, added again; `Visit` is the recursion with its one set of parents, `acc` the
  object it works on. A failed sort leaves its marks, as in the code.

### MongoPool, SqlPersistence

`MongoPool`: `status`, `reserved`, `promise`, `current` and `idle` are the fields of a `MongoConnection` (`idle`: its
cleanup timer runs), `socket` is what is below it. `pc[c]` is where `MongoClient.execute` is: waiting for the first
connections of the hosts, for a place in the pool, for a handshake, for the answer, or sleeping before a retry.
`SqlPersistence`: `promise`, `made` and `resolved` are the `Mutex`; every `lock()` awaits a promise and looks again.
Rounds and queries are flows that ask a pool for a connection; `table` are the rows in the order they got their ids.

### Injector, AppModules, Http

- **Injector**: `contexts` is computed from the modules by the operator for `processModule`; `store` holds, for each
  generated retriever and scope, instances and the flags of creations under way, which later requests share. A configured
  setup call (`forward`) runs when its instance is kept already.
- **AppModules**: `heap` are the modules, clones included, each with its imports and its parent; `handles` what the author
  of the application holds. `tree` (observed) is the configuration as it was written down.
- **Http**: `req[r]` is where the workflow of a request is and what its listeners did; every listener of a place is a step
  of its own. `fn` and `urlFn` are the compiled router functions, `match` their variable `_match`. `log` (observed) lists
  what happened to a request.

## The runs

Twelve runs; seven are expected to pass, five to find one property violated. Bounds are constants of the `.cfg` or of the
`MC` module. Timers, cuts, orders of messages, closes of sockets and deaths are never bounded except where a bound is
named; what is bounded is how many actors there are and how often somebody starts something.

| Run | Components and instance | What it shows |
|---|---|---|
| `application` | **lock**: 4 instances, 3 of them on one id. **Broker locks**: a request of each of two connections, with a ttl. **Injector**: 96 structures of nested, exported and forRoot modules, and pairs of services in the scopes of modules and requests, one of them possibly with a setup call that needs the other or nothing that is there, 2 requests, 1 constructor that throws. **Modules**: three nested modules, 2 clones, 1 environment | The lock is exclusive, first come first served, implements `LockService`, every waiter settles; requests of living clients are answered whoever died; instances are made once and stay in their request, errors are true; configurations are those that were given |
| `broker` | **Locks**: 3 requests, 2 of one connection, for one id, any mix of ttl and timeout. **Fields**: 2 clients, one may die and loads, 2 publications of one field. **Channels**: 2 subscribers of one client, another publishes 2 messages and may die, 1 callback throws, data comes in all cuts | What is held can be given back, answers are true, `close()` releases what it registered; the counts of fields are the clients that publish and clients know what the server knows; a route exactly while somebody listens, messages in order and again only behind an exception; requests and messages arrive |
| `rpc` | **Framing**: messages of 5, 4 and 6 bytes cut in all ways, 1 exception. **Chunks**: uploads of 5 and 4 bytes, a download of 5, chunks of 2, 1 reconnect. **Transport**: 2 requests with a token, 2 sockets, 1 `disconnect`. **BSON**: every type with values that fit and that do not, in chains and rings of two | Messages are delivered whole, once, in order, at once; chunks make whole messages; one socket is alive, `connected` is true of it, requests stay with their connection, `connect` settles; what is written has its size and is read again |
| `actions` | **Streams**: 2 clients, 2 calls, an observable and a shared behavior subject, 1 lost connection. **Peers**: 2 clients, 1 name, 3 connections, 2 registrations, 1 call. **HTTP**: 5 routes; one request and one listener of the application at any place, or two requests | Types, subscriptions and subjects agree at both ends and end; a registered peer gets its calls, calls settle; requests are answered, authorized, with the right status and their own parameters |
| `services` | **MongoDB pool**: 2 commands, one for a primary, 2 hosts, 3 connections, pool of 2, reads of secondaries not allowed (the default), 1 failure or change of a host. **SQL**: 2 sessions, 2 rounds of 2 and 1 items, a query, batches of 1, 3 adapters, 1 failure, 1 `reset`. **Sort**: 4 items of 3 types with all sets of up to 2 dependencies | A connection has one user, the pool its limit, commands settle; SQLite's handle has one user, ids are those of the rows, connections come back; sorted groups are whole and in order, circles are found |
| `orm` | **Updates**: 2 rows, 5 adapters, 4 edits, patches and commits, 1 refused update. **Queries**: 9 objects, 3 kept. **Joins**: two joins over tables of 2, up to 3 rows. **Schemas**: all pairs of tables of up to 2 columns with indices and keys, 3 dialects. **Migrations**: 3 versions of 2 statements, 4 commands, 2 at once, 1 `--fake`. **Live queries**: 2 rows, 2 writes, with and without a page of 1 | A commit merges its edits into the rows, snapshots follow; kept queries say what they said and stay in their class; joins yield each item once with its items; a migrated table is that of the model with its data; what is recorded was run; a live collection follows the rows |
| `session` | An author and 2 books, 2 values, soft-deleted authors, all hooks, 2 commits, 3 edits, 1 failure | Commits write and delete what they found, inserts follow references, snapshots are the rows, the session is clean between commits |
| `broker_dead_client` | The broker locks of `broker` | *violated*: a dead client can hold a lock for ever |
| `framing_cut_header` | The stream of `rpc`, cut at 7 | *violated*: the size of the last message is used for the next one |
| `chunks_one_call` | 2 large values of one call | *violated*: an ack callback is replaced, the first value never arrives |
| `session_edit` | `session` with edits also while a group is written | *violated*: a change during an update is lost |
| `http_parameters` | The two requests of `actions` | *violated*: a request reads the parameters of another one's path |

`LocksAgree`, `FramingSafety`, `SessionSafety`, `PoolSafety` and other properties whose name ends in `Safety`, `Agree` or
`Served` are conjunctions: each part is a definition of the module with a comment of its own, the type invariant among
them.

Why the bounds are enough:

- **locks**: overtaking needs a holder and two waiters, the hand over by `close()` to a request of the same
  connection needs two requests of it and one of another. Ids do not touch one another; the fourth instance is there to
  show it. Safety is proved for any number.
- **fields**: two overlapping publications of one field, by the two clients, cover both levels of counting at 0, 1 and 2.
- **channels**: a callback that removes itself or its neighbour out of the array the loop walks needs two subscribers, and
  so does one that throws in front of another. Two messages behind the ack of the route are what `feed` keeps, repeats and
  orders anew behind one exception, with an ack in front of them that throws again. The proofs are for any number.
- **framing**: three messages give every position a message can take to the one before and after; a size that is zero,
  smaller than a chunk, inside of the rest, and beyond the stream are the cases of the loop.
- **chunks**: 5 bytes in chunks of 2 have a first, a middle and a short last chunk, 4 bytes a full last one. The run takes
  ids that do not meet; `FirstUpload` of `MCRpcChunks` has the ids a fresh connection would start with (see
  [below](#what-the-models-show-beside)).
- **transport**: callbacks of a replaced socket need two sockets, an attempt that others wait for two requests.
- **streams**: a subject that one caller ends and another still has needs two calls, types that differ between
  connections a reconnect.
- **peers**: a name that moves needs two clients and three connections: the first owner, the one that takes it over, the
  first one coming back.
- **session**: a second commit is what shows that the first one left snapshots and queues in order; two books are
  what makes groups of more than one entity, and one author what makes an order between groups. Books and values are symmetric.
- **updates**: two rows and a batch of two are what misaligns the values of two fields; one commit between two others'
  patches covers what may be overwritten.
- **pools**: waiting for one another needs two that wait for a pool of one (SQLite) and of two with an idle timer (MongoDB).
- **schemas, joins, sort**: every pair of small tables, every order of the rows, every small graph: renames next to
  drops, a row between two of one root, diamonds and circles of three.
- **migrations**: three versions give a late one between two others; two commands meet at every pair of statements.
- **injector, modules, HTTP**: a captive value needs two requests; a module between two others and two clones give an
  import a parent that is not its own; one listener at each place in both orders, or two requests at any two awaits.

Deadlock is not checked: every instance stops when its bounded work is done: publications end, messages are all
delivered, commits, edits and commands are used up. What may not stop there is said by the liveness properties.

### Properties with exceptions

Some passing properties hold only with an exception that the code forces. Each exception is an observed variable, set at
the step that causes it, or a condition that names the case, so the property is not weakened elsewhere:

| Property | Exception | Cause |
|---|---|---|
| `KnownIsCurrent` (fields) | `overtaken` | The continuation of `getEntityFields` or of a publication runs behind broadcasts of the same chunk of bytes and stores an older set |
| `CountsAreClients` (fields) | equality only while all are alive | `close()` does not take back the fields of a connection |
| `RequestsAreAnswered` (fields) | `waits[p] \ living` | The handler awaits the ack of every other client, dead ones too |
| `MissesNothing`, `PublishedArrives` (channels) | `skipped` | `arrayRemoveItem` during the loop of `next` shifts a callback into the place the loop has passed; an exception at the end of the data ends the loop for good |
| `DeliversInOrder` (channels) | a `pass` per exception | `feed` keeps what it had in hand and hands it out again (`protocol.ts:546-549`) |
| `PublishedArrives` (channels) | `HeldBack` | What `feed` kept waits for the next data; behind an ack that throws whenever it is repeated it waits for ever |
| `DeliversInOrder`, `DeliversAtOnce` (framing) | `headersWhole`, `thrown` | The branches for cut headers; an exception leaves complete messages in the buffer until the next `feed` |
| `FreshDeliversWhole`, `WrittenArrives` (chunks) | `leftover` | The client's reader keeps chunks and callbacks of a lost connection |
| `ConnectedIsOpen`, `OneTransport`, `MessagesStayTogether` (transport) | `revived`, `overlapped` | A handshake ends behind `disconnect()` or a newer attempt; a stale socket, or `disconnect()` before there is a socket, clears `connectionPromise` during an attempt |
| `ConnectSettles` | `Hangs` | A socket that closes during its handshake rejects nothing |
| `TypesAgree`, `StreamsEnd` (streams) | `carried`, `mixed`, `early` | A client keeps types over a reconnect; a plain result behind a stream has the type before; the end of a subject that had completed arrives before its stream exists |
| `NameIsReachable`, `CallsSettle` (peers) | `contested`; dropped calls | Two registrations of a name pass the check while the security is awaited; a call for a name that nobody has is dropped |
| `ClientFollows` (live queries) | `raced`, `lost`, `misfetched` | Messages between a query and its answer, early patches that are kept or lost; `getItem()` drops the condition for the id it was asked for (`live-database.ts:353`) and fetches any row that matches |
| `SnapshotsFollow`, `CommitsMerge` (updates) | the memory adapter, `refreshed`, `spoiled` | The memory adapter writes whole items; values assigned behind the snapshot; increments forgotten, or kept by a commit that failed |
| `QueriesAreImmutable`, `StaysInClass` | `end()`, a listener of a patch | `end()` writes into the parent, listeners push into the user's query and replace its condition on the class |
| `JoinsAreExact` | rows of a root together; the second of two joins of the root | `convertRows` looks at the row before; a second item of a single reference empties the record; the second join of the root takes the first one for its parent (`sql-builder.ts:163`) |
| `MigratedIsTheModel` | defaults on SQLite and MySQL, indices on the key in SQLite | What the schema parsers read |
| `BooksMatch` (migrations) | `faked`, `cut`, `late` | `--fake`, a command cut short or met by one the other way, files of an older version |
| `IdsAreOfTheirRows`, `ConnectionsComeBack` (SQL) | batches on MySQL, `overlapped`, `wasReset` | Ids are counted from the last batch; two rounds of a session that are in commit at once share a connection (rounds one after another do not); `reset()` releases what is in use |
| `CommandsSettle` (MongoDB) | `Abandoned` | A closed socket rejects neither its command nor its handshake; a full pool is polled while no connection of it goes to a host that takes the command: reads behind secondaries wait so (`connection.ts:149`), though a new connection to a secondary would serve them |
| `ComesBack`, `DefaultsAreOwn` (BSON) | named in their comments | A flag and the last default that nested objects of one schema share; signs of dates and big integers; literals |
| `RequestsAreApart`, `CircularIsTrue` (injector) | `Captive`, a constructor that threw | Services of a module made for a request keep what they got; the flag of a failed creation is not reset |
| `Recovers` (injector) | `Captive`, `Mixed`, `HalfConfigured` | An instance is kept before its setup calls run (`injector.ts:449`): when one fails, the first `get()` throws and the next one answers with the instance that is not set up |
| `ConfigIsOwn`, `ConfigIsWanted` (modules) | `taken`, `failed` | Clones and imports give the imports of a module another parent; a failed start leaves its marks |
| `OwnUnlessOvertaken` (HTTP) | `overtaken` | `_match` belongs to the router |
| `OrderIsKept`, `CirclesAreFound` (sort) | an item reached through one that depends on it and its own dependencies; `Shared` | `visit` returns the level of the dependencies; one set of parents for siblings |
| `CommitRemoves` (session) | `skipped` | A listener stops `onDeletePre`: `doDelete` returns and leaves the later classes of the queue |
| All properties of `session` but its types | `meddled` | The application resets the session during a commit; a listener stops a commit, an insert or an update, and the code goes on as if it was done; a listener throws behind an update |

## Fairness

Weak fairness stands for what Node and TCP do by themselves, and only for that. A sum module repeats the fairness of a
component for the steps of that component while it is the chosen one.

- `ProcessLocker`: armed timers fire. `unlock` is fair only for a holder without ttl: that a caller gives back what
  nothing else would take from it is the caller's obligation ("until you manually unlock it", `broker/src/client.ts:271`).
- `BrokerLocks`: continuations run, loops go on, messages of an open connection arrive and are handled. Timers and
  handlers have strong fairness: `Calm` disables them while continuations run, again and again, but never for good. No
  client is assumed to unlock or to live; that is why `AskedIsAnswered` is checked with a ttl on every lock.
- `BrokerEntityFields`: both ends handle what arrives, and a handler whose acks are complete replies.
- `BrokerChannels`: what is sent arrives in some cut, both ends handle it, and loops over callbacks go on. No callback has to
  throw.
- `RpcChunks`: packets of the connection that is up arrive, the loop of `writeFull` goes on behind its await.
- `RpcTransporter`: an attempt opens or fails, the server answers a handshake or refuses it, a closing socket closes, and
  continuations run. A socket need not fail, nor a server reply to a request.
- `RpcStreams`, `RpcPeers`: both ends handle what arrives; the security answers, with yes or with no.
- `MongoPool`: a connection that waits for a handshake or an answer gets it or is closed; the sleeps between retries and
  polls end; a broken socket reports its close.
- `SqlPersistence`: a flow that can take its next step does.
- All others have none: their properties are safety, "between commits", "when all is delivered" and "when it is done"
  included.

No fairness makes anybody call, publish, edit, die or reconnect.

## The proofs

`tlapm M.tla` proves each of the eight modules from nothing. What they show holds for any number of instances,
connections, requests, messages, entities and commands. The bounds of the instances (`MaxCalls`, `MaxBurst` and their
like) are constants of which the proofs assume at most that they are natural numbers.

None of the safety properties is inductive by itself. For each component there is an inductive invariant, defined at the
top of its module, of which the property is a consequence.

| Module | Proves | From |
|---|---|---|
| `BrokerProofs` | `LockSafety`, `NoOvertaking`, `ImplementsLockService` | `IdOfAssumption` |
| | `LocksAgree`, `CloseReleasesAll`, `BrokerSpec => Spec` of the lock | `IdOfAssumption`, `ConnAssumption` |
| | `ChannelSafety` | `ChannelAssumption` |
| `BrokerFieldsProofs` | `FieldsAgree` | `EntityFieldsAssumption` |
| `RpcProofs` | `FramingSafety` | `StreamAssumption` |
| | `TransportSafety` | `TransporterAssumption` |
| `RpcChunksProofs` | whole messages and nothing else kept: `FreshDeliversWhole`, `KeepsUnfinished` | `ChunksAssumption` |
| | `ChunksSafety`, so one chunk on its way, too | `ChunksAssumption`, `OwnIds` |
| `RpcPeersProofs` | `NameIsReachable` | `PeersAssumption` |
| `PoolsProofs` | `PoolSafety` | `PoolAssumption` |
| | `PersistenceSafety` | `SqlAssumption` |
| `OrmProofs` | `SnapshotsFollow`, `CommitsMerge` | `UpdatesAssumption` |
| | `BooksMatch` | `MigrationsAssumption` |
| `DatabaseSessionProofs` | types for any number of callers, `SessionSafety` and `CommitsAreComplete` for one | `SessionAssumption`, `OneCaller`, no edits in flight |

### Arrays

`BrokerProofs` begins with them: appending, taking the first and removing by value keep the items of an array distinct and account for
them (`AppendItem`, `ShiftItem`, `RemoveItem`), the first item precedes the others (`FirstPrecedes`), and none of these
changes who precedes whom (`AppendOrder`, `ShiftOrder`, `RemoveOrder`). `SMT` knows sequences but has no notion of
"distinct and in this order"; everything about queues goes through these lemmas.

### The lock

`BrokerProofs`, second part, from `IdOfAssumption` (every instance has an id) alone. The holder after a hand over is read from a
queue, so exclusion needs that nobody who holds is in a queue, which needs that the queue has only those whose promise
is pending, which needs that a timeout removes what it rejects and that entries go away only when nobody holds them.
The inductive invariant is their conjunction,

    IInv = TypeOK /\ MutualExclusion /\ EntryIffHeld /\ HolderWasTold /\ QueueIsPending /\ TtlTimerOfHolder /\ FreeIsEmpty

with two parts that are there for the induction: an armed ttl timer belongs to a holder (so that a late timer never
takes the lock of another), and an id without entry has an empty queue. There is a lemma for each of `TakeFree`,
`Enqueue`, `HandOver`, `Free`, `WaitTimesOut` and `Forget`; `Release` combines them for `Unlock` and `TtlExpires`.

- `Invariance`, and from it `TypeCorrect`, `Exclusive`, `EntriesAreHeld`, `HoldersKnow`, `QueuesArePending`, and `Safe`,
  all of them at once;
- `NothingOvertakes`: the action property, by `OrderStep` over the order lemmas of arrays;
- `Implements`: `ProcessLocker` refines `LockService`. `RequestStep`, `ReleaseStep`, `WaitTimesOutStep` and `ForgetStep`
  map every step to a step of the service or to a stutter; that a request leaves and the next one owns the id is one
  step in both, for which the hand over has to be known to go to somebody who waits (`IInv`).

### The locks of the broker

The third part of `BrokerProofs` builds on the second: `IInv` is part of its invariant,

    BInv = BrokerTypeOK /\ IInv /\ (\A l : Local(l)) /\ Closes

`Local(l)` says how far one request has come, at three places at once: the Map of its connection, the promise whose
continuation waits to run, and the two directions of the socket. Its parts are `Granted` (what is granted is registered
once, by its continuation), `Turn` (client and server take turns with the messages of a request) and `True` (without a
ttl, who was told that he has the lock holds it). `Closes` is about the loop of `close()`: it runs over locks of its own
connection, which takes no messages any more, and what it has run over is free.

- `BrokerSafe`: `LocksAgree`, and `CloseReleases`: `CloseReleasesAll`, whatever the loop handed over to whom.
- `BrokerUsesLock`: every step of the broker is a step of `ProcessLocker` or leaves it alone. So `NothingOvertakes` and
  `Implements` hold for connections that crash, and no proof of the lock had to be repeated.

### The channels of the broker

`BrokerProofs`, behind the arrays: a subscription is in three places, the callbacks of its client, the routes of the server and the two
directions of the socket, and these never agree at one moment. `ChannelInv` says how they differ, for every client:

- `CallbacksAt`: the callbacks are the subscriptions that are under way or active, each once, and `listener` counts them;
- `ReadAt`: what `feed` has is what came first, and the loop runs for the message `feed` is at;
- `AcksAt`: a subscription waits for its ack as long as its request or the ack is under way, and there is one ack of it
  that was not handled yet, however often `feed` repeats it;
- `RouteAt`: at most one `Subscribe` and one `Unsubscribe` are under way, the `Subscribe` behind; with what is under way taken
  into account, there is a route exactly when there is a listener. This is what a client that unsubscribes and
  subscribes again before the first answer threatens;
- `InLineAt`, `GotBy`: the socket is in the order of the server. `Due` is what a subscriber still has ahead of it in this
  pass, in the loop, in what `feed` has, and in the socket: all of it is later than what the subscriber got in this pass. An
  exception that `feed` keeps makes more of it due, and begins a pass in which nothing was delivered yet;
- `RoutedSince`, `NothingMissed`: since the server has the route of a subscriber, each message is delivered to it or due,
  unless the subscriber was `skipped`.

`FeedGoesOn` is the lemma of this part: whatever lets `feed` go on, to the next item, out of its buffer or out by an
exception, keeps the invariant if it leaves due what nobody got.

`EndedAt` and `RouteList` are about clients that died. There is a lemma for each action that says what it does to one client,
and `Elsewhere` that it does nothing to the others. `ChannelsAreSafe` is `ChannelSafety`.

### The fields of the broker

`BrokerFieldsProofs`, from `EntityFieldsAssumption`: finitely many clients and publications, which share any fields. A
field of one client is counted in two places that never agree at one moment, and what a client knows was true when the
server sent it. `FieldsInv`, client by client (`c`), publication by publication (`p`) and field by field (`f`):

- `StoreAt(c)`: a client counts its publications under way or active. `RequestsAlternate`, which TLC checks,
  is part of the invariant too: requests of one client about one field go to and fro, and the last one says what it
  wants by now. So taking the first one out of the queue makes the next one the first to change something;
- `CountsAt(f)`: the count of the server is at least the number of clients that it should count (`IsCounted`) and at most
  that number with those who died and whose last word it lost (`MayCount`). Both are cardinalities of sets of clients: a
  request that arrives moves one client in or out of both, a death moves it from the first to the second. While nobody
  died the sets are equal, and the count is exact;
- `RequestAt(p)`: a publication has at most one request, which is in the socket, in the hands of the server, on its way
  back as an answer, or in front of its continuation, and never in two of these places (`Once`); its fields are `asked[p]`;
- `FollowsAt(c)`: the last message on its way to a client, else the last answer it has not gone on with, else what it
  knows, is the set of the server by now, unless the server holds back an answer for it until the acks are there.
  `overtaken` is the one case that spoils it. With nothing under way this is `KnownIsCurrent`;
- `NamedAt(c)`: an answer that names no entity, which changes nothing in the client, was sent before the first publication
  and is in front of all that name it;
- `OwnAt(c, f)`: once the request that carries `f` has arrived, everything sent to `c` has `f`, since the server counts `c`
  for it until `c` withdraws it. What was sent before, and lacks `f`, is in front of the answer to this request
  (`Behind`), and while that answer has not been gone on with, `OwnFieldsAreKnown` makes no promise. A continuation that
  overwrites a newer broadcast therefore never takes away a client's own field.

There is a lemma of each part for each kind of step: the client asks (`PublishAsks`, `UnsubscribeAsks`), the server takes a
request that names `f` (`NamedStep`, `OwnHandled`) or anything else (`ServerStep` makes one sending of all its handlers), the client
takes a broadcast, an answer or a continuation. `FieldsAreSafe` is `FieldsAgree`. TLC had found `FieldsInv` true of two clients
with three publications of two fields, with positions bounded, before it was proved.

### The framing

`RpcProofs`, from `StreamAssumption` (the messages follow one another, each at least a header long). Three
invariants, since the properties have different conditions on the chunks and on what throws:

- no chunk ended inside a header and nothing threw: `Inv`, with `At(d)`: exactly the first `d` messages were delivered, and
  the buffer, its size and the local variables of a running loop describe message `d + 1`. A loop stands at its start with
  its header in the buffer; a reader that waits has its start and size and not its end; an empty one has been fed exactly
  up to it. `IncompleteInv`, `ExactInv`, `CutMessageInv` move from `At(d)` to `At(d)` or `At(d + 1)`, `FeedInv` opens the
  loop. `InOrder` and `AtOnce` read two properties off `At`;
- headers whole, anything may throw at any time: `SkipInv`. There is no `d` any more, since an exception leaves the message
  it was thrown for in the buffer. `Resumes` says the reader stands at a message all of whose predecessors were seen,
  `SeenBefore` that what it delivered has no gaps. So messages are repeated and never skipped;
- cut anywhere, nothing threw: `ByteInv`. Sizes are then whatever the misread bytes say. `Holds` says which bytes of the
  stream the buffer has, `HandedOut` that those in front of it were handed out, or dropped, once.

`Careful` is the invariance of the last two, `Safe` is `FramingSafety`, all of its parts under their own conditions.

### The chunks

`RpcChunksProofs`. `ChunkInv` has a part that holds whatever happens and one that a client loses when it reconnects with
half of a large answer in its reader (`leftover`):

- `Base`: the types (`ChunkKinds`); a writer that waits or was resumed has a large message (`Phases`); the large messages
  that a peer writes on one connection have chunk ids of their own (`OwnChunks`); a packet belongs to a message that was
  written on the connection of now (`Packets`);
- `Content`: for every large message `Lined` divides its bytes in three. `Expected` is how far the reader has it, the chunks
  on their way follow from there one by one without overlap, and `offset`, where the writer is, is the end of the last one.
  With `KeepsParts` (what the reader has under a chunk id is the beginning of one message that has not arrived), a chunk
  that is read continues what is there, so what is complete is whole. `WholeAndOnce` and `SmallOnce` are why nothing is
  handed out twice.

`ChunksAreWhole` needs no more. That a writer never runs ahead of the acks, the rest of `ChunksSafety`, is
`ChunksInvariance`, by `FlowInv`: while a writer waits its chunk or the ack may be on its way, once, never both, and
nothing is while it does not wait (`InTurn`); callbacks and acks belong to large messages written by their own end
(`Registered`). It assumes `OwnIds`: two messages of a peer never have the same message id. The code does not promise
it. Values of one observable share an id, an ack is then anybody's, and `chunks_one_call` shows what comes of it. Who may
delete whose callback (`protocol.ts:467`) does not matter to safety: a callback that is gone only leaves its writer
waiting.

### The transport

`RpcProofs`, second part. `TransportInv`: `Kinds` (types), `Numbered` (sockets are numbered as they are made), `Current` (the
writer is that of the current connection, whose socket has opened), `Greeted` (`connected` means that its handshake is
over, unless `revived`), `OneAttempt` (without overlap the socket that opens is that of `connectionPromise`, and only the current
one is open), `Owned` (`connectionPromise` belongs to a call that waits for its own attempt and will clear it), `Ready` (who goes on
with a resolved attempt finds the transporter connected) and `Epochs` (a request under way was sent to the
connection of now, or `connectionId` has gone on). `Owned` keeps `OneAttempt` alive: an attempt that nobody owned
would let a second one begin. `TransportIsSafe` is `TransportSafety`, with one socket and messages that stay together.

### Peers

`RpcPeersProofs`: `PeersInv` is the types, `Owned` (an open connection is the current one of a client) and, for names that
were never contested, `KeepsTheName` (a connection that keeps a name is the one the exchange has under it) and
`OneRegistration` (at most one registration of a name waits for the security, and the name is free meanwhile). The last one is what the
awaits between the check and the registration threaten. `PeersAreReachable` is `NameIsReachable`; `OneConnectionPerName`
states the exclusion.

### The pool of MongoDB

`PoolsProofs`: `PInv = Assigned /\ Counted`. `Assigned`: a connection has one user, commands are on connections that were
made, and the command a connection runs was the last that was sent on it. `Counted`: the pool has at most as many connections as
there are hosts with one, plus `MaxPoolSize - 1`, since each connection beyond the first of its host was made while the
pool was below the limit. The counting goes through cardinalities of the set of hosts, with a lemma (`Smallest`) by
well-founded inclusion. `PoolSafe` is `PoolSafety`, `RepliesFindTheirUser` says whom an answer goes to.

### The connections of SQL rounds

`PoolsProofs`, second part. `PersistenceInv` begins with the bookkeeping of rounds: `Typed`, `Filed` (a round is in one session), `Fresh`
(nothing is known of one whose commit has not begun), `Provided` (a round in commit has a persistence) and `Named` (a
connection is that of the round that asked for it). Then what matters:

- `Held`: SQLite's mutex is locked exactly while its one connection is out, and only who has it runs anything. This does not
  depend on who overlaps whom, only on that nobody calls `reset()` during a commit;
- `Alone`: unless two rounds of a session were in commit at once, a round in commit has the persistence of its session for
  itself, and a session without a round in commit has none. With `Named`, two rounds never insert through one handle;
- `Rows`: the handle of a round tells of the last insert of this very round, and the rows it tells of are in the table; with
  SQLite so are those of the batches before, just in front. So counting back from the last id gives the rows of the
  round, for any number of batches on SQLite and one elsewhere.

`PersistenceIsSafe` is `PersistenceSafety`: one user of a connection, and ids that belong to the rows of their items.

### Updates

`OrmProofs`, first part. `UpdatesInv` relates a row, its item, the snapshot and the change set to what was done to the item since
its last commit. `RowIsFull` and `ItemIsRead` say which values can be where (only the memory adapter writes nulls, what is
not hydrated has a null snapshot, what was edited is set). `DiffersIfTouched`: a field that differs from its snapshot was
edited, increased, or brought up to date by a patch. `ChangesAreIncrements`: the change set of an item holds what it was
increased by and nothing else, unless it outlived a failed commit. `UnknownIsUntouched` is about items that were never loaded.

`SnapshotsAreItems` is a consequence. `CommitsAreMerges`, which is `CommitsMerge`, needs besides that a commit that is not
refused writes everything it detected: `CommitIs`, by `ListsHoldAll` (a list of a finite set without repetition has all of it) and
`BatchesHoldAll` (cut into batches of any size, nothing is lost at the borders).

### Migrations

`OrmProofs`, second part: `MInv` is the types, `HaveFiles`, `PassedOver`, and for every version `Book(v)`: `OneWay` (all commands
that are at it go up, or all down), `InHand` (at most one of them has begun, and the statements in effect are those it has
run) and `Whole` (what nobody has begun was run in whole or not at all, as the table of versions says), unless `v` was
faked or a command was cut short in it. `PassedOver`: a migration without an entry below the latest came late. `BooksAreRight` is `BooksMatch`.
`OneAtATime` is what makes it true without a lock: the first statement of a version fails for the second command.

### The unit of work

`DatabaseSessionProofs`, in four steps, each on top of the one before. `SessionAssumption` is what the model is told of
classes and references: entities of a class have the same references, which go one level deep.

1. Any number of overlapping calls of `commit()`: `SessionInv`, with `RowsTyped`, `RoundsTyped`, `BooksTyped`, `TasksTyped`.
   These are not only types: an item waits in one queue of a round, a call works on a round there is, the persistence in
   use was not released, and one call at a time has the thread. `SessionInvariance`, `SessionTyped`.
2. One caller (`OneCaller`), anything else in any order: `Tidy` and `TidyAt` say for every place in the code of `commit()`
   which round is in commit, whether the flag is set and whether a persistence is kept, unless the application has
   `meddled`, by the [exception](#properties-with-exceptions) of the run. `OneCallerIsClean`: between two commits no round is in
   commit, no persistence is kept, and the flag is cleared.
3. Besides, no entity is edited while it is written: `Stored` and `StoredAt` say at every place which snapshots are rows
   already; `Taken` and `Written` are what the steps of an update carry from one `await` to the next. `SessionIsSafe`:
   `SessionSafety`.
4. From the same hypotheses `CommitsComplete`, which is `CommitsAreComplete`. `RoundsAgree`: no round is listed twice, and
   what an added entity refers to waits in its round, in either queue. `WorkAt`: whatever a commit owes is done, or in a
   round the loop still comes to (`Ahead`), or in a group of the round in hand (`InHand`, `Going`). `QueuesAt` is what makes
   this inductive: the rounds ahead are not committed, and none of them takes back what another one does, which is
   why what was owed stays done. `OrderAt`: of the round in hand, what is not in a class to come has a row, and the class
   being written refers to none of these. When the loop is through nothing is ahead, so everything owed is done.

The two hypotheses are the configuration of the run `session`, and neither is a convenience: with two callers TLC refutes
`QuietIsClean`, and the run `session_edit` shows what an edit in flight does.

### What stays with TLC

- Liveness (`EveryWaiterSettles`, `AskedIsAnswered`, `WrittenArrives`, `RequestsAreAnswered`, `PublishedArrives`,
  `ConnectSettles`, `StreamsEnd`, `CallsSettle`, `CommandsSettle`, `ConnectionsComeBack`): fairness and `ENABLED` are out of
  reach of the prover.
- Algorithms over data: `AppModules`, `Bson`, `GroupSort`, `Injector`, `QueryBuilder`, `SqlSchema`, `SqlSelect`. What their
  recursive definitions compute for every input would be induction over data, which the installed provers cannot
  instantiate; where they use `RECURSIVE` operators, the SMT backend is not available at all.
- `RpcStreams` folds over what was sent, which is induction over data again.
- The safety of `LiveQuery` and `Http` is not proved yet, see the [plan](#plan).

## Where code and claims part

| Run | The code | The claim |
|---|---|---|
| `broker_dead_client` | `close()` unlocks what is registered and leaves the requests that wait in the queue. When the id gets free later, by this very loop even, a request of the dead client is granted and registered behind `close()` (`kernel.ts:88`). Without ttl nothing unlocks it | `broker/src/client.ts:271`: "keeps the lock alive until you manually unlock it (or the process dies)" |
| `framing_cut_header` | With less than a header left over, `feed` keeps the rest and the size of the message it just delivered (`protocol.ts:554`). The next chunk is measured with that size | `protocol.ts:553`: "not enough data to read the header. Wait for next onData" |
| `chunks_one_call` | Ack callbacks are stored by message id (`writer.ts:140`), which all values of one observable share. A second large value replaces the callback of the first, which stays unfinished for ever | `writer.ts:98`: "automatically chunks long messages into multiple smaller one" |
| `session_edit` | The change set is built before the hooks and the update are awaited (`database-session.ts:184`), the snapshot is taken behind them (`identity-map.ts:124`). A field written in between is in the snapshot and not in the row; no later commit sees a difference | `identity-map.ts:74`: "the last known values known to be in the database" |
| `http_parameters` | `_match` is a variable of the compiled router (`router.ts:567`). It is read when the parameters of a controller are resolved, behind awaits of listeners, the body and other resolvers; a request routed meanwhile has put its own match there | `router.ts:299`: "The raw parameter value from the path, if the parameter is defined in the path" |

### What the models show beside

The [exceptions](#properties-with-exceptions) above name what the models show without a line that claims the opposite.
Some more came up while modelling; most are in a comment at the definition that has them:

- **RPC chunks**: `chunkAcks` has message ids as keys, but the last chunk of a message deletes the entry of its chunk id
  (`protocol.ts:467`). With `FirstUpload` in place of `DistinctIds`, the second large download of a connection, chunk 1,
  deletes the callback of the upload whose message id is 1, which then never ends. The run `rpc` keeps such ids
  apart, so it speaks of messages whose ids do not meet.
- **Session**: the listener of the soft-delete plugin calls `add` with what it marks (`soft-delete.ts:199`), and `add` takes
  along what an entity refers to (`database-session.ts:63`), into a new round. An author removed together with a
  soft-deleted book of that author is deleted, and inserted again by the same commit. `doomed` leaves such entities out.
- **Peers**: two overlapping registrations of one name are both acknowledged.
- **HTTP**: `HttpResponse.status()` ends the response; routes without arguments are compared literally; groups inside the
  regular expression of a parameter shift the parameters behind it; listeners added behind the first request are
  ignored; `addRoute` does not reset `resolveFn` (`router.ts:605`); the last listeners of errors replace what an earlier
  listener sent.
- **Injector**: a constructor that throws leaves `creating` set; not-found errors do not empty the `CircularDetector`;
  `useExisting` makes a new instance (`provider.ts:51`); what the root module exports vanishes.
- **Modules**: `clone()` becomes the parent of the imports of the original (`module.ts:148`); `configLoaded` is set before
  the validation; setups run before the values of the environment are there.
- **Sort**: in car1 → brand2 → car3, car1 is sorted before what it depends on (`group-array-sort.ts:85`); a diamond is
  reported as circular (`:63`); a failed sort leaves `visited`.
- **BSON**: for a property that is missing the decoder may set the function that makes the default; nested objects of one
  schema share a flag and the last default; dates before 1970 and negative big integers lose their sign.
- **Joins**: the index of a join's parent is the number of all joins so far less one, taken inside the loop over the joins
  of a class (`sql-builder.ts:163`). The parent of the second join of the root is so the first join: `convertRows` puts its
  items into a record of that (`:214`), where nobody looks for them; without such a record `find()` throws.
- **Live queries**: `getItem()` puts the id on a clone of the query that it drops (`live-database.ts:353`): an id that a patch
  made match is known from then on, but the row that is sent is one of all that match.
- **SQL**: an `ALTER` that merges statements repeats the name of the table (`default-platform.ts:400`); a joined item may be a
  proxy whose fields cannot be read.

## What is not modelled

`PROJECT.json` lists every component with its reason. In short:

- **One handler, no interleaving**: the key-value store of the broker, the application's locker on top of its locks, the
  memory database, the application server, which starts processes in a fixed order, and the registry of databases.
- **Planned**: the debugger's frame store.
- **Data**: types, validation and serializers are pure functions, generated as code, over unbounded data; filters and
  the queries of the MongoDB adapter are translations; templates are rendered in order. The models take from them what the
  state machines need: snapshots differ exactly when something was changed, a message arrives as it was written.
- **I/O and presentation**: sockets, loggers, files, the Angular user interfaces, examples and benchmarks.

In the modelled components these are left out, each with its note in `PROJECT.json`: progress reports of large messages;
reconnecting of broker clients; authentication, streams between peers and calls from the server to a client; errors of
observables; `hydrateEntity`, references, transactions and keys that the database generates in the session; statements and
the queues inside the drivers; `$unset`, nested values and arrays in updates; aggregation; types and sizes of columns;
decorated classes and binary data in BSON; tags and slices of configuration; uploads and static files.

## Plan

Proofs:

| Property | Module | What the invariant has to say |
|---|---|---|
| `ClientFollows` | `LiveQuery` | which row every message between the query and its answer is about, in the order of the channel |
| `RequestsAreServed` | `Http` | which controller a route was resolved to while other requests are at an await |

Models: the frame store (queues of frames, numbers shared by processes, errors halfway); then the serializers of the type
system, as `Bson` is done; a `MessageChannel` that framing and chunks implement together.

### Hazards that wait

Beside those of `PROJECT.json`:

| Where | What |
|---|---|
| `broker/src/kernel.ts:266` | `increment` by 0 adds 1 |
| `rpc/src/client/client.ts:371` | a late reply without callback throws inside of `feed`: the rest of the chunk of bytes stays unread until more arrives |
| `rpc/src/client/message-subject.ts:20` | of two replies before `onReply` the first is lost |
| `workflow/src/workflow.ts:196` | two `apply` of one workflow both pass the check of the state |
| `core/src/emitter.ts:60` | unsubscribing during `emit` skips the next subscriber |
| `orm/src/event.ts:134` | `onFetch` has `onDeletePre` as parent |
| `framework/src/debug/stopwatch/store.ts:92`, `95` | frames lost when a write fails; numbers shared by worker processes |
| `framework/src/application-server.ts:161` | the restart of dead workers is registered in the worker branch |
