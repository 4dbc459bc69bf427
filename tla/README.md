# Verification of life-stream-go-mqtt-broker

TLA+ models of an MQTT 3.1.1 broker written in Go, with TLC runs on small
instances and TLAPS proofs for all instances. Source references are relative to
the repository; `database/` stands for `src/internal/database/`, and so on.

## 1. The system

One process. `main` loads the configuration, starts the logger, connects to
MongoDB, starts the gRPC service and calls `server.StartServer`. Each accepted
TCP connection is served by one goroutine, which reads a packet, handles it to
the end, and reads the next one. What the goroutines share is not locked, except
for the packet identifiers; every handler calls the database synchronously.

| Component | State | Operations |
|---|---|---|
| Accept loop (`server/server.go`) | `sem`, a channel of 10000 permits | accept, acquire, start a handler, release |
| Connection handler (`server/connection_handler.go`) | per connection: `clientSession`, `keepAlive`, read deadline | `handleFirstPacket`, `handlePacket`, the deferred cleanup |
| Connection map (`connection/`) | `sync.Map` client -> connection | `AddConnection`, `RemoveConnection`, `SendMessage`, `Send` |
| Session store (`database/database_store.go`, `session_data.go`) | map of temporary sessions, LRU cache, `sessions` collection | `GetSession`, `SaveSession`, `DeleteSession`, `AddSubscription`, `RemoveSubscription`, `RemoveAllSubscriptions` |
| Topic tree (`database/subscription_tree.go`) | `subscriptions` collection, one document per node; LRU cache under two keys per node | `InsertSubscription`, `DeleteSubscription`, `MatchTopic` |
| Packet identifiers (`database/packet_id.go`) | the lazily created manager, its counter and released identifiers | `NewPacketIDManager`, `NextID`, `ReleaseID` |
| Packet handlers (`packet/`) | none of their own | CONNECT, PUBLISH, SUBSCRIBE, UNSUBSCRIBE, PINGREQ, DISCONNECT |
| Codec (`mqtt/`, `packet/packet_utils.go`) | none | remaining length, flags, fields, the parsers and builders of packets |
| Cleaner (`event/cleaner.go`) | registered callbacks, `cleaning` | `Init`, `Add`, `Clean` |
| Logger (`logger/logger.go`) | a channel of lines, a worker, the log file | `Init`, `Handle`, `Close` |
| Start-up (`cmd/mqtt-broker/main.go`, `database/database.go`, `config/`) | the client, the indexes, `config.json` | `main`, `ConnectDatabase`, `ReadConfig` |
| gRPC (`grpc/grpc_service.go`) | none | `SetDevicesState`, `GetAllDevices` |

How they interact: a handler finds or makes a session on CONNECT and registers
its connection; SUBSCRIBE changes the tree and the session; PUBLISH asks the
tree for the subscriptions that match, takes a packet identifier for QoS 1 and
2, looks each client up in the connection map and writes to that client's
socket in the publisher's own goroutine.

What is hard about it:

* unlocked sharing: cached tree nodes and session objects are shared by every
  goroutine, a lookup and the creation or write that follows are separate steps;
* two cache entries for one tree node, of which a save drops one;
* one client with two connections, the older of which is not yet closed;
* writes without a deadline, reads whose deadline depends on the keep alive;
* database errors, most of which are logged and forgotten;
* restarts, which keep the collections and lose the maps and caches;
* counters that wrap.

What makes each part correct:

* tree: an accepted subscription is stored and linked; a match reports all and
  only the subscriptions that cover the topic; links lead where they should;
* identifiers: never 0, never in flight twice;
* handlers: permits are given back, handlers end, the connection is closed;
* connection map: names live connections of the right client, all of them;
* sessions: what a lasting session acknowledged is there after a reconnection or
  a restart, what a temporary one subscribed to is gone after it;
* publications: every subscriber gets each one, once, in the order of its
  publisher, as a packet it can read, with the QoS it asked for and an identifier
  of its own; the publisher gets its acknowledgement;
* codec: what is written can be read, and no bytes make a parser read too far;
* shutdown: a signal ends the process, with every log line written and the
  database closed; start-up: the indexes the rest relies on are there.

## 2. Modules

| Module | Models |
|---|---|
| `Topics` | levels, paths, and which filters cover which topics |
| `SubscriptionTree` | the topic tree: cache, collection and goroutines |
| `SubscriptionBook` | abstract: who is subscribed to which filter |
| `SubscriptionTreeProps` | the tree's properties, and the mapping of the tree to the book |
| `SubscriptionTree_proofs` | proofs: what holds of names and links for any number of goroutines |
| `SubscriptionTreeSerial_proofs` | proofs: what one goroutine can rely on to be stored, what it finds again, and that it keeps the book |
| `IdPool` | abstract: identifiers in use are distinct until given back |
| `PacketID`, `PacketID_proofs` | the identifier manager, its refinement of `IdPool`, proofs |
| `ConnectionHandler` | accept loop, handlers, connection map, peers |
| `ConnectionHandlerProps`, `ConnectionHandler_proofs` | its properties and proofs |
| `SessionStore` | the session store and the packets that change sessions |
| `SessionStoreProps`, `SessionStore_proofs` | its properties and proofs |
| `Packets` | the codec: every parser and builder, over bytes of reduced width |
| `Wire` | the client's end of a connection, by the MQTT specification: what it writes, and how it reads |
| `Wire_proofs` | proofs: the codec against `Wire` |
| `PublishFlow` | a publication from the publisher's bytes to the subscribers' bytes |
| `PublishFlowProps`, `PublishFlow_proofs` | its properties and proofs |
| `AsyncHandler` | the log channel and its worker |
| `Lifecycle`, `LifecycleProps`, `Lifecycle_proofs` | `main`, database start-up, Cleaner and logger, across restarts |
| `MC*` | values of constants for the runs |

Names of operators follow the functions and fields of the code. Operators
introduced by a comment "Mutant" are faulty variants of the definition after
them; no specification uses them.

### SubscriptionTree

A node is `docs[path]`, named by its ObjectID, which is a path and a serial
number. A pointer is a `Ref` into `heap`, so that two goroutines holding one
pointer share the object, while a decoded document is a new object. `cache` maps
the two kinds of key ("path", "_id") to pointers. A call is a sequence of steps
of its goroutine, whose locals are in `th[w]`: `CacheHit`/`CacheMiss`,
`FindOne`/`FindNothing`, `Fill`, `Create` are `getNodeByPath`, `getNodeByID` and
`createNode`; `Store`, `ReplaceOne`, `DuplicatePath`, `ReplaceFails` are `save`;
`LinkLevel`, `AddTerminal`, `NextLevel` the loop of `InsertSubscription`;
`RemoveTerminal` `DeleteSubscription`; `Root` ... `CollectTerminals` the level
by level search of `MatchTopic`. `Evict` is the LRU, `RaceFault` the abort of
the Go runtime when two goroutines touch one field and one writes it, `NilNode`
the nil dereference, `Kill` and `Restart` the process. `Live`, `Collect` and
`Allocate` stand for Go's collector, which makes the heap finite.

Abstracted: the order of equal subscriptions (a bag), the copying of slices, log
lines and timings.

### PacketID

The methods lock a mutex and are one step. `NewPacketIDManager` is three steps,
for it does not lock. `Send` is the use in `publish.go`; production code calls
`ReleaseID` nowhere, so `Acknowledge` takes its form from the unit test. The
16-bit counter is modulo `MaxID + 1`.

### ConnectionHandler

`pc[c]` is where the handler of connection `c` is. Packets are told apart by
what they do to the connection: they end it, are only answered, use the session,
or are routed. The clients a publication goes to are any set, since the tree is
another module. A peer may be open, stalled (does not read), silent (does not
send) or gone. `Allowed` names the mishaps of an instance: a bad first packet, a
late one, a session that cannot be saved, a stalling peer, keep alive 0.
`Nil(c) /\ Panic` is the dereference of a nil `clientSession`, which ends the
process. A first packet that is no CONNECT leads into the loop without a
session, because the function returns the nil error of its read.

### SessionStore

Session objects are named by the connection whose handler allocated them; each
CONNECT allocates one at most. `sessions`, `cache` and `docs` are the three
places `GetSession` looks in. Between two steps any other handler runs. The
topic tree is a set of pairs: an insertion or deletion is one step or fails.
`Contended` names the clients that use a connection they have already left;
for the others the older handler only waits and ends, which is the normal
takeover. Go's abort on a racing map access is one of the ways `Kill` happens.

### Packets, Wire and PublishFlow

`Packets` has no state. A parser takes the body of a packet and an offset
(`CurrentPtr`) and yields a value with the next offset, an error, or the panic of
Go for a slice out of range. The order of reads and checks is that of the code,
so that a check that comes too late would be a panic. `Base`, `Digits` and
`Byte` are 128, 4 and 256 in the code; the runs take 3, 3 and 6, so that a
packet of 26 bytes has the greatest length and limits are within reach. Every
operator takes the widths as constants. The bytes of a body, of a name or of the
flags are any numbers, only where two of them make a length or an identifier
does their width count. A loop is a recursive function over as many
turns as the input has bytes, which is as many as the code's loop can have.

`Wire` is the other end and follows the MQTT specification, not the code: a length is the
`Numeral` whose digits say so, a packet is a `Frame`, and a reader
(`PacketsIn`) cuts what it gets into packets and gives up (`Torn`) where there is none.

In `PublishFlow` clients append packets of `Wire` to `inbox`. A handler reads a packet, parses and handles it;
`Publish` (parse, record in `PendingPublish`), `SaveSession`, `MatchTopic`,
`Number` (the next turn of the loop), `Create`, `Return` and `NextID` (an
identifier for one copy) and `Deliver` (its bytes appended to `outbox`) are steps
of their own, between which other handlers run. `Number` and `Return` read
`PacketManager` without a lock, as `NewPacketIDManager` does: two handlers that
find none make two, and a handler keeps the one it was given (`manager`) even
when another has taken its place. `ReadError` is also the deadline of a handler that waits
for the rest of a packet. `SetDevicesState` is the gRPC call, which writes beside the handlers.

`tree` has the subscriptions as the documents hold them. What a cached node may hold instead is
`seen`: any subscriptions that were ever put into a node. A step of SUBSCRIBE, UNSUBSCRIBE or
DISCONNECT that saves an outdated node (`SaveOutdated`) leaves any of them in the tree, one
for a client and topic at most: this is the insertion or deletion that works on an entry read
before another save, and the one that two handlers run on one node at a time, where one
document is refused or one save overwrites the other. A `MatchTopic` that comes upon
an outdated entry reports any of them, or, when an outdated link leads nowhere,
dereferences nil. `SubscriptionTree` says how such nodes come about; here that they may
do so at any time is a superset of it. `MaxMishaps` bounds these steps and the
failing calls together in a run; in the proofs it is any number.

The module leaves to the others what they model: a filter has no wildcards,
SUBSCRIBE is one step, each client has one connection, a write does not wait. It
leaves out what Go does not define: a list of subscriptions that is shortened in
place while a match copies it without a lock.
The environment is restricted where it would only multiply equal states: all
clients are connected before the first of them goes on; a bad CONNECT, after
which the process is gone, comes first; so do bytes that are no packet, since all
they can do is end their own connection. What a client does after its CONNECT,
to fall silent in the middle of a packet included, is counted by `MaxPackets`. The
fields of `Start` that only count (`read`) are for the properties.

### Lifecycle

Threads are `main`, the goroutine that waits for a signal (`watcher`), the one
that serves gRPC, and handlers, which log and save a session of one client. A
thread's `pc` is a label; `Lines` and `DebugLines` are the labels where it logs.
Log lines are counted; lines that a thread logs one after the other count as
one; debug lines are optional, since the level of the log decides. `Log` waits
for room in the channel and panics when it is closed: a panic of `main` runs the
deferred `Clean`, any other ends the process, and so does one inside `Clean`.
`Lock`, `Disconnect`, `Close` and `Wait` are `Clean`; both the watcher and `main`
may run it at one time. `Signal` is caught until the watcher has called `stop()`,
after which the next one kills. `AsyncHandler` is the logger: `Receive` and
`Written` are the worker, `Shut` and `Drained` are `Close`.

`config.json`, the documents of the client and the unique index outlive the
process, so that a later start meets what an earlier one left: an empty
configuration (the default one is written to a file opened for reading), a
dropped index, two documents that no longer admit a unique index.

### History variables

History variables (`asked`, `acked`, `outstanding`, `fresh`, `overlapped`,
`kept`, `superseded`, `unsettled`, `claims`, `sent` with its `due`, `copies`, `behaved`,
`unindexed`, and the flag `spent.refused` of `SubscriptionTree`) record what happened for the properties; no
step of the code depends on them, except for the environment's promise on
`Contended`.

## 3. Runs

| Run | Question | Instance |
|---|---|---|
| `tree_serial` | does one goroutine keep the book of subscriptions, and get insert, delete and match right, with warm and cold caches, every wildcard, a misplaced one and a restart? | 2 clients, 6 filters, 2 topics, 3 requests |
| `tree_readers` | is a match sound, and are links resolvable, beside a writer and with a failing call? | 2 goroutines, 2 filters, 2 topics, 3 requests, 1 error |
| `packetid` | are identifiers non-zero and unique, and does the manager implement the pool? | 3 goroutines, identifiers 1..3, 4 fresh ones |
| `conn_safety` | permits, connection map, no panic without a cause | 3 connections, 2 clients, 2 permits |
| `conn_ends` | does every handler of a quiet peer end? | 2 connections, 2 clients, all mishaps but stalling |
| `session` | do sessions survive what they should, and agree with the tree? | 3 connections of a client, 2 filters, 3 packets, 1 error, 1 restart |
| `publish` | do subscribers read what publishers sent? | 2 clients, 2 topics, 3 packets after CONNECT, 1 error or outdated node, widths 3, 3, 6 |
| `lifecycle` | does the process start and end as it should? | 3 starts, 2 handlers, 2 signals, 2 errors, a channel of 2 |
| `tree_stale_match` | violation: a match misses an accepted subscription | 1 goroutine, 1 filter |
| `conn_takeover` | violation: a served client can be reached | two connections of a client |
| `conn_stalled` | violation: the connection of a gone peer is closed | a stalled subscriber |
| `publish_unanswered` | violation: the publisher gets its acknowledgement | 2 packets, no error |

Why these bounds: two goroutines suffice for each race, since every race in the
code is between two accesses; three connections give one takeover beside one
ordinary reconnection; paths of two levels have a parent, a child, and each
wildcard in each place the code treats differently; three requests are enough to
fill a cache, outdate it and read it; identifiers 1..3 wrap after three
messages; one error may strike at each call, one restart at each step. In
`publish`, two clients are a publisher and a subscriber or both at once; three
packets are a subscription and two publications, or two subscriptions and a
publication, or a withdrawal between; payloads are empty, short, and as long as a
packet admits, where an identifier takes it over the limit. Two publishers that
number their first copies at one time need a subscription and two publications, an
outdated node can lose or hide it at each step, and one mishap is
enough to violate any property that does not allow for it. In `lifecycle`, the
second start meets what the first left and the third what two left, which two
documents of a client and the next index need; two signals are the caught one
and the one that kills. Every run explores all its states, and every action is
taken in some run.

Several properties have conditions, and the conditions are what is of interest:

* `MatchExact` speaks of matches that met no outdated entry, `tree_stale_match`
  shows why. `AcceptedInTree` is checked with one goroutine: of two that create
  one node, the second has its document refused by the unique index, and its
  subscription is nowhere. `LinksResolve` needs that no call failed and no save was
  refused in that way (`spent.refused`): a refused `createNode` still links its
  parent to an ObjectID that was never stored.
* `UniqueInFlight` and `ImplementsPool` hold while one manager was made and the
  counter has not come round (`Regular`): two first calls at the same time make
  two managers, and `NextID` does not ask whether the next number is in use.
* `ReachableAlone` excludes clients with overlapping handlers, `conn_takeover`
  shows why. `CrashNeedsBadStart` says which mishaps the nil dereference needs:
  every connection that ends before its CONNECT is handled is one of them.
* `EndsWhenQuiet` is checked without stalling peers, `conn_stalled` shows why.
* `KeptIsStored` excludes clients that use a connection they have left (its
  handler may overwrite or delete the session of the new one), whose stored
  session could not be read (the error counts as "no session" and an empty one is
  written over it), or whose broken temporary session was found in the map by a
  lasting CONNECT. `DivergenceHasCause` names, for every client, the steps after
  which a session and the tree may disagree: among them a clean CONNECT, which
  leaves orphans in the tree, an UNSUBSCRIBE that is not saved, and a failing
  call; any other step that adds a difference violates it.
* `StreamsInStep` excludes a connection to which a copy was written that exceeds
  the greatest length: a publication of that length without an identifier gets
  two bytes longer, `EncodeRemainingLength` cuts its length off, and the
  subscriber never finds the next packet.
* `RecordedFirst` asks for the topic under the identifier of the publication, or
  for that of a later one with the same identifier, which replaces it in
  `PendingPublish` (`OnRecord`). In the database it may be missing if a call failed or
  the session is temporary, which is never saved there.
* `ReachesSubscribers` is about runs without a failing call. A publication is due to
  those who are subscribed when it is sent (`due`), less whose subscription is gone
  from the tree before the handler has looked them up (`Release`): withdrawn by UNSUBSCRIBE
  or a DISCONNECT, or lost by the save of an outdated node or of one that two handlers
  change at a time; and less from whom an outdated cache entry, which a match
  meets without any failing call, hides this one publication (`Miss`); `tree_stale_match`
  shows such a match. Who has left the connection map gets nothing. What is
  left to go wrong, and does not, is the way from the match to the bytes: the loop
  over the subscriptions beside other handlers, the lookups, the writes.
* `NumberedApart`: identifiers differ as long as one manager was made (`OneManager`).
  Two handlers that number their first copies at one time make two managers, and
  both give out 1; the run reaches such states, as `UniqueInFlight` shows for
  more than two. That an identifier is not 0 holds for any number of managers. The
  counter has not come round (in `PublishFlow` it
  only counts up, its wrap is in `PacketID`; an identifier beyond two bytes is
  excluded from `StreamsInStep`, too). Publications with QoS 0 are excluded, whose copies for
  subscriptions with QoS 2 have identifier 0.
* `InOrderOnce` is about filters without wildcards, as the module is: a client with two
  filters that cover one topic gets a publication twice.
* `QoSAsAsked` is one-sided, since QoS 1 is granted as 0, and says nothing of the
  code in SUBACK.
* `BehavedStay` is about a handler that closes its connection. The nil dereference ends
  the process with the connections of all, after another client's bad CONNECT or
  a failing call, and is not counted. It excludes clients that acknowledge a copy,
  whom the broker cuts off, and those that break the protocol.
* `NoDeadEntry` is about the map, not the write that follows a lookup. `EndsWhenQuiet`
  has no packet that arrives in parts.
* `Released` is about processes that end by `Clean` or during it; `log.Fatalf` in
  the gRPC goroutine, a second signal and a logger without a file end them
  without. It is about a callback that was registered: when `Clean` has begun,
  `Add` refuses and the database connection just made stays open. `OneDocument` needs that no
  start went on without the index.

### Fairness

`SubscriptionTree` and `ConnectionHandler` assume weak fairness of each
goroutine: the Go scheduler runs what can run, and a database call ends within
`OperationTimeout`. The accept loop is fair too. Nothing is assumed of peers: a
peer may send nothing, read nothing and stay for ever. A read with an armed
deadline ends because time passes, which is fairness of the handler.

`Lifecycle` assumes as little as `SignalEnds` needs: weak fairness of the log
worker; strong fairness of the watcher, whose sends compete with those of the
handlers, because a Go channel serves waiting senders in turn; strong fairness of
the refused `Add`, which logs with the Cleaner's lock held and would keep `Clean`
from it. `main` may hang in a database call and handlers may log for ever. The
other modules have safety properties only and need no fairness.

## 4. Proofs

All for every value of the constants that satisfies the modules' `ASSUME`s,
which say that bounds are numbers, nil values are not members of the sets they
stand beside, `Conn` and `Handler` are finite, the log channel has room for a
line, and filters are non-empty paths. Those of `Packets` and `PublishFlow` say that a byte
has one bit more than a digit of a length, that the greatest length is at least
3 (the longest answer to a request), and that the packets of well-behaved clients are ones the protocol
allows: a name of a client is not empty, texts have lengths of two bytes, bodies are
within the limit, the content of a will comes with a topic, an identifier is there
just when the QoS is not 0. What the misbehaving send is arbitrary but for being refused.

* `SubscriptionTree_proofs`: `TypeOK`, `MatchSound` and `LinksWellFormed`. The
  invariant says of each node, wherever it is (document, object, copy on its way
  to the database), that its entries and links belong to its path (`NodeOK`),
  and of each goroutine what it knows at each point of its call (`ThreadOK`):
  the node it holds is the one of the level it is at, the nodes in the queue
  match the first levels of the topic (`Fits`). None of the three is inductive
  without this, since a subscription travels from a request through an object, a
  buffer and a document into another object before a match reports it. It is
  enough that names are right; no claim on freshness is made, so races, stale
  entries and failures do not matter. The same module proves `LinksResolve`,
  also for any number of goroutines. The collection only grows and a document
  keeps its ObjectID, so an identifier once found stays found (`Grows`). The
  invariant `AllResolve` extends the property to what is not yet in the tree:
  every object a goroutine holds, except the one `createNode` is about to save,
  has the ObjectID of the document at its path (`Named`), so the link made to it
  resolves; so does what is in a buffer or a pending assignment; and a child
  that `MatchTopic` looks up was found when its identifier was read, so no `nil`
  gets into a queue.
* `SubscriptionTreeSerial_proofs`: `AcceptedInTree`, `NoCollateralLoss` (no
  stored subscription disappears but by its deletion), `MatchExact` and
  `ImplementsBook`, all under the assumption `Alone`: at most one goroutine, and
  `MaxErrors` = 0. It is not the proof that needs it: with two goroutines the
  first two fail, and a dropped save is enough for the first to fail. Filters,
  clients, requests, restarts and evictions are arbitrary. Neither of the first
  two is inductive, because the entries of the cache under `_id` are outdated by
  every save. What is true is that the entry by path, and every node an
  insertion or deletion works on, equals its document (`InSync`), save between
  `Store` and `ReplaceOne`; then the node written has all the old one had but
  the subscription being withdrawn (`Keeps`) and, in an insertion, the link or
  entry of the level it is at (`Promise`). With each level the chain of links
  from the root grows by one (`Chain`), until the whole subscription is there
  (`Given`). An existing link needs `AllResolve` again: it must be to the `_id`
  the child has now.

  For `MatchExact`, `Fit` names the stored paths of one level that fit the topic
  and hang on the root. The invariant `Search` says, at each label of a match
  that met no outdated entry, what it has done: the queue holds the nodes of its
  level still to be visited, each once; what it has gathered is what the levels
  above and the visited nodes hold (`Collected`); the next queue has the
  children of the visited nodes that fit (`Below`), and between the literal
  child and "+" the half of them that is due. Nodes of a queue are the documents
  themselves (`InSync`), a link is to the child's present `_id`
  (`LinksCurrent`), and a level without a fitting node leaves none below
  (`FitPrefix`), which is why the search may stop. That a subscription is
  counted once needs `Tidy`: an insertion never enters one twice under
  terminals, and "#" is never the level of a node below the first.

  `ImplementsBook` is the refinement of `SubscriptionBook`, whose state is who
  is listed, which withdrawals run, and what was accepted. The mapping takes for
  the book the subscriptions that a match can find (`Findable`: stored, with the
  links from the root to them), not the stored ones: a subscription that is
  stored and cannot be reached is not listed. That the two are one set is a
  result, from `Rooted`: every node that holds a subscription is chained to the
  root already when it gets its first one. One action of the book stands for
  many steps of the tree: a whole insertion is one `Enter`, at the save of its
  last level, and later one `Accept`; everything else it does (nodes created,
  links made, cache entries set and evicted) leaves the book alone. For this
  `BInv` says of the object about to be saved that it has the entries of its
  document, or one more, or all but those of one client and filter (`Edits`),
  and `Tidy` puts all entries of one filter at one node, so that a save there
  strikes them everywhere. That `Accept` finds its subscription listed needs
  `Promise`, and that `Strike` hits nothing accepted needs that the deletion has
  taken its subscription from `acked` before. The book keeps what the code does
  with a second request: a filter that ends in "#" below the first level may be
  listed with several QoS, any other keeps the first. `NoCollateralLoss` follows
  from it, so only the book is checked by a run.
* `PacketID_proofs`: `TypeOK`, `NeverZero`, `UniqueInFlight`, `ImplementsPool`.
  `NeverZero` needs the arguments of pending `ReleaseID` calls not to be 0.
  Uniqueness rests on a `Ledger`: an identifier up to the counter is in flight,
  on its way back in one call, or released, and only one of the three.
* `ConnectionHandler_proofs`: `TypeOK`, `PermitsMatch`, `NoDeadEntry`,
  `ReachableAlone`, `CrashNeedsBadStart`, `EntryLostByOwnEnd`. The strengthening
  says where `clientSession` may be nil (`Sessions`) and that two handlers of a
  client at one time are remembered (`Owners`); without it, the removal by one
  handler could not be told from the loss of another's entry.

* `Lifecycle_proofs`: `TypeOK`, `NothingLost`, `Released`, `OneDocument`. None of
  the last three is inductive. The invariant says which labels a thread can have
  (`Places`), how far `main` has come when another thread runs, the callback is
  registered or a clean-up is under way (`Stages`), that the worker is done only
  when the channel is closed and empty (`Logging`), that whoever is past the
  callbacks in `Clean` has seen them invoked, and that nothing registers after
  (`Releasing`), and that handlers run with the index or after its error
  (`Indexing`). A second `Clean` beside the first is covered, because each of
  these is about a thread and not about the order of two.

* `SessionStore_proofs`: all properties of the run `session`, six invariants and
  two action properties. A client is *settled* when no mishap that
  `KeptIsStored` names has happened to it. The argument is that a settled client
  has one current handler: its superseded ones are known, sit in the loop and do
  not use the session (`Sole`, `Places`), so that what the current handler has
  in hand between two of its steps is what the three stores hold or are about to
  (`Kinds`, `Left`), and what was acknowledged is in its object, in the document
  and in the tree (the properties themselves). An object belongs to one client
  and is handed out once (`Owned`, `Fresh`), so no handler changes the session
  of another client. `DivergenceHasCause` does not need the stores: each step
  changes the pairs of one client at most, and `Moves` and `Together` say in
  which of the tree, the object and the document.
* `Wire_proofs`: the codec against the specification, for every base, number of
  digits and input. `DecodeRemainingLength` reads every numeral back
  (`LengthRead`); `ReadPacket` takes one packet from the head of a stream,
  whatever follows it (`PacketRead`); the parsers of CONNECT, PUBLISH, SUBSCRIBE
  and UNSUBSCRIBE find what the client put in (`ConnectBodyRead`, ...); none
  panics, whatever the bytes (`ConnectNeverPanics`, ...); what the broker builds
  is a packet of the specification as long as it fits (`PublishFramed` and its
  like for the answers); and a reader of whole packets finds them all
  (`StreamRead`). The loops are recursive functions over `0..n`; each is shown
  to be a function that satisfies its equation, and what it computes by
  induction over the set of the indices where the claim holds, which rests on
  inclusion being well-founded among finite sets (`Least`). `Numeral` is a
  `CHOOSE`: that there is a numeral of each length comes from division by the
  powers of `Base`, that there is one only from `DivModUnique`.
* `PublishFlow_proofs`: every property of the run `publish`, for any clients,
  packets, bounds and failures that satisfy the assumptions. They rest on each
  other:

  * `IInv` gives `InOrderOnce` and `OneManager => Apart`, whatever the parsers make of the
    bytes. Order is not inductive, because a handler writes several copies of
    one publication and others write in between: the invariant says of each copy
    that its publication is an earlier one of its sender than the one in work,
    or is that one and its receiver is no longer in the loop (`Passed`). The
    loop has one subscription for each client since the tree, and whatever version of a
    node a match reads, has one for each client and topic (`Stage`, `Single`). A handler
    about to take an identifier has a manager (`Counters`). While there is one, an
    identifier is below its counter, and on one copy or with one handler
    (`Given`); that a manager is made twice only when somebody has found none
    is no part of it, since the claim ends with the second.
  * `Shape` has the domains of the variables, and that `sent` holds publications of
    the constants.
  * `Reading` compares a handler with its client. The inbox is a `Backlog`:
    whole packets, the publications among them being those of `sent` from `read
    + 1` on and the subscriptions among those of `asked`, and after them
    nothing, or, if the client has misbehaved, what it misbehaved with.
    `Wire_proofs` says what the handler makes of the first of them and that the
    rest is a backlog again. `ConnectRead` and `BehavedStay` follow.
  * `Working`: the publication in work is the last one read (`ThreadOK`), an
    entry of the tree or of any version of a node was asked for with at least that QoS
    (`Backed`), a copy is of a publication that was sent, to one who asked (`Genuine`),
    and a handler that delivers without an identifier needs none. `TypeOK`,
    `QoSAsAsked` and `NumberedApart` follow.
  * `Recorded`: of each publication that was read, not only those with a copy, that
    it is in `PendingPublish`, and in the database when the handler is past
    `session.Save`. `RecordedFirst` follows.
  * `Reaching`: who is due a publication is in the tree before the match, in the
    loop after it, and has a copy when the loop has passed (`Due`). A step that takes an entry
    from the tree is a `Release`, and one that does not report an entry of it is a
    `Miss` (`Matches`); only these take somebody from `due`. Nothing is
    sent before all clients are connected (`Early`). `ReachesSubscribers`
    follows.
  * `Streams`: the bytes written to a client are whole packets whose
    publications are its copies (`Image`), whoever wrote last. `StreamsInStep`
    follows by `StreamRead`.

Model-checked only:

* liveness (`RequestsEnd`, `EndsWhenQuiet`, `SignalEnds`), which is beyond the
  prover. Every safety property that a passing run checks is stated by a theorem;
* the disagreements of section 5, each a counterexample of TLC.

## 5. Divergences found

Four violation runs, each with the line it concerns, are in `PROJECT.json` under
`findings`: the outdated node cache (`subscription_tree.go:109`), the removal of a
newer connection (`connection_manager.go:46`), the write without a deadline
(`message_sender.go:36`), the acknowledgement that is not sent
(`connection_handler.go:119`).

Further disagreements are steps of the models, and the conditions of the
properties above leave them out one by one:

* a node created by two goroutines (`subscription_tree.go:119`);
* two identifier managers (`packet_id.go:14`);
* the nil session in the deferred function (`connection_handler.go:165`);
* a stored session deleted or overwritten by an older handler
  (`database_store.go:182`), or replaced because it could not be read (`:110`);
* orphans after a clean CONNECT (`connect.go:162`), the unsaved UNSUBSCRIBE
  (`unsubscribe.go:57`);
* QoS 1 granted as 0 (`subscribe.go:60`), identifier 0 (`publish.go:140`), a
  subscriber cut off for its acknowledgement (`connection_handler.go:154`), a
  packet beyond the greatest length (`mqtt_utils.go:89`);
* the error of the sessions index overwritten (`database.go:144`);
* the default configuration written to a file opened for reading
  (`config.go:45`), which stays empty;
* a port that is in use: `StartServer` logs it and dereferences the listener it has
  not got, `Clean` runs and the exit code is 0 (`server.go:21`).

## 6. Not modelled

* Will messages: nothing calls their functions. `ClearSubscription` is empty.
* `GetAllSession` and `GetAllDevices` only read. The former uses the cursor of a
  failed query and ranges over the session map without a lock.
* `ParseStringTime` is a pure conversion of durations, which no model counts.
* Rotation of the log at midnight: only `NewAsyncHandler` calls
  `rotateIfNeeded`, so it never happens. The options of the database client are
  values. Code generated by protoc.

## 7. Plan

1. `SessionStore` as an implementation of the book: its tree is a set of
   subscriptions, which `ImplementsBook` now justifies while one handler at a time
   changes it.
2. `PublishFlow` with an identifier counter that comes around, which needs the
   pool of `PacketID` for a condition on what is in flight.
3. The tree under several goroutines that never touch one node, as a condition
   weaker than `Alone`.
