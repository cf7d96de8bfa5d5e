# TLA+ models of bedrock-protocol-cpp

The library implements the Minecraft: Bedrock Edition network protocol in C++:
a client, a server, a relay between the two, account authentication, and the
codecs for packets, worlds and NBT. It is a port of JavaScript code that ran on
one event loop. In C++ the same handlers run on RakNet workers, a queue thread,
timers and the application's threads, and most of what is hard in the library
is the locking that replaces the event loop. The models are about that part.

Paths below are relative to the repository's root.

## Inventory

| Component | State | Operations | Talks to |
|---|---|---|---|
| RakNet client transport, `src/client/RakNetClient.cpp` | atomics `running_`, `connected_`, `connectAccepted_`, `closeRequested_`; worker, join and connect activity under `threadMutex_`; native peer under `nativeMutex_` | `connect`, `close`, `requestStop`, `send`, worker loop | calls the network client's handlers on its worker |
| Network client lifecycle, `src/client/BedrockNetworkClient.cpp` | connect phase and owner, close latch (`closingThreadId_`, `closingDepth_`, `closingCommitted_`), `closed_`, `status_`, `raknet_` | `prepareConnectLifecycle`, `connect`, `close`, `requestRakNetStop`, `setStatus`, `run` | owns a transport; emits events to the application, whose listeners may close or throw |
| Client outbound queue, same file | `queuedPackets_`, `stopQueue_`, pump flags, timers, `queueThread_` | `queue`, `sendQueued`, `startQueue`, `resumeQueuePump`, `pauseQueuePump`, `stopQueue`, `queueLoop` | driven by `connect` and `emitClose`; sends through the transport |
| Client session, same file and `BedrockEncryption.cpp` | status, compression and encryption flags, counters, resource pack flags, entity id | one handler per built-in packet | the server's session |
| Chunk blob cache, same file | `blobStore_`, `pendingBlobMetadata_`, pending level chunks and subchunks, `world_` | handlers of `level_chunk`, `subchunk`, `client_cache_miss_response` | the server, which answers `client_cache_blob_status` |
| Server players and backend, `include/bedrock/server/BedrockServer.hpp`, `src/server/RakNetServer.cpp` | peer table, scheduled closes, `connections_`/`sessions_`, `clientCount_`, `closedPlayers_`, `detachedPlayerStatuses_` | open and close handlers, `disconnect`, `closePlayer`, `close`, `listen` | worker, fallback timer, application threads |
| Server session and outbound queue, `BedrockServer.hpp` | `SessionState`: flags, counters, `queuedPackets`; `outboundMutex` | `handleEncapsulated`, `handleBuiltInPacket`, `handleLogin`, `queue`, `write`, `sendQueued`, scheduler | the client's session |
| Live relay, `src/relay/BedrockLiveRelay.cpp` | per session: lifecycle and two phases, upstream client and its thread, four packet queues, `upstreamDisconnectRequested`; `handlerDispatchMutex_`, `sessions_` | login, `startUpstream`, forwarding in both directions, `resetRelaySession`, `disconnectDownstream`, `close` | one server player and one client each; handlers of the application |
| Promises, `include/bedrock/auth/JsPromise.hpp`, `src/auth/JsPromise.cpp` | per promise: status, value, continuations; the queue's tasks and worker | resolve and reject, `then`, `catchError`, adoption, `get`, `enqueue` | used by all of authentication |
| Token managers, `src/auth` | flags `forceRefresh` and `polling`; what the closures of a login hold | `getXboxToken`, `getMinecraftBedrockToken`, renewal, device code, two retries | HTTP services, cache files |
| Cache files, `src/auth/FileAuthCache.cpp` | the object in memory, the file | `getCached`, `setCachedPartial`, `reset` | other processes through the files |
| MSAL client, Realms, ping, advertisement | none or one request | HTTP with retries, one UDP request | services |
| Codecs, ProtoDef, NBT, worlds, items, chat, registries | data structures | pure conversions | none |

What is hard, by component:

- *Transport*: three operations and the worker wait for each other; callbacks
  may call back into the transport; a handshake timeout races an acceptance.
- *Network client*: a close holds a latch while listeners of the application
  run and while it stops the transport, which may itself be closing; `connect`
  works in phases with the mutex released in between.
- *Queue*: a close whose listener throws is undone after it paused the pump.
- *Players*: a player can be closed by the worker, by a timer, by the
  application and by `Server#close`, while its endpoint is taken over.
- *Session*: both sides have to switch to compression and to encryption at the
  same place of two streams while a second thread sends on each side.
- *Relay*: a session is taken down by five kinds of threads, some of which run
  handlers under a mutex, while `startUpstream` builds the next client without
  it and the former upstream still delivers.
- *Chunk cache*: packets wait for blobs, share them, and are retried in loops
  that an exception may leave half-way; answers may repeat a blob.
- *Promises*: a settlement takes its continuations under one mutex and
  publishes them under another; the worker's last reference may be its own.
- *Logins*: nobody waits for the write of a renewed token that the next try
  reads; a file is truncated before it is written; logins share one flag.

PROJECT.json lists the components with the modules that model them, and the
hazards with the line where each one bites.

## Modules

Each step is one critical section of the code, or one access to an atomic
between two critical sections. Blocking calls (a join, a wait on a condition
variable) are actions with a guard. Constants are sets of threads; a thread is
idle or inside one call, and an idle thread may begin any call at any time.

**RakNetClient** models the transport. `pc[t]` is the position of a thread in
`connect` (labels `check` to `leave`), `close` (`flag` to `notify`),
`requestStop`, or the worker loop. `peer` is the lifetime of the native object;
`link` is what it may still report. Which callbacks call `close()` is the
constant `CallbackCloses`. RakNet itself is external: it accepts, refuses,
loses the connection, delivers data, or stays silent. **RakNetClientProofs**
has the proofs.

**NetworkClient** models the lifecycle of the network client. The transport is
reduced to what RakNetClient shows of it: `close` waits for a running `connect`
and for the worker unless the worker calls it; a failed `connect` makes no
callback. `stack[t]` has one frame for every `emitClose` of a thread, because
close listeners may close again. The constant `Behaviours` says what listeners
and the server may do. **NetworkClientProofs** has the proofs.

**QueuePump** models the client's send queue with its pump thread, and the part
of `connect` and `emitClose` that starts, pauses, resumes and stops it. Packets
are numbered in the order `queue()` accepts them. A deadline is only set or not
set; a set deadline may pass at any time. Of the transport the module has what a
send depends on: `raknet` is `none` (no transport, or one that has ended),
`installed` by `connect()`, or `connected`. It may be lost at any time, and
`requestRakNetStop()` and a committed `close()` end it. A send without a
connection puts its packets in `lost`, as `sendPacketsLocked()` and
`sendReliable()` return without a word; `exposed` are the packets, still waiting
or lost, that have waited while there was no connection. **QueuePumpProofs** has the proofs.

**ServerPlayers** models the server's registry of players on top of the peer
table of the backend. A session number stands for a `BedrockServerConnection`
and its `SessionState`; its key is the endpoint and the GUID, as in
`playerKey()`. Every connection draws a new GUID, as RakNet clients do.
**ServerPlayersProofs** has the proofs.

**Session** composes the client's and the server's handshake with both outbound
queues: network settings, login, compression, encryption, resource packs, join
and spawn. A batch on the wire is its packets, its form (`bare`: no compressor
byte, `tagged`: with one, `enc`: encrypted) and its counter; these decide
whether the receiver can read it. The initial state chooses the protocol
`version` (legacy: network settings after the login; modern: before it; tagged:
also a compressor byte) and whose applications send `early`, before they have
joined. On the server a batch is encoded under
`session->mutex` and handed to RakNet later with `outboundMutex` still held:
`staged` is the batch in between. **SessionProofs** has the proofs.

**LiveRelay** models one session of the relay: the downstream player, the
upstream clients opened for it one after the other (`client[g]`, each with the
worker of its transport and the thread of its `run()`), the four queues between
them, and `resetRelaySession`, whose steps `rsMark` to `rsJoin` every thread may
be in. The upstream is reduced to what NetworkClient shows of a client, with
the wait of `run()` split into its test and its sleep. `Loads` is the traffic a
behaviour may have, `Policies` what handlers may do with a packet.

**ChunkCache** models the packets that travel through the blob cache. A blob
stands for its contents and is its own hash; a round of a handler's loop is a
step, so that an exception leaves the state as the code leaves it. The server is
external: it sends one of the `Scripts` and answers the missing blobs all at
once, one by one, without repetitions, or only those it has not yet sent.
**ChunkDelivery** is the abstract specification: a piece of a chunk that was
announced is written once, and nothing else changes the world. ChunkCache
implements it (`Delivers`); **ChunkCacheProofs** has the proof of this and of
its invariants.

**Promises** models `JsPromise` and `JsMicrotaskQueue`: threads of the
application, the waiters of adopted futures, and the worker. A continuation is
named after the promise it settles; a value after the promise that produced it.
**PromiseReactions** is the abstract specification, without threads and queues:
promises are settled once, reactions run once and after their source.
Promises implements it (`Refines`); **PromisesProofs** has the proof.

**AuthFlow** composes a login's token managers with their cache files. Flows of
one user share the files and nothing else; logins of one flow share its managers
and run their reactions one at a time, as Promises shows. A step is a reaction
with those that follow it and touch only what the login holds, or one of the two
file operations (truncate, write) inside a reaction. MSA tokens are numbered;
whether a token has expired is a choice at each test. `Scenarios` says which
logins run, whether they run one after the other, and how many crashes and
failing file operations there may be. **AuthFlowProofs** has the proofs.

The MC modules add symmetry sets, loads, scripts and scenarios. Next to the
definitions they change stand operators named `...Mutant`: a plausible bug in
the definition that follows. Each property of a passing run is violated when its
mutant takes the definition's place, so no property holds by the shape of the
model alone.

## Runs

State counts are distinct states, times are for two workers. Invariants are
conjunctions of named parts; the type invariant is one of the parts.

| Run | Instance | Shows | Size |
|---|---|---|---|
| client_transport | 2 threads, all callbacks close | an outside `close()` leaves nothing behind (`ClosedIsQuiescent`); thread and peer have one owner (`Ownership`: one join, the peer outlives its users); failed connects are silent; announced sessions end announced; handlers never overlap; every call returns and a stop request ends the worker (`CallsReturn`), unless the circular wait below strikes | 331,952, 2-3 min |
| network_client_safety | 2 threads, all behaviours, nesting 2 | a finished close is final, the close event is emitted once, the latch and the Connecting phase have one owner (`OneOwner`) | 1.3 M, 40 s |
| network_client_liveness | 2 threads, also with `requestRakNetStop()`, quiet listeners and server | every call returns | 228,338, 75 s |
| network_client_disconnect | 2 threads, server disconnects | *violated*: `WorkerDoesNotWaitThroughJoin` | 3 s |
| queue_pump | 2 threads, 2 packets, nesting 2, one timer, a transport that comes and goes | listeners run with the pump at rest and there is one pump (`PumpUnderControl`); a rolled-back close loses no demand (`DemandArmed`); every packet is sent once and in order, cleared by a stop, or lost for want of a connection (`PacketsOnce`); calls return and a wanted queue is drained (`Settles`) | 1.4 M, 3 min |
| server_players | 1 endpoint, 2 clients in turn, 1 application thread, listen again | one close event per player, never for somebody else (`CloseIsOwn`); nobody registers after `Server#close` and the player count follows the registry (`RegistryExact`); no closed player keeps a detached status | 2.0 M, 65 s |
| server_players_liveness | 1 client, listen again | every ended player hears of it (`EndIsHeard`), unless a swallowed `listen()` abandons it | 98,105, 21 s |
| session | 3 kinds of versions, 1 application packet each, applications of either side wait for the join or not | the handshake is the first encrypted packet; every batch can be read unless an application sends before the join (`BatchesDecode`); stages agree and there is one spawn (`InStep`), which is reached (`Spawns`) | 157,531, 20 s |
| live_relay | 2 upstreams or up to 3 packets, handlers that cancel or disconnect | a session that is down is quiet and owns nothing (`DownIsQuiet`); no packet of a former upstream (`FreshClientbound`); order in both directions (`PacketsInOrder`); resets end but for three named waits (`ResetsEnd`); the player of a lost upstream is told (`PlayerTold`) | 283,113, 2 min |
| chunk_cache | 2 columns, 2 heights, 4 blobs, 8 scripts of 2 to 4 packets | what waits has been asked for (`NoForgottenBlob`); a handler fails or a column is wrong for named causes only (`OnlyKnownFailures`); everything announced is shown (`AllShown`); ChunkDelivery is implemented | 239,803, 75 s |
| promises | 2 threads, 3 promises | PromiseReactions is implemented; reactions run in order unless one was added during a publication (`InOrder`); what is due is settled; `get()` returns; the worker ends | 175,100, 90 s |
| auth_flow | 2 logins of one flow; 2 flows on the same files; a login after one with 2 faults | memory and file agree whenever no write is under way (`Durable`); the second try uses a renewed token (`RetryRenews`); the user is asked only if needed; logins end unless a service never answers | 843,670, 2 min |

**Bounds.** Two application threads next to the worker are the smallest set in
which two closers race while a third thread connects or handles a packet; the
races found below need two or three threads. `MaxDepth` = 2 allows a close
inside a close listener. Two packets show loss, duplication and reordering. Two
sessions at one endpoint give the reuse of an endpoint while the first player is
still being closed. The relay's second upstream exists only after the first was
reset; each load brings one concern to bear (a second login, the order of the
player's packets, the spawn, chunks around `start_game`), and every load runs
with all losses, errors and closes. Each script of the chunk cache is one way to
share blobs or to fail. Three promises give a chain, two reactions of one
promise, and an adoption. Two MSA tokens are a token and its renewal; two faults
are a failing write and a crash after it. Larger instances also pass, in times
too long for a routine run: two endpoints without `listen()` (3.4 M states), two
clients for `EndIsHeard` (776,000, without `listen()`), two packets of each
application for the session (1.3 M). Symmetry is used in runs without liveness
only. Counters that grow without bound in the code (packets, sessions, listens,
promises, tokens) are bounded by named constants.

**Deadlock** is not checked by TLC: all callers idle with the worker gone is a
normal end. Threads that wait for each other are covered by `CallsReturn`,
`Settles`, `ResetsEnd` and `GetReturns`, which name the waits that do not end
(`NoCircularWait`, `Stuck`) as their only exceptions. In NetworkClient liveness
is checked with listeners and a server that do not close on the worker.

**Fairness.** Threads inside a call are scheduled (weak fairness for each), as
the operating system does; nobody has to begin a call and the network may stay
silent. Strong fairness is used where a thread competes for something it gets
again and again: the end of a batch of packets, which is finite
(NetworkClient); deadlines that the backend's worker looks at after at most 256
packets (`maxReceiveBatch`, ServerPlayers); the server's worker, which shares
`outboundMutex` with the other senders (Session). `CallsReturn` and `Settles`
assume that callers eventually stop making new calls (`ConnectsEnd`,
`CallsEnd`): a waiting `close()` can be overtaken by new connects for ever. The
session reaches the spawn if the server's application sends `start_game` and the
spawn status, in either order. LiveRelay needs less: the server's worker goes
on, and some other thread does as long as one can; the work is finite. In
ChunkCache packets are handled and misses answered, but the server need not send
more. In Promises the worker and threads inside a call go on and callbacks
return; a future may never become ready. In AuthFlow reactions and timers run and
device codes expire; HTTP requests have no timeout and may never be answered.

## Findings

One run is violated: `network_client_disconnect` states what a comment of the
code says, and PROJECT.json quotes it. A `disconnect` packet makes the worker
call the public `close()` (`BedrockNetworkClient.cpp:1271`), which waits for the
latch of a closer that joins the worker.

The other deviations the models found are written into the properties as named
exceptions, so that the runs show that there are no others:

- *Self-close* (`RakNetClient.cpp:363`, `NoCircularWait` in `CallsReturn`): a
  `close()` inside the connected callback waits for `connect()` to end. If
  `connect()` sees `closeRequested_` before it starts to wait, it joins the
  worker, and both wait for ever.
- *Player count* (`BedrockServer.hpp:2339`, `overtaken` in `CountExact`): a
  native close decrements the count after `Server#close` has reset it, and it
  becomes -1; a registration over a player whose close is under way leaves it
  too high.
- *Swallowed listen* (`RakNetServer.cpp:64`, `Abandoned` in `EndIsHeard`): a
  `listen()` within the 60 ms after a close on the worker returns at once, the
  pending shutdown then stops the server, and its players hear nothing.
- *Flush at a switch* (`BedrockServer.hpp:2507`, `early` in `BatchesDecode`):
  encryption (and compression) is switched on after the packet that announces it
  was sent, without `outboundMutex`. What another thread sends in between is in
  the old form, and the client, which has switched, cannot read it. It takes a
  server whose application sends to a player before its join.
- *Packets without a connection* (`BedrockNetworkClient.cpp:2550`,
  `RakNetClient.cpp:405`, `exposed` in `PacketsOnce`): `queue()` accepts packets
  at any time, and `connect()` resumes the pump (line 314) before it installs the
  transport (line 426) and long before that is connected. The pump or
  `sendQueued()` takes the packets, and the send returns without sending and
  without an error: they are lost. The same happens to what is taken after the
  connection has ended.
- *Waits of the relay* (`Stuck` in `ResetsEnd`): a handler that disconnects
  holds `handlerDispatchMutex_` while its reset joins an upstream worker that
  waits for this mutex; a reset joins a worker that itself calls `close()`; and
  `run()` may miss its wakeup, because `closed_` is stored and notified without
  the mutex of `closedCv_` (`BedrockNetworkClient.cpp:790`), so that the reset
  joins a thread that sleeps for ever. `documentation/RELAY.md:288-289`
  promises that a disconnect tears down both sides immediately.
- *Flush of the relay* (`overlap` in `ServerboundInOrder`): packets of the
  player that arrive while the queue of a new upstream is flushed overtake it or
  stay behind in it.
- *Blobs* (`OnlyKnownFailures`): a blob that is answered twice loses the note
  that it is a section (`twice`); a section blob without a height of its own is
  shared between two heights (`SharedSection`); a subchunk is stored at the height
  that its blob has inside, whatever height the packet names
  (`BedrockChunk.cpp:1682`, `Misplaced`). The guarantees about chunks
  (`NoForgottenBlob`, `AllShown`, ChunkDelivery) end with the first exception: a
  subchunk packet that fails half-way never asks for the blobs of its first
  entries, and a retry loop that fails leaves chunks pending that are already
  stored, to be stored again.
- *Late continuations* (`overtaking` in `InOrder`): a continuation added while
  another thread publishes those of the same promise may run before them.
- *Logins*: two flows overwrite each other's cache file (`shared` in
  `MemoryIsFile`). The file is truncated before it is written
  (`FileAuthCache.cpp:150`): a crash in between loses the tokens that were in it,
  and the next process resets it to `{}` and asks the user (`Writing` and
  `diskFailed` in `MemoryIsFile`; `AsksOnlyIfNeeded` counts what the file still
  has). A login whose `polling` another login has cleared fails as if
  its code had timed out. The outer retry sets `forceRefresh` on the Xbox token
  manager (`MicrosoftAuthFlow.cpp:643`), where nothing reads it.

## Proofs

Each proof module extends the module it is about. A run checks one instance; the
theorems hold for every value of the constants that satisfies the module's
assumptions: thread identifiers are distinct (`ThreadAssumption`), bounds are
natural numbers, and, where threads are counted, threads and endpoints are finite
sets (`FiniteAssumption`), and packets are well-formed (`ScriptAssumption` and
the others of ChunkCache). In AuthFlow the name of the MSA token differs from
those of the Xbox tokens (`NameAssumption`), the marks for missing, mixed and
unread contents are no contents (`TokenAssumption`), and calls are by logins to
flows with no outer retry or with two tries (`ScenarioAssumption`).

**RakNetClientProofs**, for any set of application threads and any choice of
callbacks that close:

- `TypeCorrect`: the type invariant.
- `Invariance`: the inductive invariant `Inv`.
- `Quiescence`, `SilentFailure`, `ExclusiveCallbacks`: the invariants
  `ClosedIsQuiescent`, `FailedConnectIsSilent` and `CallbacksExclusive`.
- `JoinedOnce`, `PeerLifetime` and, together with the types, `Owned`: the
  invariant `Ownership`.
- `EndAnnounced`: the invariant `SessionEndAnnounced`.

`ClosedIsQuiescent` is not inductive: what a returning `close()` may conclude
depends on where every other thread is. `Inv` adds that each thread is inside
its own code (`WhereInv`), that `connectThreadId_` names the one thread inside
`connect` (`OwnerInv`), that whoever is past the first statement of a close has
set `closeRequested_` (`RequestInv`), what the worker's position says about
`workerActive_` and the peer (`WorkerInv`, `EndInv`), what is true before the
worker is started (`ConnectInv`), who may join it (`JoinInv`), and what holds
for a closer that is past its claim (`QuietInv`) or that reaps a failed connect
(`SilentInv`). Every action preserves every part, given the others.
`EndAnnounced` needs `AnnounceInv` on top: as long as a session is open and
nobody has asked to close it, the worker will notice its end; after that
somebody owes the close handler, the closer that found the session
(`CloserOwes`) or the worker (`WorkerOwes`), or the attempt never became a
session (`GivesUp`).

**NetworkClientProofs**, for any set of threads, any behaviour of listeners and
server, and any depth of nested closes: `LatchAndPhaseOwned` (`OneOwner`),
`CloseEventOnce` (`CloseEmittedOnce`) and `ClosedForGood`
(`ClosedStaysClosed`). The difficulty is the stack: a thread that holds the
phase or the latch may be several closes deep in a listener. `PlaceInv` says
that all frames but the outermost are closes by a listener, so a stack is its
depth and its outermost frame; `At(t)` is where a thread is once its closes have
returned. `AttemptInv` gives the phase to the thread that prepares or connects,
`LatchInv` the latch and its depth to the thread with admitted frames.
`EmitInv` says that after an emission the client is closed or the emitter is on
its way there; `LinkInv`, that a transport that is not held is being closed;
`ShutInv`, what each step of a close leaves behind that a `connect` under way
cannot undo. `ClosedStaysClosed` is the last line of `ShutInv` and needs all the
others.

**QueuePumpProofs**, for any set of threads, any number of packets, any depth of
nested closes: `PumpControlled` (`PumpUnderControl`), `DemandKept`
(`DemandArmed`) and `PacketsKept` (`PacketsOnce`). `ControlInv` describes who
holds `queueLifecycleMutex_` (`LifecycleOwned`), how far a start or a stop has
come (`PumpPosition`), whom the latch belongs to while a listener is in another
call (`LatchOwned`), that from the pause on the pump is off and then at rest
(`Paused`), and that a committing close has published its stop
(`StopPublished`). `PacketInv` is built on it: what senders hold, the queue,
the wire, what was dropped and what was lost are disjoint and without repetitions
(`Apart`), cover what was accepted (`Covered`, `Accepted`), and are in turn
(`Sorted`, `InTurn`) as long as no two senders held packets at once.
`Unprotected` says that without a connection whatever waits is exposed, so that
only exposed packets are lost.

**ServerPlayersProofs**, for any endpoints, threads and sequence of sessions:
`ClosesAreOwn` (`CloseIsOwn`), `RegistryCounts` (`RegistryExact`) and
`ClosedForgotten` (`DetachedNotClosed`). A close event goes to the right player
because sessions have keys of their own (`KeysOwn`, `FreshKey`) and every thread
inside a close works on a session that was ended, under its key (`Owned`); it
comes once because `closedPlayers_` admits one emitter (`EmitOnce`). `Returns`
says where nested calls return to, `Forgetting` that a closed player with a
detached status still has a thread that erases it, `Cleared` that `closing_`
keeps an emptied registry empty. The count is exact up to the decrements under
way, whose number is the cardinality of a set of threads.

**SessionProofs**, for every protocol version, any early senders and any number
of packets:

- `HandshakeIsFirst` proves `HandshakeFirst`. The invariant `FirstInv` says that
  the client has sent an encrypted batch exactly when encryption is enabled, and
  that the first one was the handshake. It is preserved because
  `StartEncryption` enables and sends in one critical section of `sendMutex_`.
- `StaysInStep` proves `InStep`. How far one side may be depends on what is on
  its way to it. `Air(s)` is the set of packets in the stream of side `s`: its
  queue, its encoded batch, its wire and the other side's inbox; `Lone(s)` those
  that are there at most once. Lemmas say what each kind of step does to a
  stream (`Flow`). `OrderInv` then says which packets are single (`LoneInv`),
  what a packet on its way implies about both sides (`AirInv`), and how far each
  side can be for what it has seen (`ClientInv`, `ServerInv`, `SettingsInv`).
- `BatchesAreReadable` proves `BatchesDecode`. `CodecInv` says that a wire is a
  `Chain`: plain batches, then encrypted ones with consecutive numbers that
  begin at the reader's counter, and no plain ones once the reader has counted
  (`CounterInv`); what may be in a plain batch and in which form (`WireInv`),
  what may wait in the queues (`QueueInv`), and who has already read an
  encrypted batch (`ReadInv`). A reader that has counted reads everything; one
  that has not can fail only if some application sends early.

**ChunkCacheProofs**: `CacheDelivers` proves that ChunkCache implements
ChunkDelivery, for any columns, heights, blobs and scripts, whatever the server
answers. The inductive invariant has two halves. `CacheInv` says that what is on
its way, pending or in the hands of a loop was sent by the server and is of the
kind its handler expects. `Fresh` says that until a handler fails a piece is in
one place: on its way, in a loop's list, pending or in the world; it is needed
because the lists of pending chunks are out of date while their loops run. A
step that writes a piece then maps to `Apply`, the next packet of the server to
`Announce`, a handler that fails to `Spoil`, and all others to stuttering steps.
The promise ends with the first failure or wrong column; when these occur is
the subject of `FailuresExplained`.

`BlobsNotForgotten` proves `NoForgottenBlob`. `StateInv` completes the types.
`DueInv` holds inside the loops too: a blob the server has answered is stored or
on its way (`GivenInv`; the server may not send it again); every blob of what is
pending is stored, on its way or asked for, in a status that was sent or in the
one the subchunk loop still collects (`PendingDue`); and what is pending lacks a
blob unless its loop is about to try it again (`PendingLacks`). `WayStep` says
that no step loses a blob that is due; it needs `GivenInv` because an answer may
leave out what was sent before.

`FailuresExplained` proves `OnlyKnownFailures`. `OnceInv`: while no blob is
answered twice, a blob on its way has one place there and is not yet stored.
`NoteInv`: a note of a section names a height at which some packet names it,
and, while no blob is answered twice, a section on its way has such a note and a
stored one was stored with it. `DecodesWell` concludes that a column whose blobs
are there decodes to what its packet meant, since a section without a height of
its own is named at one height only (no `SharedSection`), and `EntryWorks` that an
entry of a subchunk packet does, since its blob has no other height inside (no
`Misplaced`). What makes a handler throw and what makes a column wrong are kept
apart: `Calm` and `InPlace` are the absence of the causes of each. `DecodesWell`
uses `ColumnAssumption`: a level_chunk has no two sections for one height. In the
code the later one wins in both decoders; the model leaves open which, so it
cannot compare them.

**PromisesProofs**: `Implements` proves that Promises implements
PromiseReactions, for any number of threads and promises. `Invariance` is the
inductive invariant: a continuation that waits is in exactly one place, the list
of its source, a thread that publishes, or the queue (`OnePlace`), no list holds
it twice (`DistinctLists`), and closures and positions of threads fit the
promises they are about (`Jobs`, `Control`). Without `OnePlace` a settled
promise could be settled again by a second copy. `TypeCorrect` is the type
invariant. `RunInOrder` proves `InOrder`. Its invariant, `OrderInv`, is about two
reactions to one promise of which the later was not added during a publication:
while both wait, the earlier is ahead of the later in the list that holds them
(`Before`), or in the queue while the later is not (`Turn`). A settlement moves a
whole list, a publication puts a whole list behind the queue, and a new reaction
goes behind those that are there, so no step turns two of them round.

**AuthFlowProofs**, for any flows, logins and scenarios, and any number of Xbox
tokens and of MSA tokens that may be issued:

- `Invariance`: the inductive invariant `Inv`.
- `FilesKeepUp` proves `Durable`. Memory and file differ between
  `setCachedPartial()` and the end of the write, so the property is not
  inductive. `Kept` says that they differ only while a login of the flow writes
  that file, `OneWriter` that this is one login, `Alone` that of two flows both
  are shared, and `Blanked` that nobody fills the file between its truncation and
  the write, so that the write leaves in it what is in memory. `OneMaker` and
  `Absent` do the same for a flow that is being made.
- `RetriesRenew` proves `RetryRenews` and `AskedOnlyIfNeeded` proves
  `AsksOnlyIfNeeded`. Both are about one login, but other logins of its flow read
  and write the same memory between its steps. `Knows` ties what the login has
  seen or renewed to the memory of its flow, `Issued` and `Numbered` say that no
  token is newer than the last one issued, so a token that is issued is newer than
  all, and `Reasons` says why each write was begun: the reset of a file inside
  `getCached()` found nothing in memory, and then the login had seen nothing.
  `Asks` and `Renews` conclude.
- `TokensOnlyNewer` is the action property behind `Knows`: no step replaces the
  MSA token in the memory of a flow that stays by an older one, or loses it.

**Only model-checked.** The liveness properties (`CallsReturn` of both clients,
`Settles`, `EndIsHeard`, `Spawns`, `ResetsEnd`, `PlayerTold`, `AllShown`, those
of Promises and AuthFlow): fairness and `ENABLED` are beyond the proof system.
The invariants of LiveRelay: what a reset may conclude depends on where every
thread is in up to 35 positions, and `ServerboundInOrder` selects the plain
packets of a list, which takes an induction over the list; no proof has been
attempted.

## What is left out of the modules

- *RakNetClient*: setters of handlers; `send`, which changes no lifecycle state.
- *NetworkClient*: a connect that times out stops its link in the same step
  (`RakNetClient.cpp:320-324`; RakNetClient has both steps); a `connect()` that a listener calls on the thread that is
  already connecting, which returns at once; the destructor. The wait of `run()`
  is in LiveRelay.
- *QueuePump*: a send that throws on the pump thread
  (`BedrockNetworkClient.cpp:2508`), which leaves `queueLoop` and ends the
  process; a pump that the lifetime provider refuses; the destructor on the pump
  thread. A close from the transport is in NetworkClient, and so are the threads
  that install and lose it; `reliableSendOverride_`, which tests set, is unset.
- *ServerPlayers*: close listeners that call the server back; `listen()` inside
  `Server#close`; the destructor; a client with a fixed GUID that reconnects
  within the delay of its disconnect (`RakNetServer.cpp:168`).
- *Session*: RakNet delivers reliably and in order; lost connections are the
  subject of the other modules. Refused logins, listeners that close inside the
  handshake, the chunk radius and `tick_sync` timers, compression overrides and
  legacy Snappy are left out; keys, ciphers and signatures are external.
- *LiveRelay*: the refusal of further players with `forceSingle`, diagnostics,
  packets the application injects, a realm that cannot be resolved
  (`BedrockLiveRelay.cpp:1445-1456`), so that `PlayerTold` is about upstreams that
  were opened; a handler that replaces a packet counts as one that lets it pass.
- *ChunkCache*: access to the world from other threads, malformed headers. A
  subchunk whose block entities do not decode is in the world before its handler
  throws; here it is not written. A
  column that was pending is stored when its blobs have come, also over a newer
  one (`BedrockNetworkClient.cpp:2028`): ChunkDelivery leaves the order open.
- *Promises*: `get()` inside a callback, raw `enqueue()`, allocation failures.
- *AuthFlow*: the sisu, msal and password flows, the caches of the Bedrock,
  services and PlayFab tokens, the contents of requests, and units of time; a
  `URIError`, which the outer retry passes on without a second try
  (`MicrosoftAuthFlow.cpp:339`).

## Not modelled

Codecs, ProtoDef, NBT, worlds, items, chat and registries are sequential
conversions whose state space is their data. Login verification is signatures
over JSON. The MSAL port builds requests and parses answers. Realms, ping and
advertisement send one request at a time. The facade, bots, packet events and
inspection forward to the classes above.

The models cover the threads, locks and retries of the library, which are a small
part of its text: the bulk of the repository is generated protocol tables and types
(`src/generated`), tools and smoke tests (`tools`), codecs and data. They have
no state machine to model, and a table restated in TLA+ would show nothing.

## Plan

1. More of the system: the retry of Realms; framing and varints as operators
   against a reference; the palette of a chunk; a refused login in Session; the
   sisu flow in AuthFlow.
2. Abstract specifications: a player registry as a set of live players with one
   end each, implemented by ServerPlayers; a transport that is opened and
   closed once, implemented by RakNetClient and used by NetworkClient; two
   ordered streams that switch their form once, implemented by Session.
3. More proofs: `FreshClientbound` and the parts of `DownIsQuiet` of LiveRelay.
