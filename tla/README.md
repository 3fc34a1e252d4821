# TLA+ models of FnFnCoreWallet

This directory holds TLA+ models of the node in `src/`, the TLC configurations
that check them, and `PROJECT.json`, which lists the components, the runs, the
mutants each property is checked against, the map from every definition to the
source lines it models, the findings and the hazards.

Run a check from this directory with
`tlc -workers 2 -config <cfg> <MC module>`.

## 1. Inventory

### Components, their state and their operations

| Component | Source | State | Operations |
|---|---|---|---|
| Address `CDiskPos` | `src/storage/timeseries.h:18-37` | `(nFile, nOffset)` | `IsNull`, `==`, `<` |
| Segmented log `CTimeSeries` | `src/storage/timeseries.h:47-217` | segment files `<prefix>NNNNNN.dat`, `nLastFile`, `mtxFile` | `Write`, `Read`, `WalkThrough`; `GetLastFilePath`, `Initialize` (in `timeseries.cpp`, not in `src/`) |
| Record cache | `src/storage/timeseries.h:165-215` | `cacheStream` (circular byte buffer), `mapCachePos` | `WriteToCache`, `ReadFromCache`; `VacateCache`, `ResetCache` (not in `src/`) |
| Block record `CBlock` | `src/common/block.h:16-151` | header fields, `vchProof`, `txMint`, `vtx`, `vchSig` | `SetNull`, `IsNull`, `IsOrigin`, `IsPrimary`, `GetHash`, `GetBlockTrust`, `GetBlockBeacon`, `BuildMerkleTree`, `CalcMerkleTreeRoot` |
| Chain index `CBlockIndex`, `CBlockOutline`, `CBlockLocator` | `src/common/block.h:173-348` | `pOrigin`, `pPrev`, `pNext`, height, trust, supply, `(nFile, nOffset)` | constructor, `GetOriginHash`, `GetParentHash`, `GetBlockType`; linking and trust accumulation are done by the world-line code, not in `src/` |
| Connection pools `CIOCachedContainer`, `CIOInBound`, `CIOOutBound`, `CIOSSLOutBound` | `src/walleve/walleve/netio/iocontainer.cpp` | idle queue, in-use set, pending-connect timers (`mapPending`), acceptor | `PrepareClient`, `ClientAlloc`, `ClientClose`, `FreeClient`, `Invoke`, `Halt`, `HandleAccept`, `ConnectTo`, `Timeout`, `HandleConnect` |
| HTTP server `CHttpServer`, `CHttpClient` | `src/walleve/walleve/http/httpserver.cpp` | `mapProfile`, `mapClient` (nonce to client), per client `fKeepAlive`, `fEventStream`, buffers | `ClientAccepted`, `AddNewClient`, `Activate`, `HandleReadHeader`, `HandleReadPayload`, `HandleClientRecv`, `HandleEvent(rsp)`, `HandleClientSent`, `HandleClientError`, `RemoveClient`, `RespondError` |
| DBP server | `src/walleve/walleve/dbp/dbpserver.h` | declarations only | none implemented in `src/` |
| DBP test client | `src/tests/dbp-client/main.cpp` | none | a one-shot connect exchange |
| Entry / bootstrap `CMvEntry` | `src/src/entry.cpp` | config, docker, modules | `Initialize`, `InitializeModules`, `AttachModule`, `Run`, `Exit`, daemonising |
| Configuration | `src/src/config.cpp`, `src/src/mode/network_config.cpp` | mode, ports, connection limits | `CMvConfig::Load` (mode from executable name and command), `CMvNetworkConfig::PostLoad` |
| Core protocol, dispatcher, keys | `src/src/core.h`, `src/src/dispatcher.h`, `src/crypto/key.h` | declarations only | none implemented in `src/` |

### How the components interact

* The chain code (outside `src/`) serialises a block and calls
  `CTimeSeries::Write`, which returns the `(nFile, nOffset)` address of the
  payload; it then builds a `CBlockIndex` holding that address and links it
  into the chain graph. `Read` replays an address, through the cache first. At
  startup `WalkThrough` rescans all segments and hands every record to a
  walker (the chain code), which may reject one and stop the scan.
* All three `CTimeSeries` operations take `mtxFile` for their whole duration,
  so they are serialised; the cache is only touched under that lock.
* The network side runs on one asio `io_service` per `CIOProc`: handlers
  (accept completions, connect completions, timer expiries, HTTP reads and
  writes, and events posted by other modules) run one at a time, in an order
  the network decides. `CIOInBound` keeps a pool of `nMaxConnection + 1`
  clients and always has one accept outstanding; `CIOOutBound` and
  `CIOSSLOutBound` arm a timer per connect, and the timer and the connect
  completion race. `CHttpServer` is a `CIOProc`: accepted clients become
  `CHttpClient`s keyed by a random nonce; a request is posted as an event to
  the RPC module, whose response comes back later as an event carrying the
  nonce, possibly after the client is gone.

### What is hard

* Torn writes and crashes in the log: `Write` can throw after part of a
  frame reached the file, the process can stop at any point, and recovery is
  only the forward scan of `WalkThrough`.
* The cache must never change the result of a read: keys, eviction and the
  reset-on-failure fallback.
* Segment rotation and restart: addresses must stay unique and increasing.
* The Merkle tree's odd-node duplication: distinct transaction lists can have
  the same root.
* Connection pools at their limit, timeouts racing connect completions,
  `Halt` racing outstanding handlers, and client objects returned to the pool
  (or deleted) while a completion handler still holds a pointer to them.
* HTTP responses that arrive for a nonce whose client was removed, or
  re-used, and keep-alive re-activation.

### What makes each component correct

* Log: every address `Write` returns is new and larger than the previous
  one; `Read` of it returns the record written; `WalkThrough` replays exactly
  the acknowledged records, in order, and stops at the first bad frame with
  the right resume position; an acknowledged record is never lost to
  recovery.
* Cache: invisible to results; bounded.
* Merkle root: equals the recursive definition of spec section 4.4; it should
  determine the transaction list.
* Chain index: height is the predecessor's plus one, trust is the
  predecessor's plus the block's contribution, a node's origin is the nearest
  origin block on its path.
* Pools: a client is idle, in use or gone, never two of these; the inbound
  pool never runs out of a client for the next accept; every pending connect
  ends (connected, failed or timed out) and its timer is cancelled or fired.
* HTTP: a response goes only to the client whose request it answers; every
  removed client produces one broken event; no client is used after it is
  deleted.

## 2. Plan

Modules in the order they are built; the most important behaviour first.

1. `TimeSeries` (+ `MCTimeSeries`): the segmented log with its cache, torn
   writes, restart and recovery walk. **Done.**
2. `Block` (+ `MCBlock`): `BuildMerkleTree` as a RECURSIVE operator checked
   against the reference definition over all lists of up to six
   transactions; `AddTx`, `SetNull` and the serialized layout that
   `GetTxSerializedOffset` must agree with. **Done.**
3. `ClientPool`, `IOOutBound` (+ `MCIOOutBound`): the cached client pool
   as operators, and the outbound connect/timeout race over it; liveness of
   pending connects under weak fairness of the io_service. **Done.**
4. `HttpServer` (+ `MCHttpServer`), with CIOInBound's accept loop over the
   same pool: client lifecycle, nonces, keep-alive, responses routed by
   nonce, the capacity of the accept loop. **Done.**
5. `IOSSLOutBound`: the SSL outbound container, whose ClientClose deletes
   the client. **Done.**
6. `BlockIndex`: nodes created from blocks and linked (height, trust,
   origin, parent hash), checked against recursive path definitions.
   **Done** (fork choice by trust is not: that code is not in `src/`).
7. `Config`: `CMvConfig::Load`'s mode selection and `PostLoad`'s derived
   network limits. **Done**, as part of `Entry`.
8. `AppendLog`: the abstract log, implemented by `TimeSeries` under the
   mapping `log <- acked`. **Done.**
9. `Entry` (+ `MCEntry`): start-up and shutdown of `CMvEntry`, with the
   forked daemon, the pid file and the data-directory lock shared with an
   earlier node. **Done.**
10. `HttpSessions`: the abstract HTTP session protocol, implemented by
    `HttpServer`; `AllowMask`: CIOInBound's whitelist, checked against a
    glob reading of the masks; `PrepareClient` and `FreeClient` with
    Invoke's failures. **Done.**
11. Left for later sittings:
   * several listening hosts: `src/` configures one, the RPC host, so
     only one is modelled. CreateProfile and CreateIOClient are modelled
     for that host;
   * `CBlockOutline`, `CBlockLocator` and the remaining `CBlock` accessors
     from `block.h`.

Not planned: the DBP server (no implementation in `src/`), the core
protocol, dispatcher and keys (declarations only), the file system calls of
`CMvEntry` beyond their outcomes (pure I/O), and the DBP test client.

## 3. Modules and runs

### `TimeSeries` (src/storage/timeseries.h)

State: `files` (each segment a sequence of frames `[rec, len]`; a frame
shorter than header + payload is torn), `nLastFile`, `cache` (the circular
cache stream together with `mapCachePos`, as a sequence of `[pos, rec]`
entries, oldest first), and observation variables `acked` (every write that
returned true), `lastRead` and `walkResult` (the outcome of the read or walk
taken by the step that just happened).

Actions: `Write(r)` (GetLastFilePath, append the frame at the end, address
of the payload, then the cache or ResetCache), `WriteFail(r, n)` (the stream
throws after `n` bytes of the frame: 0 means nothing was written),
`Read(pos)` (cache hit, or disk read then cache), `ReadFail(pos)`,
`Walk(budget)` (WalkThrough with a walker that rejects the record after
`budget` accepted ones), `Restart` (process restart: cache lost, Initialize
sets `nLastFile` to 1). A crash in the middle of a Write is `WriteFail`
followed by `Restart`. `GetLastFilePath`, `Initialize` and `VacateCache` are
in `timeseries.cpp`, which is not in `src/`: they follow spec sections 4.2
and 4.3 and the declarations in `timeseries.h` (GetLastFilePath takes no size,
so a segment is full once it reaches `MAX_FILE_SIZE`).

Bounds (`MCTimeSeries.cfg`): records `a`, `b` (size 1) and `c` (size 2, over
`MAX_CHUNK_SIZE` = 1, so writing or reading it resets the cache), frame
header 1, segments full at 4 (two frames), cache of 4 with entry header 1 (two
entries, so the third evicts), 2 segments, 4 writes, 1 restart. This is the
smallest setting where rotation, eviction, the oversized-record reset, a
torn frame before and after rotation, and a restart all happen.

Runs:

* `timeseries` (pass): `AppendLogRefined` and `WalkStopsAtFirstBadFrame`
  (an action property comparing every walk with a loop-free definition of the
  recovery point).

`AppendLogRefined` is the refinement. `AppendLog.tla` is what the log
promises its callers, with no segments, frames or cache. It holds an
append-only sequence `log` of acknowledged `[pos, rec]` entries, each at an
address after every earlier one. A read of an acknowledged entry returns its
record or an I/O error. A walk replays a prefix of the log no longer than the
walker's budget. Failed writes and restarts change nothing. `TimeSeries`
instantiates it with `log <- acked`, `lastRead <- lastRead` and `lastWalk`
built from `walkResult`, and `CDiskPos::operator<` as the order. The
property therefore says in one statement what three separate invariants said
before: addresses are unique and increasing, a read returns what was written
(the cache included), and recovery never replays an unacknowledged record.
`Read` of an address the log never acknowledged is outside the abstract
spec, and the model only reads acknowledged addresses, as the chain index
does.
* `timeseries_recover` (violation): `WalkRecoversAcked`, spec section 7's
  rule that appends resume at the recovered position. TLC finds:
  `WriteFail(a, 1)` leaves one byte of a frame, the next `Write(a)` is
  acknowledged at `<<1, 2>>` behind it, and the walk stops at offset 0 of
  segment 1 without visiting it.

No fairness: the log has no liveness obligation of its own (every call runs
to completion under the mutex).

### `Block` (src/common/block.h)

State: `vtx`, the block's transaction list, as a sequence over a small set of
transaction hashes. Actions: `AddTx(t)` (append, up to `MaxTx`) and
`SetNull` (the list and the proof cleared), and `SetProof(n)`, the block
producer filling `vchProof` with `n` bytes. `GetTxSerializedOffset` is the
hand-written sum of the header sizes and the compact-size length of the
proof (1 byte below 253, 3 bytes up to 65535, 5 beyond). The stream
encoding it must agree with is not in `src/`, so no run checks it.
`BuildMerkleTree` is the RECURSIVE operator
`Levels`. It follows the code's loop over levels: `j` is the offset of the
level and `nSize` its width, and the pair of index `i` is
`i2 = min(i + 1, nSize - 1)`. `CryptoHash` is an injective pairing, so two
roots are equal only when the trees are equal.

Run `merkle` (pass, `MaxTx` = 6 over two hashes): `MerkleMatchesReference`
compares `CalcMerkleTreeRoot` with spec section 4.4's definition. That
definition pairs a level up, duplicates the last hash of an odd level, and
gives the null hash for an empty list. The check covers every list of up to
six transactions, so it includes levels of width 1, 2, 3, 5 and 6 and two
successive odd levels. That two lists can share a root (`<<t1,t1,t1>>` and
`<<t1,t1,t1,t1>>`) is a consequence of the duplication the spec prescribes.
It is listed as a hazard and not as a run.
The run reaches 762 distinct states.

### `ClientPool` and `IOOutBound` (src/walleve/walleve/netio/iocontainer.cpp)

`ClientPool` defines CIOCachedContainer's operations as operators over a
record `[idle, inuse]`. `idle` is `queIdleClient`, a sequence with its
FIFO order kept. `inuse` is `setInuseClient`. The operators are
`ClientAlloc` (pop the front, mark in use), `ClientClose` (an in-use client
goes back to the tail; an idle one is left alone) and `Deactivate` (every
in-use client closed, in the order of the copied set), `FreeClient`
(idle clients deleted from the front until `nReserve` remain) and
`PrepareClient` (clients created until the queue holds `nPrepare`; when
CreateIOClient returns NULL part way, every idle client is deleted and the
call fails). Both containers' `Invoke` use `PrepareClient`, so their initial
states include a failed start with an empty pool. `PoolWellFormed` is
the pool's own invariant: no client is queued twice, and none is both idle
and in use.

`IOOutBound` models CIOOutBound over that pool. Its state is:
* `connecting`: the timer id of each client's in-flight connect;
* `handlers`: the completion handlers queued on the io_service;
* `pending`: `mapPending`;
* `timers` and `nTimer`: the timers armed in CIOProc;
* `established`: the clients ClientConnected accepted.

Its actions are:
* `ConnectTo`;
* `ConnectDone(c)`: the network completes a connect with ok or error;
* `Timeout(t)`;
* `HandleConnect(h)`;
* `PeerClose(c)`;
* `Halt`: Deactivate, then clear `mapPending`;
* `Stopped`: nothing runs after Halt.

CIOClient and CIOProc are not in `src/`. The model assumes the semantics
their use here implies:
* `Close()` aborts an in-flight connect, so that connect's handler is
  queued with `operation_aborted`.
* `Close()` calls `ClientClose` synchronously. This is why `Deactivate`
  copies the set before it iterates.
* A handler that is already queued keeps its result.

Every handler runs on the one io_service thread, so each action is atomic.

Runs (clients `c1`, `c2`, `c3`, 4 ConnectTo calls, 227408 states):

* `outbound` (pass):
  * `NoClientPooledTwice`: the pool stays well formed whatever order
    timeouts, completions and closes take, including a client closed twice.
  * `PendingResolved` (liveness): every `mapPending` entry is erased in the
    end. It assumes weak fairness of `ConnectDone`, `Timeout` and
    `HandleConnect`: the io_service runs every queued handler, the network
    ends every connect, and an armed timer fires.
* `outbound_reuse` (violation): `EstablishedNotPooled`. The sequence TLC
  finds:
  1. The connect completes with ok.
  2. The timer fires before the handler runs.
  3. `Timeout` closes the client back into the idle queue.
  4. `HandleConnect` hands the same client to `ClientConnected`.

  The client is now owned by a peer and also idle, so the next `ConnectTo`
  reuses it (iocontainer.cpp:294).

### `HttpServer` (src/walleve/walleve/http/httpserver.cpp, CIOInBound)

The model is one listening host (the only host `src/` configures:
CMvEntry adds the RPC host alone). Its state is:
* `allowMask` and `whiteList`: the `vAllowMask` Invoke was given and the
  `vWhiteList` BuildWhiteList made of it;
* `pool`;
* `acceptor`: the acceptor is open;
* `accepting`: the client of the outstanding Accept;
* `mapClient`: nonce -> `[io, remote, st, keep]`. `st` is what the CHttpClient
  waits for: `readHeader`, `readPayload`, `waiting` (for the RPC module's
  response) or `writing`;
* `nNonce`: fresh nonces. The code draws 64-bit random nonces until one is
  unused;
* `reqs`: requests posted to the RPC module and not yet answered;
* `broken`: the broken events posted per nonce;
* `mapProfile`: the host's profile, made by `CreateProfile` from a
  configuration chosen in `Init`. It records whether the profile has an SSL
  context (`optSSL.fEnable`) and whether users are configured
  (`mapAuthrizeUser` not empty);
* `transport`: for each pool client, `ssl` (a `CSSLClient`) or `tcp`, as
  `CreateIOClient` made it during Invoke's PrepareClient.

Its actions are:
* `HandleAcceptOk(r)`: a connection from remote `r`. The
  `queIdleClient.size() <= 1` reserve check and `IsAllowedRemote`, then
  ClientAccepted's profile lookup, `AddNewClient` and the next Accept;
* `HandleAcceptSsl`: the handshake failed, which only an SSL client can
  have;
* `HandleAcceptError`: the acceptor is closed;
* `HandleReadHeader`, `HandleReadPayload`: both end in
  `HandleClientRecv`, which gives 401 (only when the profile has users),
  400, or a post to the RPC module;
* `HandleEvent`: the response arrives. An unknown nonce is dropped;
* `HandleWritenResponse`: keep-alive re-activates the client, otherwise
  `RemoveClient`;
* `Halt`: LeaveLoop removes every client, then CIOInBound::Halt runs.

`RemoveClient` always erases the client, posts the broken event and closes
the pool client.
`SendResponse`, `RespondError` and `StartReadPayload` are operators named
after the calls that issue the client's next I/O. An error page carries
`connection: close` and leaves `fKeepAlive` false, so the client is removed
once the page is written. `WalleveHandleInitialize` builds the profile map
from the host configuration. `GetRPCHostConfig` supplies that
configuration: SSL on or off, and users or none. A failed SSL set-up fails
initialisation, so that case belongs to `Entry`.

A negative `content-length` becomes a huge unsigned length after `atoi`.
The payload read then never completes (httpserver.cpp:103). The model
already lets a read stay outstanding forever, as a silent peer's does, so
this is listed as a hazard without a property.

`Init` is the state Invoke leaves, including its two failures. If
CreateIOClient returns NULL, the pool is emptied. If the acceptor cannot
bind or listen, it is closed with the clients prepared.

`AllowMask.tla` holds the whitelist. `MaskToRegex` is the `regex_replace`
of BuildWhiteList, character by character: `*` becomes `.*`, `?` becomes
`.`, and `.` becomes `\.`. `RegexMatch` is `regex_match` for the regexes
that replacement yields. `GlobMatch` is the reference reading of a mask as a
glob. Masks and addresses are sequences of one-character strings, because
the property is about that conversion.

Bounds:
* nMaxConnections = 3, so 4 pool clients;
* all four profiles: with or without SSL, with or without users;
* 5 accepted connections;
* three remotes, `1.1`, `2.2` and `112`;
* three allow lists: none, `1.*`, and `?.2` with `1?1`.

`112` is admitted only if a `.` is mistaken for any character. With these
bounds the pool reaches its reserve, and clients are removed and accepted
again. The run reaches 769368 states in about 90 seconds.

`HttpSessions.tla` is the abstract specification of the server. It has
connections under ids that are never re-used, at most `Cap` open at once.
On an open connection a request is read, then either posted (`Request`) or
answered with an error (`Reject`). The RPC module's answer goes to the
connection that asked, and is dropped once that connection has closed.
After a response the connection reads again or closes. Every close is
reported once, and a close never happens while an answer is owed.
`HttpServer` maps onto it as follows:
* each nonce is a connection id;
* `readHeader` and `readPayload` map to `reading`;
* a nonce handed out and no longer in `mapClient` is `closed`;
* `reqs` are the pending requests, and `broken` counts the close reports;
* `Cap` is nMaxConnections.

Runs:
* `http` (pass):
  * `AcceptorHasClient`: ClientAlloc never returns NULL while the acceptor
    is open.
  * `PoolAccounting`: in use = the live clients plus the accepting one, all
    distinct, and each other client idle once.
  * `AdmittedOnlyAllowed`: every live client's remote is named by an allow
    mask read as a glob, or no mask was given.
  * `HttpSessionsRefined`: the server implements `HttpSessions` under every
    order of its handlers. Every request gets one response, routed by nonce
    to the client that asked. Every removal is reported once. No more than
    nMaxConnections connections are open at once.
* `http_limit` (violation): `BelowLimitAdmits`. TLC finds the host refusing
  its third connection while only 2 of nMaxConnections = 3 are open. Invoke
  prepares nMaxConnection + 1 clients and one is always held by Accept, so
  the `<= 1` test admits at most nMaxConnections - 1 connections
  (iocontainer.cpp:212).

Two whitelist hazards are listed without a run. First, Invoke ignores
BuildWhiteList's result: a mask boost::regex rejects cuts the list short,
and if it is the first mask, every remote is let in. The model's alphabet
yields only valid regexes. Second, `vAllowMask` is copied into the profile
but never passed to `StartService` in `src/` (httpserver.cpp:239). The
model therefore takes the list Invoke receives as a choice.

No fairness is assumed, and no liveness is checked. A client may stay in any
state forever (a silent peer), and the code has no timeout for that.

### `IOSSLOutBound` (iocontainer.cpp, CIOSSLOutBound)

CIOSSLOutBound allocates a client object for each connect (`new`), and its
`ClientClose` deletes the object. Objects are numbered by allocation, and
the k-th ConnectTo arms the k-th timer. The state is `inuse`, `freed`,
`nAlloc`, `connecting`, `handlers`, `pending`, `timers`, `shutting`,
`established` and `halted`. `shutting` is the set of clients whose
`Shutdown()` has not yet ended in `Close()`. The actions are `ConnectTo`
(refused at nMaxConn), `ConnectDone`, `Timeout`, `HandleConnect`,
`ShutdownDone`, `PeerClose` and `Halt`.

Runs:
* `ssl_outbound` (pass, nMaxConn = 3, 5 connects, 145237 states; the cap
  is reached, and slots are released and used again): `NoLeakedSlot`
  (liveness). A client that is not
  handed to the peer layer is deleted in the end, so its nMaxConn slot is
  freed. It assumes weak fairness of `ConnectDone`, `Timeout`,
  `ShutdownDone` and `HandleConnect`.
* `ssl_outbound_free` (violation, nMaxConn = 2, 4 connects):
  `NoUseAfterFree`. This is the race of
  `outbound_reuse` again: the connect completes, the timer fires, and
  `Timeout` deletes the client, so the queued success or error handler
  calls `ClientConnected` or `Shutdown` on a deleted object
  (iocontainer.cpp:477).

### `BlockIndex` (src/common/block.h)

`index` maps node numbers to CBlockIndex fields: type, mint type, whether
there is a proof, `prev`, `origin`, `height` and `trust`. Node numbers
stand for block hashes, and 0 stands for null. `NewIndex` is the
CBlockIndex constructor. `IsOrigin` tests `nType >> 15`. `GetBlockTrust`,
`GetOriginHash` and `GetParentHash` are the accessors. The linking
(`LinkIndex`) is done by world-line code that is not in `src/`, so it is
taken from spec section 4.5. The actions are `AddGenesis` and
`AddBlock(p, blk)`, which adds any non-genesis block after any existing
node. This makes forks from any point, including a fork of a fork.

Run `chain_index` (pass, 5 blocks, 6391877 states). The run has
CHECK_DEADLOCK FALSE because the index stops growing at its bound. It checks
every node against RECURSIVE definitions over its path of predecessors:
* `LinkMatchesPath`: height and the summed trust of spec section 4.4.
* `OriginIsNearestOriginBlock`: `GetOriginHash` is the nearest genesis or
  origin block.

### `Config` (src/src/config.cpp, src/src/mode/network_config.cpp)

`Config.tla` has no specification of its own: `Entry` extends it and runs
`Load` and `PostLoad` as its first two steps. `ConfigInit` chooses the
executable name, the first command word and the option values at the
boundaries PostLoad tests: ports -1, 0, 65535 and 65536, maxconnections 10
and 11, and timeout 0. `Load` is the mode selection's CASE chain in the
code's order. `PostLoad` derives the port, the inbound and outbound limits
and the connect timeout. `NetworkLimits` is checked in the `entry` run: after
PostLoad the port is a real port, and the configured one whenever that one is
valid; the timeout is positive; a listening node has room for an inbound peer.

For `multiverse miner`, the test `exec == "multiverse-miner" || cmd ==
"miner"` comes first, so `ignoreCmd` is 0 and the miner branch that sets it
to 1 is dead code (config.cpp:46). It is listed as a hazard: the command word
stays in `vecCommand`, so `Exit` of a miner daemon leaves its pid file.

### `Entry` (src/src/entry.cpp)

Processes: `main` (the invocation), `daemon` (the child `RunInBackground`
forks; it starts where `fork()` returned) and an earlier node on the same
data directory, present or not in the initial state, which may hold the lock
and own `multiverse.pid`.

State: `pc` of each process, `flags` (`fHelp`, `fDaemon`), `idx` (the
position of `InitializeModules` in the mode's module list), `attached` (the
module types in each docker), `lockHolder`, `pidFile` (the process the pid
file names), the history variable `pidWritten`, and `otherAlive`.

Actions: `LoadStep`, `PostLoadStep`, `InitializeStep` (help, the data
directory, then fork for the server and miner modes when `-daemon` is set),
`Fork` (fork fails, or the parent goes to write the pid file and the child
goes on), `WritePidFile`, `Setup` (log file and docker), `ModuleStep` (one
iteration of `InitializeModules`: `LOCK` takes the lock or fails, `RPCMODE`
needs the `httpserver` object, any other type is attached or refused),
`ModulesDone`, `Run`, `Stop`, `Exit` (the docker is emptied, `ExitBackground`
removes the pid file when `fDaemon` is set, no command was given and help was
not asked for, and the lock goes with the process), `OtherStops`.

Assumptions taken from outside `src/`: `CMvEntry::GetInstance` returns a
function-local static, so its destructor calls `Exit()` when the process
ends, also at the `exit(0)` of the parent after `fork`. `TryLockFile` holds
the lock until the process ends. `CMode::GetModules` is the constant
`ModeModules`, given in `MCEntry.tla`: the server mode takes the lock and
has the HTTP server before the RPC module, the seed mode takes the lock, and
the miner and console modes do not.

Bounds (`MCEntry.cfg`): the `Config` option values above, both flags, an
earlier node present or not and owning the pid file or not, and the module
lists above, where every attach can be refused. `entry` reaches 920640
distinct states.

Runs:
* `entry` (pass): `NetworkLimits` and `SingleNodePerDataDir`: at most one of
  the earlier node, the invocation and its daemon is past
  `InitializeModules` with a module list that takes the lock.
* `entry_pidfile` (violation): `DaemonKeepsPidFile`, that while the forked
  daemon is alive the pid file its parent wrote names it. TLC finds: `Fork`,
  `WritePidFile` (the parent writes the daemon's pid), then the parent's
  `exit(0)` runs the static `CMvEntry`'s destructor, whose `Exit` calls
  `ExitBackground` and removes `multiverse.pid` (entry.cpp:395 and 318). The
  daemon runs on with no pid file.

No fairness is assumed and no liveness is checked. Start-up never waits
(TryLockFile returns false, entry.cpp:140), so a liveness property over it
would hold by the shape of the model. A node runs until it is stopped, and
`Finished` stutters once every process has ended.

## 4. What is not modelled

* The DBP server and the DBP test client: there is no implementation in
  `src/`, or it is a test driver only.
* In `CMvEntry`: `GetDefaultDataDir`, `SetupEnvironment`, the log file
  path and `GetRPCHostConfig`. These are file system and string work; `Entry`
  keeps only their success or failure.
* The core protocol, dispatcher, keys and wallet: `src/` has declarations
  only.
* `CBlockOutline`, `CBlockLocator` and `CBlock::GetBlockType`-style
  accessors beyond the ones the index uses.
* The hash functions: the model uses an injective pairing, so it cannot
  show a hash collision. The byte-level formats of frames, HTTP messages and
  JSON bodies are abstracted to their lengths and outcomes.
