# My-OpenWaf: a TLA+ verification project

My-OpenWaf is a web application firewall: a reverse proxy whose data plane
matches requests against an immutable configuration snapshot, an admin API that
edits the configuration in a database, and an observability path that writes
what happened back to a database. Several nodes may share one database and keep
each other informed through Redis.

This directory models the parts of it that are concurrent, that fail half-way,
or that several nodes do together: TLA+ modules translated from the Go source,
TLC configurations that check them on small instances, and TLAPS proofs for
every instance. `PROJECT.json` maps each definition to the lines it stands for.

## The system's parts

Paths are relative to `src/internal/`.

| Part | State it keeps | Operations | What is hard | What makes it correct |
|---|---|---|---|---|
| write queue, `observability/write_queue.go` | job channel, current batch, reply channels, counters, shutdown gate | `Submit`, `SubmitWait`, `SubmitPriority`, `Close`, goroutine `loop` | callers racing `Close`, a full channel, transactions that fail as a whole or in part, commits of unknown outcome | no acknowledged write is lost, nothing runs twice, every caller is answered, `Close` leaves nothing behind |
| unified log writer, `observability/unified_writer.go` | four channels, four buffers, counters, long-lived SQLite statements | `Record*`, `Close`, `SetRedis`, goroutine `loop` | the request path must never block, the drain has a budget, a transaction may hang, one kind may fail alone | each record is flushed or counted as lost, exactly once; the goroutine ends after `Close` |
| COUNT cache, `cache/query_cache.go` | cached counts per query | `Get`, `Set`, `InvalidatePrefix`, expiry | a query that overlaps a commit | a count is not stale beyond what the TTL explains |
| configuration reload, `core/runtime.go`, `app/server.go` | revision row, published snapshot, snapshot cache, JavaScript executor, IP lists | `reloadRuntime`, `ReloadSnapshotWithPrePublish`, startup | tables read outside a transaction while other nodes commit and bump, failing callbacks, crashes between commit and bump | what is published is complete for its revision; what the API acknowledged is live |
| configuration synchronisation, `core/redis/pubsub.go`, `app/server.go` | Redis connection, subscription | `PublishReload`, `Subscribe`, the Redis switch | lost messages, a change of the Redis server, subscription gaps | acknowledged changes reach every node |
| listeners, `core/lifecycle`, `app/server.go`, `app/http3.go` | registered servers by name, with the fingerprint of their configuration | register and spin at startup, reconcile on a reload, shut down | startup races a reload, binds held by others, servers that start late or fail | after a reload the listeners are those of the snapshot; no server is lost track of or started twice; during startup the code keeps neither, see below |
| upstream pool, `upstream/health.go` | health and circuit state per upstream | active and passive checks, selection | probes racing reloads, late results | a removed upstream is not revived, a healthy one is found |
| response cache, `cache/response_cache.go`, with the handler's cached branch | entries, target index, size and count, generation, fills under way | lookup, stale-if-error, single flight, conditional store, eviction, purge, clear | fetches that straddle a purge or a clear, leaders that fail, limits | no client is given less than it knows to be written; the old configuration drains; the books balance |
| admin authentication, `admin/auth` | sessions, attempt counters | login, refresh, revoke | revocation racing refresh | a revoked session stays revoked |
| challenges, anti-replay, rate limits, `waf/*` | tokens, nonces, windows, in memory or in Redis | issue, verify, consume | mostly single atomic steps over signed data | a token is consumed once |
| rule engine, `core/engine`, `core/pipeline`, `waf/luaplugin` | two copy-on-write caches of rules and phase chains, script sets | take a chain, run it, post scripts | requests of two snapshots share the caches while a reload moves what a chain is built from | a request is judged by its own snapshot; a verdict is complete and is not weakened |
| escalation, `waf/escalation` | hit counters in Redis and in memory | record, evaluate, reset, clean up | half-failed Redis calls, a change of backend, lost updates | nobody is escalated for hits that did not happen |
| threat intelligence feeds, `waf/threatintel`, `admin/system/threatintel`, `admin/system/iplist` | feed rows, their IP list entries, the set of feeds being synced | scheduled and manual sync; create, update, delete of feeds and of single entries | slow fetches between reading and writing a row, two syncs of one feed, failures between its steps, entries edited by hand | row and entries agree; a feed that is due is synced; edits and deletions last |
| detectors, script engines, proxy, TLS, frontend | | | text matching, third-party engines, I/O | out of scope, see below |

How they interact: an admin handler commits to the database and calls
`reloadRuntime(true)`; that bumps the revision, publishes a snapshot in the
`Holder` that every request loads, re-applies what derives from it and announces
the reload. Subscribers on other nodes call `reloadRuntime(false)`. A request
handler hands its log records to the unified writer and slow writes to the write
queue; a flush invalidates the COUNT cache that the admin API's list queries
use. A reload of the Redis settings replaces the Redis client of all of them.
After publishing, a reload clears the response cache, reconfigures limiters,
drop policy and bot threshold, replaces the scripts and reconciles the
listeners, in this order and one at a time, while requests go on: a request
loads the snapshot once, takes its phase chain from the engine's caches, runs
it, lets the escalation manager count it if it is stopped, and otherwise goes
to the response cache or upstream.

## Modules

| Module | Models | Checked by |
|---|---|---|
| `WriteQueue` | the write queue | `MCWriteQueue` |
| `WriteContract` | what the write queue promises its callers | `WriteQueue!Implements` |
| `WriteQueueProofs` | invariants of `WriteQueue`, and that it implements `WriteContract` | TLAPS |
| `UnifiedWriter` | the log writer and the COUNT cache entries it invalidates | `MCUnifiedWriter` |
| `UnifiedWriterProofs` | its invariants | TLAPS |
| `ConfigReload` | reload on each node, the revision row, the Redis servers, startup and restart | `MCConfigReload` with three configurations |
| `ConfigReloadProofs` | the inductive invariant of `ConfigReload` and the theorems | TLAPS |
| `EdgeCache` | the response cache, the requests that use it, purge and clear | `MCEdgeCache` with two configurations |
| `ResponseContract` | what the response cache and its handler promise clients | `EdgeCache!Implements` |
| `EdgeCacheProofs` | what the cache may serve and hold, and that it implements `ResponseContract` | TLAPS |
| `Listeners` | the lifecycle manager, startup and `reconcileListeners` | `MCListeners` with two configurations |
| `ListenersProofs` | its invariants, without early reloads | TLAPS |
| `PhaseCache` | how requests get their rules and phase chains during reloads | `MCPhaseCache` |
| `PhaseCacheProofs` | its invariants | TLAPS |
| `Verdict` | pipeline, scripts, dispatch and escalation | `MCVerdict` |
| `VerdictProofs` | its invariants | TLAPS |
| `FeedSync` | the threat intelligence feeds: loop, manual syncs, admin handlers of feeds and of IP entries | `MCFeedSync` |
| `FeedSyncProofs` | its invariants | TLAPS |

`ConfigReload` is about which snapshot is published; `EdgeCache`, `Listeners`
and `PhaseCache` are each about one thing that derives from it, and take the
publication itself as one step that their environment may make. What they rely
on from `ConfigReload` is that reloads run one at a time and that the holder
only takes newer revisions. `Verdict` begins where `PhaseCache` ends. `FeedSync`
is one of those that cause reloads; it takes a reload as a step without effect.

### WriteQueue and WriteContract

A job is one call of `Submit*`, made by one goroutine. `pc` follows the call from
the counter (`Call`) through the read lock (`RLock`, `DropClosed`) to the
non-blocking send (`Send`, `DropFull`, `SyncFallback`), the late `enqueued`
counter (`Sent`) and the reply (`ReceiveDone`). A Go `RWMutex` keeps new readers
out while a writer waits, which `CanRLock` states. `loop` is the position of the
queue goroutine: its `select` (`LoopRecv`, `LoopTick`, `LoopStop`), the inner
drains (`Drain`, `DrainDone`, `StopDone`), and `flushBatch`, split where another
goroutine can see the difference: the transaction (`FlushTx`, `FlushNoDB`), then
replies and counters (`FlushNotify`). A transaction commits, aborts, or commits
while the driver reports an error; each closure may fail behind its savepoint,
and a savepoint may fail to undo it. The replies and the counters of one batch
are one step: `pending` is not empty until both are done, and every property
that reads the counters waits for that.

`WriteContract` knows only calls, outcomes and the writes that took effect. The
mapping (`Contract`) is `outcome <- result`, `stored` as it is, and `over` once
some call of `Close` has returned. A batch is one `Apply`, the synchronous
fallback an `Apply` and an `Answer` in one step, and everything the channel and
the goroutine do in between is stuttering.

### UnifiedWriter

A record is one call of `Record*`. The channels and the buffers are sets because
no step depends on the order in them. `drainChanInto` is a loop of receives
(`DrainRecv`) that ends per kind (`DrainNext`); the code visits the kinds in a
fixed order, the model in any, which only adds behaviours. The shutdown drain is
`StopDone`, a flush, then `DrainAgain` or `abandonRemaining`: time is
abstracted to the choice between the two. `CloseTimeout` may happen whenever
`Close` waits. `flushBuffered` is `FlushBegin` (Redis first), `FlushTx` and
`FlushReport`. `stmts` are the prepared statements that `Close` must not release
under a running goroutine. `count` and `reader` hold what a cached count and a
list query under way are worth, compared with the database.

### ConfigReload

Each change adds a row to every table, so a snapshot is, per table, the set of
changes it saw; `BuildTable` reads one table at a time, as `Build` does, with
anything in between. `step` follows `reloadRuntime` under `runtimeReloadMu`:
bump, revision, build or cache, check, callback, check again, publish, apply,
Redis, announce. `owner` is what called it: a request, a message of another node
(`sync`) or the startup of the process (`start`), which skips the parts startup
does not have. `holder` is the published snapshot, `cache` the in-process cache,
`js` whether a JavaScript executor is installed, `ipRep` the IP lists that are
loaded beside the snapshot. `bumped` is a history variable: the revision each
change was bumped to. Redis servers are `Buses`; a message reaches whoever is
subscribed to the sender's server at that moment and waits in the receiver's
`inbox`. `Fail`, `Evict` and lost messages are counted in `faults`, `Restart` in
`restarts`.

### EdgeCache

A GET takes one step per access to shared state: load the snapshot (`Begin`),
read the generation, look for a stale backup, `Get` (with the window between
its read and its deletion of an expired entry), enter the single flight, wait
or lead, look again, read the generation again, fetch, store or fall back, and
answer, which releases the flight. The cache's own operations are atomic
where `clearMu` and `accountingMu` make them so; `Get` is the exception, and
`ClearMuFree` says what its read lock keeps out. An unsafe request changes the
resource or fails, in which case the origin may apply it later (`LateWrite`), and
purges before it is answered. A response is the version of the resource it
shows; an entry ages from fresh to stale (usable for stale-if-error) to dead.
`Evictions` is the set of victim sets `evictToMaxSizeLocked` may choose. The size of
the cache is the number of bytes in it: `Bytes` is the set of them, a key and a
place each. `floor` and `acked` are what clients know, `preClear` which fetches
began before a clear.

`ResponseContract` knows resources, GETs and answers. A resource changes at any
time; a GET asks, and is answered once with a version that lies, at that moment,
between the newest one a client knows of and the current one, or fails. The
mapping (`Contract`) is `current <- origin`, `known <- acked`; a GET has asked for
the path of its key once it has begun, and is answered when the handler has the
response in hand: at the end of a fetch, at a hit, at a stale replay. Only these
steps, `Begin`, the changes upstream and the answer to an unsafe request (an
`Acknowledge`) are steps of the contract; the rest is stuttering.

### Listeners

`entries` is the manager's map, `srv` the servers with their state, `pending`
the goroutines about to call `Spin`. A TCP server has its socket once it is
built, an HTTP/3 server when it spins. `main` is the main goroutine, `reload`
the position inside `reconcileListeners`: the removal pass with the
unlocked `Shutdown` of `Manager.Remove`, then the pass that builds, registers,
starts and waits, and undoes a start that failed or was late. The code handles
HTTP/3 and TCP names in separate loops; the model handles the names of a pass in
any order. Another process may take a bind at any time. `EarlyReload` says
whether a reload may begin before startup is over. Startup is over
(`StartupOver`) when `Start` has spawned its goroutines and those of the TCP
servers run; from then on a reload may begin at any time, also while the
goroutine of an HTTP/3 server that an earlier reload gave up on has still to
run. That the TCP goroutines of `Start` run before the first reload is a bound of
the runs without `EarlyReload`, not something the code enforces.

### PhaseCache

The two caches are records of a revision and a map, copied on every store
(`Added`). A request's steps are the loads of `getCompiledRules` and
`getOrBuildPhases` in their order; a chain records what was seen while it was
built. A reload publishes, reconfigures the limiter, sets the threshold and
replaces the scripts, with requests in between.

### Verdict

A phase or script decides anything the configuration allows; `Executed` is the
body of the loop of `pipeline.Run`, `PostVerdict` the override rules of
`applyPostLuaDecision`, `Enforce`, `Escalated` and `Answer` the handler. The
local counters are entries on a heap, because `recordHitLocal` adds to an entry
it loaded earlier and which may have been replaced; `Expire` ends a window,
`ResetLocal` and `ResetRedis` are `ResetIP`. A Redis call may fail before or
after it took effect. Escalation is taken to be enabled with one ladder; the
error rate limiter, which may answer before the engine is asked, is left out.

### FeedSync

`row` and `entries` are the two tables, `syncing` is the manager's set, `proc`
where the loop and each admin request are and which copy of a row they hold.
`Round` is `syncDueFeeds`, `Claim` to `SyncReload` are `syncFeedInternal` in its
order, `Leave` is its deferred function. `Save` is GORM's: all columns, and an
insert if the row is gone. Fetches, transactions and saves may fail, and a
transaction may be committed although its answer is an error. `Elapse` ends an
interval, `Restart` loses everything but the database. Nothing keeps a sync and
an admin request on the same feed apart; `crossed` remembers the feeds that were
written by one while another held a copy of the row. The handlers of the IP lists
write the table of entries too: `CreateIPEntry` takes the feed from the request,
`DeleteIPEntry` deletes by identifier, and `UpdateIPEntry` with `UpdateIPSave`
reads an entry and saves it, which inserts it if it is gone by then. `touched`
remembers the feeds whose entries were changed so since they were last replaced
as a whole. The loop does not start when `AutoMigrate` fails (`Start`), and
after `Stop` the `select` may still take a tick that is ready (`Round`).

## Runs

| Run | Instance | Result |
|---|---|---|
| `queue` | 1 asynchronous, 1 waiting, 1 priority job, 2 closers, channel of 1, batch of 2, with and without database | holds, 245 thousand states |
| `writer` | 2 security records, 1 bot record, channels of 1, batch 2, drain limit 1, 1 closer | holds, 427 thousand states |
| `reload` | 2 nodes, 2 changes on different nodes, 1 change of the Redis server, 2 tables, 1 fault, 1 restart | holds, 7.3 million states |
| `reload_sync` | the same without fault, restart and Redis change | holds, 7 thousand states |
| `reload_gaps` | 1 change, with the Redis change and the restart | `InSync` is violated |
| `edge` | 3 GETs, 1 unsafe request, 2 keys of 1 path, sizes 1 and 2 in a cache of size 2 | holds, 1.2 million states |
| `edge_reload` | 2 GETs, 1 unsafe request, 1 key, 1 reload | holds, 620 thousand states |
| `listeners` | 1 TCP and 1 HTTP/3 name, 2 changes of the configuration, 3 reloads, 4 servers at a time | holds, 1.3 million states |
| `listeners_startup` | the same with 1 reload that may run during startup | `Reconciled` is violated |
| `phases` | 3 requests, 2 sites, 1 reload, 3 kinds of settings, 2 thresholds | holds, 2.0 million states |
| `verdict` | 2 requests, 5 outcomes, 4 script decisions, 1 failing Redis call, 1 reload, 2 ends of a window or resets | holds, 7.1 million states |
| `feeds` | 1 feed, 2 settings, 1 entry, the loop and 1 admin request, 1 restart | holds, 1.5 million states |

Why the bounds are enough.

* `queue`: three jobs fill the channel and the batch and leave one over, so a
  full channel, the synchronous fallback, a second batch in the shutdown drain
  and a caller inside the gate occur together with `Close`; the second closer
  finds the gate already shut. The bounds are small enough for liveness and the
  refinement to be checked on the same instance.
* `writer`: two records of one kind overflow its channel and exceed the drain
  limit; a second kind lets one kind fail alone.
* `reload`: two nodes are needed for a bump to overtake a build, two tables for
  a torn read, one fault for each error path, one restart for the crash between
  commit and bump and for the startup path. The theorems about `ConfigReload`
  remove these bounds altogether.
* `edge`: a leader, a follower and a request that comes in between; one write,
  since what matters is a fetch, a purge and a store in some order; two keys so
  that a purge has to find both through the index and so that an eviction has a
  choice. `edge_reload` trades a GET and a key for a reload and liveness.
* `listeners`: one name of each kind, because names do not interact; a change
  that restarts both and one that removes one; three reloads so that the last
  one can repair what the first two left, or meet a goroutine of the first. What
  reloads during startup do is left to `listeners_startup`.
* `phases`: a request that built its chain before the reload, one that overlaps
  it and one that comes after; the second site makes a cache keep or drop
  entries of others.
* `verdict`: two hits are what it takes to lose one, to count one twice and to
  reach the second step of the ladder; each fault and each end of a window can
  fall between any two steps. Actions that the code treats alike are represented
  by one of them.
* `feeds`: nothing but the loop relates two feeds, and a feed waits in its round
  as it would behind another. An entry is its identifier, and one that nothing
  refers to stands for a new one; with one, what a sync puts there or takes away
  meets what an admin deletes, adds or brings back by hand. With two the safety
  properties hold as well, over 6.8 million states, but liveness takes too long.
  Two settings tell an edit from what it replaced. Admin requests that overlap one
  another, not only the loop, are left to the theorems, which hold for any number of
  them and of entries.

Deadlock is checked in `feeds`, whose system is never at rest. It is not in the
others: each of these systems may stop, after `Close`, after shutdown or
when no request is left.

What the properties say:

* Write queue. `CloseFlushesAll`: `Close` leaves nothing in the queue and nobody
  stranded. `AtMostOnce`: no closure runs twice. `LossAccounted`: at rest the
  counters balance. `CallsReturn`: callers and `Close` come back. `Implements`: success means committed, a refused write never happens,
  nothing happens after `Close` returned.
* Log writer. `LossVisible`: `flushed` never overstates the database, and once
  the writer has exited each record is in exactly one counter. `InsertedOnce`: no
  record is inserted twice. `StatementsAlive`: statements outlive the goroutine.
  `CountsFresh`: a cached count misses records reported as flushed only if an
  overlapping query stored it late. A commit of unknown outcome is reported as
  failed and invalidates nothing; rows it did leave are outside the property.
  `WriterExits`: the goroutine exits unless a transaction hangs.
* Reload. `SnapshotComplete`: a snapshot labelled `r` misses nothing bumped up to
  `r`. `AckLive`: an acknowledged change is live on its node and stays.
  `ScriptsHaveEngine`: no script without an executor. `IPListsLive`: the IP lists
  follow, short of a swallowed error. `InSync`: every node follows.
* Response cache. `CacheCoherent`: no entry is older than an acknowledged write.
  `Implements`: to a client the cache is a register per resource that a GET reads
  once, and no response shows a version the resource never had. It contains
  `ReadYourWrites`, which is proved but not checked again: no GET is answered with
  less than was acknowledged before it began, nor, from the cache, before the cache
  was read. `CacheBounded`: limits,
  counters and index are exact after every operation. `ClearedStaysCleared`: a
  fetch from before a clear does not fill the cache after it. `OldConfigDrains`:
  a request that still holds the old snapshot and fetches after the clear may
  store its response, but it does not stay. `RequestsAnswered`: nobody waits for
  ever in the single flight.
* Listeners. `Reconciled`: once startup and reload are over, what the snapshot
  wants is served from its current fingerprint and nothing else is. `NoOrphans`:
  every running server can still be stopped. Both hold when no reload begins
  during startup, and fail otherwise. `SpunOnce`, that `Spin` is called once per TCP
  server, is defined and checked by no run: only a reload during startup can break
  it, and does (see below).
* Rule engine. `ChainOwnSnapshot`: a request is judged by the rules and settings
  of its own snapshot. `QuietChainFresh`: a request that no reload overlaps gets
  exactly what the published configuration calls for.
* Verdicts. `VerdictComplete`: a challenge or a pass is the answer only when
  every phase had its say. `NotWeakened`: between pipeline and client a verdict
  only gets more severe, short of the exceptions the code names.
  `EscalationEarned`: no count exceeds the hits made.
* Feeds. `RowTellsEntries`: after a sync without an error the count a feed shows
  is the number of its entries, unless an edit or a deletion of the feed met a
  sync, or entries were edited by hand since they were last replaced: the handlers
  of the IP lists do not touch the feed's row, and the next sync that replaces the
  entries puts both right. `FeedsSynced`: a feed that is due is synced, unless the
  loop was stopped or never started. `AdminWritesLast`: a deletion and an edit
  last, unless they met a sync or another request on the same feed; entries that a
  deleted feed still gets come from the handlers of the IP lists, not from a sync.

### Disagreements with the documentation

`InSync` states what `core/redis/pubsub.go` says of `ConfigSync`, that nodes
keep in sync after changes in the admin API. It holds in `reload_sync` and fails
in two situations:

* A change of the Redis server: `UpdateRedisConfig` calls `ReloadRedis`, which moves its own
  node to the new server and tells nobody. The other nodes listen on the old
  server, and every later announcement goes to the new one, until the other node
  handles a change of its own.
* A restart: a starting node builds its snapshot first and subscribes
  much later, and does not reload in between. A change announced in that window
  is missed until the next one.

`reload_gaps` allows both; either alone, with `Switches` empty or `MaxRestarts` 0,
violates `InSync` too. In both the lagging node recovers with the next reload it
takes part in; the counterexamples are behaviours in which there is none.

`Reconciled` states what the comment of `reconcileListeners` says of it. It
holds in `listeners` and fails in `listeners_startup`: the threat intelligence
manager and the subscriber run before the main goroutine registers the listeners
of the snapshot it read earlier, so a reload may publish and reconcile first. The
old listeners are then registered over or beside the new ones, until the next
reload.

The same instance violates two more properties; putting `SpunOnce` or
`NoOrphans` in the place of `Reconciled` in `MCListenersStartup.cfg` shows how.

* `SpunOnce`: a reload has started a listener with `StartOne` when the main
  goroutine calls `Start`, which spins every registered server, this one too.
  `hertzServer.Spin` closes `done` when it returns, so the second of the two calls
  to return panics and ends the process.
* `NoOrphans`: the main goroutine registers its HTTP/3 server over the one a reload
  has started. The first one keeps its bind and no entry refers to it, so
  `Shutdown`, which by its comment stops all servers, does not reach it. A TCP
  server that is removed before its goroutine runs ends the same way, because
  `Remove` takes "engine is not running" for stopped.

`Reconciled` and `NoOrphans` are proved for reloads after startup.

Smaller observations, which no run is about:

* a sync of a feed does not look at its row again after a fetch of up to 30
  seconds: it replaces the entries and saves the row it read, where GORM inserts a
  row that is gone. An edit made meanwhile is undone, although the comment of
  `recordResult` speaks of time, count and error only, and a feed deleted meanwhile
  is back with its entries. `AdminWritesLast` without `crossed` fails in this way;
* a sync that fails sets the count of its feed to 0 although the old entries stay
  in force; a manual sync of a feed that is being synced reports success without
  waiting; disabling a feed leaves its entries, and a round under way still syncs
  it; an update saves the count and time it read, which a sync may have changed;
* `applySnapshotReload` reads `jsEngine` after it released `jsEngineMu`, while a
  dry run may be creating the engine;
* the cleaner of the response cache deletes expired entries that are still within
  the stale-if-error window, which `Get` is careful not to do;
* `Mark` is given a success for a cache hit and a failure for a follower whose
  client left, although neither says anything about the upstream;
* in `pipeline.Run` a redirect after a pending challenge is the verdict, although
  its priority is lower than the challenge's and the comment speaks of higher
  ones;
* `UpdateIPEntry` saves the entry it read before, and GORM inserts one that is
  gone: an entry that a sync replaced meanwhile, or that went with its feed, is
  back. `CreateIPEntry` takes `feed_id` from the request, for any number, although
  the comment of the field (`store/iplist/ip_list.go`) says that an entry with one
  comes from a feed. Neither changes the count of the feed, nor does
  `DeleteIPEntry`;
* two first hits that race in `recordHitLocal` are counted as one;
* `ResetIP` does not look at the error of its Redis call;
* an HTTP/3 listener that fails to bind at startup stays registered, and a reload
  keeps it because its fingerprint is right.

## Fairness

`WriteQueue` and `UnifiedWriter`: a goroutine that can run runs (weak fairness),
and Go's `select` picks at random among ready cases, so the stop case and the
ticker are not passed over for ever (strong fairness of `LoopStop`, and of
`LoopTick` in the write queue). The write queue assumes that transactions end,
because the code has no timeout there; the log writer assumes nothing of them,
because its `Close` is written for a transaction that hangs. Nobody is assumed
to call. `ConfigReload`: a reload under way goes on, the subscriber connects,
and Go's mutex hands `runtimeReloadMu` to a waiter eventually (strong fairness
of `Lock` and `LockSync`). `EdgeCache`: a request that began goes on, which
includes that upstream calls end, because the transports have timeouts; a
reload goes on to its clear; the clock and the cleaner's ticker advance. No
request is assumed to begin and no client to leave. Faults, restarts and late
writes carry no fairness. `FeedSync`: the ticker fires, the
client's timeout ends every fetch and the database answers; nothing makes the
loop start, and `FeedsSynced` does not ask for a sync when it did not. `Listeners`,
`PhaseCache` and `Verdict` state safety only and have none.

## Proofs

A run shows a property on one instance; the theorems show it for any values of
the constants that satisfy the named assumptions of the module: sets of any
size, and any bounds on faults, restarts and reloads. In every proof module the
argument has the same shape. The properties are not inductive, so `IInv` is a
conjunction of named parts that is; TLC checked it on the instance of the runs
before it was proved. `InitIInv` shows that it holds at first, step
lemmas that every action keeps it, `Inductive` is `Spec => []IInv`, and the
listed theorems follow from `IInv`. Where a property needs more than the others
do (the books of the log writer, the size and the contract of the response
cache), a second invariant is proved on top of `IInv` in the same way. What the
steps do to records and sequences is stated once, in lemmas named for their
effect (`...Effect`, `...Type`). The assumptions on constants are those a run evaluates; three were
added for the proofs, and say of a constant what is a matter of course in the code: `None` is no
cache entry (`NoneAssumption` of `EdgeCache`) and no row (`RowsAssumption` of
`FeedSync`), and the requests are finitely many (`RequestsAssumption` of
`Verdict`), so that they can be counted.

**`ConfigReloadProofs`**: `TypeOK`, `SnapshotComplete`, `AckLive`,
`ScriptsHaveEngine`, `IPListsLive`.

* `WrittenFirst`: a change is in every table before its reload starts, and is
  bumped only by that reload, to a revision the row has reached;
* `Labelled`: every snapshot, published, cached or in preparation, is no newer
  than the revision row and holds, in the tables already read, every change
  bumped up to its label. A bump by another node while a snapshot is prepared
  only concerns larger labels, and a table read later than the label was taken
  can only hold more. `LabelledBump`, the heart of the proof, says that a bump by one node
  does not invalidate what the others hold;
* `Answered`: a reload in preparation has a label at least as large as its own
  bump and as those already answered, and what is answered is published;
* `Scripts`: the published snapshot, and the one past the callback, have the
  executor their scripts need;
* `Lists`: from the step that loads the IP lists to the answer, the lists hold
  the change that is being reloaded. Unless a step failed, they were read after
  everything answered so far was committed.

**`WriteQueueProofs`**: `TypeOK`, `AtMostOnce`, `CloseFlushesAll`,
`LossAccounted`, and the refinement `Implements`.

* `OnePlace` and `NotYet`: a job is with its caller, once in the channel or once
  in the batch, and as long as it is waiting there its closure has neither run
  nor left an effect;
* `Told`: an answer given, or under way, is true, and a caller that waits is
  in the queue or has its reply;
* `Gate`: once the gate is shut nobody is between the check and the send, and the
  goroutine exits with channel and batch empty;
* `Counted`: each counter is the size of the set of calls it counts. It needs
  `Told`, which says that nobody is counted as finished and refused.

Under the mapping every step is an `Apply`, an `Answer`, the end, or a stutter of
`WriteContract`; after `Close` returned nothing but a stutter is left because of
`Gate`.

**`PhaseCacheProofs`**: `TypeOK`, `ChainOwnSnapshot`, `QuietChainFresh`.

* `OwnEntries` and `OwnChain`: what is in a cache under a revision was built from
  that revision, and so was what a request has in hand;
* `Settled`: between two reloads limiter and scripts are those of the snapshot,
  and the generation counts the reloads that are through;
* `FreshEntries` and `FreshBuilds`: scripts and limiter of a chain that carries the
  current generation were read after the last reload was through. This is where
  the order of the reads in `getOrBuildPhases` matters: the generation first;
* `StillSo`: what a quiet request has read is still so.

**`EdgeCacheProofs`**: `TypeOK`, `CacheCoherent`, `ReadYourWrites`,
`ClearedStaysCleared`, `CacheBounded`, and the refinement `Implements`.

* `UpToDate`: a response fetched under a generation that is still current has
  missed no acknowledged write, because a purge moves the generation before the
  write is answered. A conditional store therefore adds no old entry;
* `Fenced`: a fetch from before the last clear has an older generation;
* `Begun`, `Known`, `Owned`: a request knows its resource and what was acknowledged
  when it began, clients know only of versions that exist, and an entry is that of
  a request that has its answer;
* `Indexed` and `Measured`: index, count and size are those of the entries, and an
  eviction stops only within the limits. Sizes are cardinalities, so what a deletion
  takes off follows from facts about finite sets (`SizeRest`);
* `Unanswered` and `Existing`, for the refinement: a GET has no answer before the
  step that gives it one, and what an entry or a fetched response shows is a version
  that exists. With `CacheCoherent` this puts every answer between what is known
  and what is current (`AnswerRefines`).

**`ListenersProofs`**: `TypeOK`, `NoOrphans` and `Reconciled`, each under the
hypothesis `~EarlyReload`: no reload begins before startup is over, as
`StartupOver` says. The code does not enforce that, and in the instance of
`listeners_startup` `Reconciled` and `NoOrphans` are violated without it (see
above); the theorems say that this window is the only way. `SpunOnce` is not
among them: under that hypothesis `Start` and `StartOne` never meet, and it would
say nothing.

* `Startup`: until the main goroutine spins the servers nothing runs or reloads;
* `Phases`: which server a reload holds in each phase, and that no goroutine is
  about to spin a TCP server while it removes, for `Shutdown` would not stop it. One
  that is about to spin an HTTP/3 server finds it stopped;
* `Spins` and `Supervised`: a server that runs was spun, and one that runs or is
  about to is registered or held by the reload;
* `Served` and `Progress`: what is registered serves or will, and what each pass
  has gone over is as the snapshot wants it. Together they are `Reconciled` when
  both passes are over.

**`VerdictProofs`**: `TypeOK`, `VerdictComplete`, `NotWeakened`,
`EscalationEarned`.

* `Judging`: while the pipeline runs, its only terminal outcome so far is a pending
  challenge, and it ends with another one or when no phase is left;
* `Enforcing`: on the way from the pipeline to the client a verdict is at
  least as severe as the pipeline's, or a waived one;
* `Counts` and `Counting`: the Redis counter is at most the number of requests that
  were stopped, a local entry at most the number of those that are past their
  local step, and what a request has read of them no more than either. Lost updates only
  make them smaller.

**`UnifiedWriterProofs`**: `TypeOK`, `InsertedOnce`, `StatementsAlive`,
`CountsFresh`, `LossVisible`.

* `Placed`: a record is in one channel, one buffer, or neither, and is inserted only by
  the transaction of its flush, after which it leaves the buffer;
* `Reported`: what a flush is about to report as flushed is in the database and not yet
  counted;
* `StaleInFlush`: a count that no late query stored is stale only between a commit and the
  invalidation that follows it;
* `Balanced`: the calls that are over are as many as the counters, the channels and
  the buffers hold together. It needs `Judged` (a flush has a verdict on every
  kind before it counts), and it becomes `LossVisible` when channels and buffers are
  empty, for which `Gate` (nobody sends once the last drain has begun) and `Drained`
  (a drain that brought nothing has seen every channel empty) are there. `Total`, the
  sum of the drop counters, is the cardinality of a set of pairs, a pair for each
  time one counted; `TotalAdd` says what adding to one of them does to it.

**`FeedSyncProofs`**: `TypeOK`, `RowTellsEntries`, `AdminWritesLast`.

* `Claimed`: the feeds in the syncing set are those of the goroutines inside
  `syncFeedInternal`, one each;
* `Copies`: the row a goroutine holds agrees with the table, in what that goroutine
  does not change, unless two met on the feed;
* `Told`: only between the replacement of the entries and the save of the row does
  the row not tell them, as long as nobody has edited them by hand since
  (`HandKeeps`);
* `Unborn`: a feed that was not created has neither a row nor entries but those added by hand.

Here there is one lemma per action (`...Keeps`), with a step per part of `IInv`,
because one fact about the copy of a row serves most parts.

Only model-checked: all liveness properties (`CallsReturn`, `WriterExits`,
`InSync`, `RequestsAnswered`, `OldConfigDrains`, `FeedsSynced`), which rest on
fairness and so on `ENABLED`, out of the prover's reach. Every safety property a
passing run checks is also a theorem. Sums over sets are written as cardinalities
(`EdgeCache!SizeIn`, `UnifiedWriter!Total`) and not as folds, because what a fold
yields for every set is an induction over data, which the prover's backends
cannot do.

## Not modelled

Most of the repository's lines are data: signature and pattern tables of the
attack detectors, parsers, encoders, page templates, CRUD handlers, network
configuration and protocol plumbing. They hold no state that two actors share,
or their outcome is a function of text that a model checker cannot enumerate;
where a modelled component calls them, the model keeps the set of their outcomes.
That is why the map covers a small share of all lines although it covers the
code that is concurrent or fails half-way.

The attack detectors are pure matching over request text. Lua and QuickJS,
GORM, ristretto, Redis and the HTTP stack are third-party and appear only as
what the code may observe of them. The admin frontend, page templates, the WASM
solver and the logger have no state that matters here. The upstream pool
overwrites one health record per upstream under a mutex; whatever could be said
of it restates that assignment. Anti-replay spends a nonce in one Redis script or
one critical section. Admin sessions, challenge sessions, rate limit windows and
automatic bans have state worth a module each and have none yet. Restoring a
backup (`store/backup.go`) replaces whole tables, those of the feeds and IP lists
among them, and is no action of any module.

Within the modelled parts: telemetry of the last batch, log throttling, record
contents, what a snapshot's rows compile to, the pruning of transports on a
reload, the draining of connections on shutdown, the rewriting of requests and
responses by scripts, the access order of cache entries (an eviction may choose
any), the error rate limiter in front of the engine.

## Plan

Done: all modules of the table, and a proof module for each component model.

What could follow:

1. Modules for the parts with state of their own that have none yet: admin
   sessions, challenge sessions, rate limit windows, automatic bans.
2. An abstract specification of `ConfigReload`, a configuration per node that only
   moves forward and includes what the node acknowledged, with `ConfigReload`
   refining it.
