------------------------------- MODULE EdgeCache -------------------------------
(***************************************************************************)
(* The response cache of internal/cache/response_cache.go and the requests *)
(* that use it: the cached branch and the unsafe-method purge of           *)
(* internal/dataplane/handler.go, and the reload of internal/app/server.go *)
(* that publishes a configuration and then clears the cache.               *)
(*                                                                         *)
(* A GET walks through the handler one shared access at a time: it loads   *)
(* the snapshot, reads the generation, looks for a stale backup, calls     *)
(* Get, enters the single flight of its key, reads the generation again,   *)
(* fetches, and stores.  An unsafe request changes the resource upstream   *)
(* and purges every cached variant of its path before it is answered.      *)
(*                                                                         *)
(* A response is abstracted to the version of the resource it shows.  A    *)
(* request stores at most one entry, so the request names the entry; the   *)
(* version and the configuration of an entry are those of that request.    *)
(* An entry is fresh, then stale (expired, inside the stale-if-error       *)
(* window), then dead.  The access order of the entries is left open: the  *)
(* last pass of an eviction removes any of them.  Requests that bypass the *)
(* cache only read upstream and are left out; SetEnabled has no caller.    *)
(***************************************************************************)
EXTENDS Integers, FiniteSets, FiniteSetsExt

CONSTANTS
    Gets,        \* GET requests eligible for the cache
    Writes,      \* requests with an unsafe method
    Keys,        \* cache keys
    Paths,       \* request paths
    PathOf,      \* the path of a key (several query variants share one)
    Sizes,       \* sizes an entry may have
    MaxSize,     \* maxSize
    MaxEntries,  \* maxEntries
    Reloads,     \* bound: how many configurations are published after the first
    None         \* no entry, no request

Requests == Gets \cup Writes

\* setIfGenerationLocked refuses an entry larger than a tenth of maxSize.
ASSUME SizesAssumption ==
    /\ MaxSize \in Nat /\ MaxEntries \in Nat \ {0}
    /\ Sizes \subseteq 1..MaxSize
ASSUME PathOfAssumption == PathOf \in [Keys -> Paths]
ASSUME RequestsAssumption ==
    /\ IsFiniteSet(Gets) /\ IsFiniteSet(Writes) /\ IsFiniteSet(Keys)
    /\ Gets \cap Writes = {} /\ None \notin Requests
ASSUME ReloadsAssumption == Reloads \in Nat

VARIABLES
    items,       \* the entries of the shards, by key
    index,       \* the keys listed in targetIndex
    curSize,     \* curSize
    entryCount,  \* entryCount
    generation,  \* generation
    fills,       \* fills: the leader of each key's single flight
    phase,       \* where each request is
    key,         \* the key of a GET
    path,        \* the path of an unsafe request
    cfg,         \* the configuration a request loaded
    staleGen,    \* staleGeneration of a GET
    fillGen,     \* the generation a GET read last, cacheGeneration when it fetches
    backup,      \* staleEntry: the expired entry a GET means to fall back on
    seen,        \* the entry Get read, or the leader a follower waits for
    reply,       \* the response a request has got
    origin,      \* upstream: the current version of the resource at each path
    acked,       \* the newest version a client knows to be written
    floor,       \* history: the oldest version a GET may still be given
    late,        \* writes given up by the proxy that upstream may still apply
    published,   \* the configuration of the published snapshot
    clearing,    \* the reload has published and not yet cleared the cache
    preClear     \* history: fetches that began before the last Clear

store == <<items, index, curSize, entryCount>>
local == <<key, path, cfg, staleGen, fillGen, backup, seen>>
resource == <<origin, acked, late>>
reload == <<published, clearing>>
vars == <<store, generation, fills, phase, local, reply, floor, resource, reload,
          preClear>>

GetPhases == {"idle", "picked", "stale", "get", "expired", "fill", "waiting",
              "recheck", "gen", "fetch", "failed", "fetched", "respond", "done"}
WritePhases == {"idle", "picked", "purge", "done"}
Ages == {"fresh", "stale", "dead"}
NoReply == [src |-> "none", ver |-> 0]
Replies == [src : {"none", "hit", "stale", "fetched", "error"}, ver : Nat]

ASSUME NoneAssumption == None \notin [by : Gets, age : Ages, size : Sizes]

TypeOK ==
    /\ items \in [Keys -> [by : Gets, age : Ages, size : Sizes] \cup {None}]
    /\ index \subseteq Keys
    /\ curSize \in Nat /\ entryCount \in Nat /\ generation \in Nat
    /\ fills \in [Keys -> Gets \cup {None}]
    /\ phase \in [Requests -> GetPhases \cup WritePhases]
    /\ key \in [Gets -> Keys \cup {None}] /\ path \in [Writes -> Paths \cup {None}]
    /\ cfg \in [Requests -> Nat]
    /\ staleGen \in [Gets -> Nat] /\ fillGen \in [Gets -> Nat]
    /\ backup \in [Gets -> Gets \cup {None}] /\ seen \in [Gets -> Gets \cup {None}]
    /\ reply \in [Requests -> Replies]
    /\ origin \in [Paths -> Nat] /\ acked \in [Paths -> Nat]
    /\ floor \in [Gets -> Nat] /\ late \subseteq Writes
    /\ published \in Nat /\ clearing \in BOOLEAN /\ preClear \subseteq Gets

Present == {k \in Keys : items[k] # None}
Holds(k, age) == items[k] # None /\ items[k].age = age
EntryVersion(e) == reply[e.by].ver
EntryConfig(e) == cfg[e.by]

\* The bytes of the entries of it under the keys K, each named by its key and its
\* place, and what the entries weigh together.
Bytes(it, K) == {b \in K \X (1..MaxSize) : b[2] <= it[b[1]].size}
SizeIn(it, K) == Cardinality(Bytes(it, K))

Goto(r, p) == phase' = [phase EXCEPT ![r] = p]
Reply(r, src, v) == reply' = [reply EXCEPT ![r] = [src |-> src, ver |-> v]]

\* r is served the entry of its key: from now on nothing older than what clients
\* know at this moment will do.
Serve(r, src) ==
    /\ Reply(r, src, EntryVersion(items[key[r]]))
    /\ floor' = [floor EXCEPT ![r] = acked[PathOf[key[r]]]]
    /\ Goto(r, "respond")

\* Deleting entries keeps the counters and the target index in step.
Delete(K) ==
    /\ items' = [k \in Keys |-> IF k \in K THEN None ELSE items[k]]
    /\ index' = index \ K
    /\ curSize' = curSize - SizeIn(items, K)
    /\ entryCount' = entryCount - Cardinality(K)

\* Get keeps the read side of clearMu from its lookup to its deletion.
ClearMuFree == \A r \in Gets : phase[r] # "expired"

-----------------------------------------------------------------------------
(* The cached branch of the handler                                          *)

\* A request loads the snapshot it will use to the end.
Begin(r) ==
    /\ phase[r] = "idle"
    /\ Goto(r, "picked")
    /\ cfg' = [cfg EXCEPT ![r] = published]
    /\ \/ /\ r \in Gets
          /\ \E k \in Keys :
                /\ key' = [key EXCEPT ![r] = k]
                /\ floor' = [floor EXCEPT ![r] = acked[PathOf[k]]]
          /\ UNCHANGED path
       \/ /\ r \in Writes
          /\ \E p \in Paths : path' = [path EXCEPT ![r] = p]
          /\ UNCHANGED <<key, floor>>
    /\ UNCHANGED <<store, generation, fills, staleGen, fillGen, backup, seen, reply,
                   resource, reload, preClear>>

ReadStaleGeneration(r) ==
    /\ phase[r] = "picked"
    /\ staleGen' = [staleGen EXCEPT ![r] = generation]
    /\ Goto(r, "stale")
    /\ UNCHANGED <<store, generation, fills, key, path, cfg, fillGen, backup, seen,
                   reply, floor, resource, reload, preClear>>

LookupStaleIfGeneration(r) == generation = staleGen[r] /\ Holds(key[r], "stale")

\* Get is skipped when a stale backup exists: it would delete it.
LookupStale(r) ==
    /\ phase[r] = "stale"
    /\ IF LookupStaleIfGeneration(r)
       THEN backup' = [backup EXCEPT ![r] = items[key[r]].by] /\ Goto(r, "fill")
       ELSE Goto(r, "get") /\ UNCHANGED backup
    /\ UNCHANGED <<store, generation, fills, key, path, cfg, staleGen, fillGen, seen,
                   reply, floor, resource, reload, preClear>>

GetMiss(r) ==
    /\ phase[r] = "get"
    /\ items[key[r]] = None
    /\ Goto(r, "fill")
    /\ UNCHANGED <<store, generation, fills, local, reply, floor, resource, reload,
                   preClear>>

GetHit(r) ==
    /\ phase[r] = "get"
    /\ Holds(key[r], "fresh")
    /\ Serve(r, "hit")
    /\ UNCHANGED <<store, generation, fills, local, resource, reload, preClear>>

\* An expired entry is deleted under other locks than it was read under.
GetExpired(r) ==
    /\ phase[r] = "get"
    /\ items[key[r]] # None /\ ~Holds(key[r], "fresh")
    /\ seen' = [seen EXCEPT ![r] = items[key[r]].by]
    /\ Goto(r, "expired")
    /\ UNCHANGED <<store, generation, fills, key, path, cfg, staleGen, fillGen, backup,
                   reply, floor, resource, reload, preClear>>

\* Mutant: the entry is counted out whether or not it is still there.
GetDeleteCounted(r) ==
    /\ phase[r] = "expired"
    /\ LET gone == {k \in {key[r]} \cap Present : items[k].by = seen[r]} IN
          /\ items' = [k \in Keys |-> IF k \in gone THEN None ELSE items[k]]
          /\ index' = index \ gone
          /\ curSize' = curSize - SizeIn(items, gone)
          /\ entryCount' = entryCount - 1
    /\ seen' = [seen EXCEPT ![r] = None]
    /\ Goto(r, "fill")
    /\ UNCHANGED <<generation, fills, key, path, cfg, staleGen, fillGen, backup, reply,
                   floor, resource, reload, preClear>>

GetDelete(r) ==
    /\ phase[r] = "expired"
    /\ Delete({k \in {key[r]} \cap Present : items[k].by = seen[r]})
    /\ seen' = [seen EXCEPT ![r] = None]
    /\ Goto(r, "fill")
    /\ UNCHANGED <<generation, fills, key, path, cfg, staleGen, fillGen, backup, reply,
                   floor, resource, reload, preClear>>

\* BeginFill elects a leader per key; everyone else waits for that leader.
BeginFill(r) ==
    /\ phase[r] = "fill"
    /\ IF fills[key[r]] = None
       THEN /\ fills' = [fills EXCEPT ![key[r]] = r]
            /\ Goto(r, "gen")
            /\ UNCHANGED seen
       ELSE /\ seen' = [seen EXCEPT ![r] = fills[key[r]]]
            /\ Goto(r, "waiting")
            /\ UNCHANGED fills
    /\ UNCHANGED <<store, generation, key, path, cfg, staleGen, fillGen, backup, reply,
                   floor, resource, reload, preClear>>

\* The leader has returned; the follower reads the generation for its second look.
FillDone(r) ==
    /\ phase[r] = "waiting"
    /\ fills[key[r]] # seen[r]
    /\ seen' = [seen EXCEPT ![r] = None]
    /\ fillGen' = [fillGen EXCEPT ![r] = generation]
    /\ Goto(r, "recheck")
    /\ UNCHANGED <<store, generation, fills, key, path, cfg, staleGen, backup,
                   reply, floor, resource, reload, preClear>>

\* The client has gone while its request was waiting.
FillCancelled(r) ==
    /\ phase[r] = "waiting"
    /\ seen' = [seen EXCEPT ![r] = None]
    /\ Reply(r, "error", 0)
    /\ Goto(r, "respond")
    /\ UNCHANGED <<store, generation, fills, key, path, cfg, staleGen, fillGen, backup,
                   floor, resource, reload, preClear>>

\* LookupFreshIfGeneration.
Recheck(r) ==
    /\ phase[r] = "recheck"
    /\ IF generation = fillGen[r] /\ Holds(key[r], "fresh")
       THEN Serve(r, "hit")
       ELSE Goto(r, "gen") /\ UNCHANGED <<reply, floor>>
    /\ UNCHANGED <<store, generation, fills, local, resource, reload, preClear>>

ReadFillGeneration(r) ==
    /\ phase[r] = "gen"
    /\ fillGen' = [fillGen EXCEPT ![r] = generation]
    /\ Goto(r, "fetch")
    /\ UNCHANGED <<store, generation, fills, key, path, cfg, staleGen, backup, seen,
                   reply, floor, resource, reload, preClear>>

FetchOK(r) ==
    /\ phase[r] = "fetch"
    /\ Reply(r, "fetched", origin[PathOf[key[r]]])
    /\ Goto(r, "fetched")
    /\ UNCHANGED <<store, generation, fills, local, floor, resource, reload, preClear>>

FetchError(r) ==
    /\ phase[r] = "fetch"
    /\ Goto(r, "failed")
    /\ UNCHANGED <<store, generation, fills, local, reply, floor, resource, reload,
                   preClear>>

\* Mutant: the entry found before the fetch is replayed as it is.
FallbackCaptured(r) ==
    /\ phase[r] = "failed"
    /\ IF backup[r] # None
       THEN /\ Reply(r, "stale", reply[backup[r]].ver)
            /\ floor' = [floor EXCEPT ![r] = acked[PathOf[key[r]]]]
       ELSE Reply(r, "error", 0) /\ UNCHANGED floor
    /\ Goto(r, "respond")
    /\ UNCHANGED <<store, generation, fills, local, resource, reload, preClear>>

\* stale-if-error: the backup is looked up anew, under the first generation.
Fallback(r) ==
    /\ phase[r] = "failed"
    /\ IF LookupStaleIfGeneration(r)
       THEN Serve(r, "stale")
       ELSE Reply(r, "error", 0) /\ Goto(r, "respond") /\ UNCHANGED floor
    /\ UNCHANGED <<store, generation, fills, local, resource, reload, preClear>>

\* ShouldCacheHTTPResponse, EffectiveCacheTTL, HasRemainingBody: the response is
\* not one the cache takes.
ForwardUncached(r) ==
    /\ phase[r] = "fetched"
    /\ Goto(r, "respond")
    /\ UNCHANGED <<store, generation, fills, local, reply, floor, resource, reload,
                   preClear>>

\* Mutant: nothing is ever evicted.
EvictionsNone(it, size, count) == {{}}

\* The entries evictToMaxSizeLocked may remove from it, when the counters say size
\* and count: expired ones first, shard by shard, until the limits are met; if that
\* does not do, others one by one until it does.
Evictions(it, size, count) ==
    LET Over(V) == size - SizeIn(it, V) > MaxSize \/ count - Cardinality(V) > MaxEntries
        All == {k \in Keys : it[k] # None}
        Old == {k \in All : it[k].age # "fresh"}
    IN IF ~Over({}) THEN {{}}
       ELSE {V \in SUBSET Old : ~Over(V)}
            \cup {V \in SUBSET All :
                     /\ Old \subseteq V /\ Over(Old)
                     /\ \/ V = All
                        \/ ~Over(V) /\ \E k \in V \ Old : Over(V \ {k})}

Insert(r, s) ==
    LET k == key[r]
        it == [items EXCEPT ![k] = [by |-> r, age |-> "fresh", size |-> s]]
        size == curSize + s - SizeIn(items, {k} \cap Present)
        count == entryCount + (IF k \in Present THEN 0 ELSE 1)
    IN \E V \in Evictions(it, size, count) :
          /\ items' = [x \in Keys |-> IF x \in V THEN None ELSE it[x]]
          /\ index' = (index \cup {k}) \ V
          /\ curSize' = size - SizeIn(it, V)
          /\ entryCount' = count - Cardinality(V)

\* SetForSiteIfGeneration.
Store(r) ==
    /\ phase[r] = "fetched"
    /\ IF generation = fillGen[r]
       THEN \E s \in Sizes : Insert(r, s)
       ELSE UNCHANGED store
    /\ Goto(r, "respond")
    /\ UNCHANGED <<generation, fills, local, reply, floor, resource, reload, preClear>>

\* Mutant: a leader whose request failed leaves its fill in the table.
RespondNoRelease(r) ==
    /\ phase[r] = "respond"
    /\ fills' = [k \in Keys |-> IF fills[k] = r /\ reply[r].src # "error"
                                THEN None ELSE fills[k]]
    /\ Goto(r, "done")
    /\ UNCHANGED <<store, generation, local, reply, floor, resource, reload, preClear>>

\* The handler returns; a leader's deferred release wakes its followers.
Respond(r) ==
    /\ phase[r] = "respond"
    /\ fills' = [k \in Keys |-> IF fills[k] = r THEN None ELSE fills[k]]
    /\ Goto(r, "done")
    /\ UNCHANGED <<store, generation, local, reply, floor, resource, reload, preClear>>

-----------------------------------------------------------------------------
(* Unsafe requests                                                           *)

WriteOK(w) ==
    /\ phase[w] = "picked" /\ w \in Writes
    /\ origin' = [origin EXCEPT ![path[w]] = @ + 1]
    /\ Reply(w, "fetched", origin'[path[w]])
    /\ Goto(w, "purge")
    /\ UNCHANGED <<store, generation, fills, local, floor, acked, late, reload, preClear>>

\* A timeout or a broken connection: upstream may have the request all the same.
WriteError(w) ==
    /\ phase[w] = "picked" /\ w \in Writes
    /\ Reply(w, "error", 0)
    /\ late' = late \cup {w}
    /\ Goto(w, "purge")
    /\ UNCHANGED <<store, generation, fills, local, floor, origin, acked, reload, preClear>>

LateWrite(w) ==
    /\ w \in late
    /\ late' = late \ {w}
    /\ origin' = [origin EXCEPT ![path[w]] = @ + 1]
    /\ UNCHANGED <<store, generation, fills, phase, local, reply, floor, acked, reload,
                   preClear>>

Answer(w) ==
    acked' = [acked EXCEPT ![path[w]] =
                 IF reply[w].src = "fetched" THEN Max({@, reply[w].ver}) ELSE @]

\* Mutant: fetches under way are not told of the purge.
PurgeSameGeneration(w) ==
    /\ phase[w] = "purge"
    /\ ClearMuFree
    /\ Delete({k \in index \cap Present : PathOf[k] = path[w]})
    /\ Answer(w)
    /\ Goto(w, "done")
    /\ UNCHANGED <<generation, fills, local, reply, floor, origin, late, reload, preClear>>

\* PurgeSiteTarget finds the entries through the index; the answer follows.
Purge(w) ==
    /\ phase[w] = "purge"
    /\ ClearMuFree
    /\ generation' = generation + 1
    /\ Delete({k \in index \cap Present : PathOf[k] = path[w]})
    /\ Answer(w)
    /\ Goto(w, "done")
    /\ UNCHANGED <<fills, local, reply, floor, origin, late, reload, preClear>>

-----------------------------------------------------------------------------
(* Reload, clock and cleaner                                                 *)

\* Reloads run one at a time.
Publish ==
    /\ ~clearing /\ published < Reloads
    /\ published' = published + 1
    /\ clearing' = TRUE
    /\ UNCHANGED <<store, generation, fills, phase, local, reply, floor, resource,
                   preClear>>

\* The fetches of these requests began before this moment.
Fetching == {r \in Gets : phase[r] \in {"fetch", "failed", "fetched", "respond", "done"}}

\* Mutant: Clear leaves the generation alone.
ClearSameGeneration ==
    /\ clearing /\ ClearMuFree
    /\ clearing' = FALSE
    /\ items' = [k \in Keys |-> None] /\ index' = {}
    /\ curSize' = 0 /\ entryCount' = 0
    /\ preClear' = Fetching
    /\ UNCHANGED <<generation, fills, phase, local, reply, floor, resource, published>>

Clear ==
    /\ clearing /\ ClearMuFree
    /\ clearing' = FALSE
    /\ generation' = generation + 1
    /\ items' = [k \in Keys |-> None] /\ index' = {}
    /\ curSize' = 0 /\ entryCount' = 0
    /\ preClear' = Fetching
    /\ UNCHANGED <<fills, phase, local, reply, floor, resource, published>>

\* Time passes: an entry expires, or leaves the stale-if-error window.
Tick(k) ==
    /\ k \in Present
    /\ \E a \in Ages :
          /\ <<items[k].age, a>> \in {<<"fresh", "stale">>, <<"fresh", "dead">>,
                                      <<"stale", "dead">>}
          /\ items' = [items EXCEPT ![k].age = a]
    /\ UNCHANGED <<index, curSize, entryCount, generation, fills, phase, local, reply,
                   floor, resource, reload, preClear>>

\* Mutant: the cleaner passes over what Get has not asked for.
CleanNothing ==
    /\ {k \in Present : ~Holds(k, "fresh")} # {}
    /\ UNCHANGED vars

\* cleanExpiredEntries, when there is something to clean.
CleanExpired ==
    /\ {k \in Present : ~Holds(k, "fresh")} # {}
    /\ Delete({k \in Present : ~Holds(k, "fresh")})
    /\ UNCHANGED <<generation, fills, phase, local, reply, floor, resource, reload,
                   preClear>>

-----------------------------------------------------------------------------
Init ==
    /\ items = [k \in Keys |-> None] /\ index = {}
    /\ curSize = 0 /\ entryCount = 0 /\ generation = 0
    /\ fills = [k \in Keys |-> None]
    /\ phase = [r \in Requests |-> "idle"]
    /\ key = [r \in Gets |-> None] /\ path = [w \in Writes |-> None]
    /\ cfg = [r \in Requests |-> 0]
    /\ staleGen = [r \in Gets |-> 0] /\ fillGen = [r \in Gets |-> 0]
    /\ backup = [r \in Gets |-> None] /\ seen = [r \in Gets |-> None]
    /\ reply = [r \in Requests |-> NoReply]
    /\ origin = [p \in Paths |-> 0] /\ acked = [p \in Paths |-> 0]
    /\ floor = [r \in Gets |-> 0] /\ late = {}
    /\ published = 0 /\ clearing = FALSE /\ preClear = {}

\* The steps a GET takes by itself, and those that depend on its client or origin.
GetStep(r) ==
    \/ ReadStaleGeneration(r) \/ LookupStale(r)
    \/ GetMiss(r) \/ GetHit(r) \/ GetExpired(r) \/ GetDelete(r)
    \/ BeginFill(r) \/ FillDone(r) \/ Recheck(r) \/ ReadFillGeneration(r)
    \/ FetchOK(r) \/ FetchError(r) \/ Fallback(r)
    \/ ForwardUncached(r) \/ Store(r) \/ Respond(r)

WriteStep(w) == WriteOK(w) \/ WriteError(w) \/ Purge(w)

Next ==
    \/ \E r \in Requests : Begin(r)
    \/ \E r \in Gets : GetStep(r) \/ FillCancelled(r)
    \/ \E w \in Writes : WriteStep(w) \/ LateWrite(w)
    \/ Publish \/ Clear \/ CleanExpired
    \/ \E k \in Keys : Tick(k)

\* Goroutines run, upstream calls end (they have timeouts), the clock and the
\* cleaner's ticker advance.
Fairness ==
    /\ \A r \in Gets : WF_vars(GetStep(r))
    /\ \A w \in Writes : WF_vars(WriteStep(w))
    /\ WF_vars(Clear) /\ WF_vars(CleanExpired)
    /\ \A k \in Keys : WF_vars(Tick(k))

Spec == Init /\ [][Next]_vars /\ Fairness

-----------------------------------------------------------------------------
\* No cached response is older than a write its client has been told of: neither
\* a fetch under way nor an entry missing from the index escapes the purge.
CacheCoherent ==
    \A k \in Present : EntryVersion(items[k]) >= acked[PathOf[k]]

\* A GET is answered with nothing older than the writes acknowledged before it
\* began and, when the cache answers it, before the cache was read; this includes
\* a stale-if-error replay that follows a long wait and a failed fetch.
ReadYourWrites ==
    \A r \in Gets : reply[r].src \in {"hit", "stale", "fetched"} => reply[r].ver >= floor[r]

\* The comment of SetIfGeneration: a fetch that started before Clear does not fill
\* the cache again once it is cleared.
ClearedStaysCleared == \A k \in Present : items[k].by \notin preClear

\* After every operation the cache is within its limits, and the counters and the
\* target index by which it knows that, and by which a purge finds its entries,
\* describe the entries exactly: no race of a lookup, a store, a purge and the
\* cleaner counts an entry twice.
CacheBounded ==
    /\ index = Present
    /\ entryCount = Cardinality(Present) /\ entryCount <= MaxEntries
    /\ curSize = SizeIn(items, Present) /\ curSize <= MaxSize

\* Every request that began is answered: a follower is not left waiting for a
\* leader that failed, whose client left or whose fill the cache refused.
RequestsAnswered == <>[](\A r \in Requests : phase[r] \in {"idle", "done"})

\* A request that loaded the old snapshot and fetched after the reload cleared the
\* cache leaves an entry of the old configuration there; it does not stay.
OldConfigDrains == <>[](\A k \in Present : EntryConfig(items[k]) = published)

\* What its client sees of a GET; a response is fixed once the handler holds it.
Outcome(r) ==
    IF phase[r] = "idle" THEN "idle"
    ELSE CASE reply[r].src = "none" -> "waiting"
           [] reply[r].src = "error" -> "failed"
           [] OTHER -> "answered"

Contract == INSTANCE ResponseContract WITH
                current <- origin,
                known <- acked,
                asked <- [r \in Gets |-> IF phase[r] = "idle" THEN None ELSE PathOf[key[r]]],
                outcome <- [r \in Gets |-> Outcome(r)],
                version <- [r \in Gets |-> reply[r].ver]

\* The cache keeps the contract of its clients (ResponseContract): fresh from the
\* cache, from the origin or replayed after a failed fetch, a response is one the
\* resource gave and was, at some moment of the request, no older than what was
\* known; no request is answered twice, and an acknowledgement is true and lasts.
Implements == Contract!Spec
=============================================================================
