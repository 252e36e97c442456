----------------------------- MODULE ConfigReload -----------------------------
(***************************************************************************)
(* How a configuration change reaches the data plane of every node.        *)
(*                                                                         *)
(* An admin handler commits its change and then calls reloadRuntime(true)  *)
(* (app/server.go): under runtimeReloadMu the node bumps the revision row, *)
(* rebuilds the snapshot and publishes it to the Holder                    *)
(* (Runtime.ReloadSnapshotWithPrePublish), re-applies what derives from    *)
(* it, follows a change of the Redis settings and announces the reload on  *)
(* the Redis channel.  The other nodes' subscribers (core/redis/pubsub.go) *)
(* call reloadRuntime(false).                                              *)
(*                                                                         *)
(* A change is one member of Edits; it writes a row of every table of      *)
(* Tables, so that a snapshot is the set of changes it saw in each table.  *)
(* Build reads the tables one by one, outside any transaction.  Redis is a *)
(* set of servers (buses) that forward a message to whoever is subscribed. *)
(* reloadMu, which is only taken inside runtimeReloadMu, is left out, and  *)
(* so are the Lua scripts, the protection settings, the listeners and the  *)
(* transports that a reload re-applies, and the response cache it clears.  *)
(***************************************************************************)
EXTENDS Integers, FiniteSets

CONSTANTS
    Nodes,
    Edits,        \* admin requests that change the configuration
    Switches,     \* admin requests that change the Redis settings
    Home,         \* the node each request is made on
    Tables,       \* the tables Build reads
    ScriptTable,  \* the one that holds the JavaScript plugins
    Buses,        \* Redis servers
    Target,       \* the server a request of Switches selects
    Off,          \* no Redis
    FirstBus,     \* the server configured at first
    MaxFaults,    \* bound on failing steps and lost messages
    MaxRestarts   \* bound on restarts

Reqs == Edits \cup Switches

ASSUME NamesAssumption ==
    /\ Reqs \cap {"none", "sync", "start"} = {}
    /\ Edits \cap Switches = {}
    /\ Home \in [Reqs -> Nodes]
    /\ ScriptTable \in Tables
    /\ Target \in [Switches -> Buses \cup {Off}]
    /\ Off \notin Buses
    /\ FirstBus \in Buses \cup {Off}
ASSUME BoundsAssumption == MaxFaults \in Nat /\ MaxRestarts \in Nat

VARIABLES
    rev,         \* the revision row
    db,          \* the changes committed to each table
    redisCfg,    \* the Redis server in the settings table
    bumped,      \* the revision the reload of each change wrote, 0 before
    req,         \* the state of each admin request
    step,        \* where the reload that holds runtimeReloadMu is
    owner,       \* what called it
    building,    \* the snapshot it is preparing
    todo,        \* the tables Build has yet to read
    holder,      \* the published snapshot
    cache,       \* the snapshots of the in-process cache
    js,          \* whether the WAF engine has a JavaScript executor
    ipRep,       \* the changes the global IP lists in memory reflect
    bus,         \* the Redis server the node is connected to
    subscribed,  \* the server its subscriber listens on
    inbox,       \* messages its subscriber has not handled
    faults, restarts

dbVars == <<rev, db, redisCfg, bumped>>
reloadVars == <<step, owner, building, todo>>
nodeVars == <<holder, cache, js, ipRep>>
busVars == <<bus, subscribed, inbox>>
bounds == <<faults, restarts>>
vars == <<dbVars, req, reloadVars, nodeVars, busVars, bounds>>

Snapshots == [rev : Nat, tab : [Tables -> SUBSET Edits]]
Blank(r) == [rev |-> r, tab |-> [t \in Tables |-> {}]]
NoSnapshot == Blank(0)
HasScripts(s) == s.tab[ScriptTable] # {}

Steps == {"idle", "bump", "rev", "build", "check", "prepublish", "recheck", "publish",
          "apply", "redis", "ensure", "ensureLast", "announce", "switchOnly"}

TypeOK ==
    /\ rev \in Nat
    /\ db \in [Tables -> SUBSET Edits]
    /\ redisCfg \in Buses \cup {Off}
    /\ bumped \in [Edits -> Nat]
    /\ req \in [Reqs -> {"new", "reload", "running", "ok", "err"}]
    /\ step \in [Nodes -> Steps]
    /\ owner \in [Nodes -> Reqs \cup {"none", "sync", "start"}]
    /\ building \in [Nodes -> Snapshots]
    /\ todo \in [Nodes -> SUBSET Tables]
    /\ holder \in [Nodes -> Snapshots]
    /\ cache \in [Nodes -> SUBSET Snapshots]
    /\ js \in [Nodes -> BOOLEAN]
    /\ ipRep \in [Nodes -> SUBSET Edits]
    /\ bus \in [Nodes -> Buses \cup {Off}]
    /\ subscribed \in [Nodes -> Buses \cup {Off}]
    /\ inbox \in [Nodes -> Nat]
    /\ faults \in 0..MaxFaults /\ restarts \in 0..MaxRestarts

Goto(n, s) == step' = [step EXCEPT ![n] = s]

\* The reload ends; runtimeReloadMu is free again.
Finish(n, r) ==
    /\ Goto(n, "idle")
    /\ owner' = [owner EXCEPT ![n] = "none"]
    /\ req' = [q \in Reqs |-> IF q = owner[n] THEN r ELSE req[q]]

Fault == faults < MaxFaults /\ faults' = faults + 1

\* A reload that fails returns its error; a process that cannot build its first
\* snapshot exits, and its supervisor starts it again.
Fail(n) ==
    /\ Fault
    /\ \/ owner[n] = "start" /\ Goto(n, "rev") /\ UNCHANGED <<owner, req>>
       \/ owner[n] # "start" /\ Finish(n, "err")

-----------------------------------------------------------------------------
(* Admin requests                                                            *)

\* The handler commits its change, apart from the revision.
Write(e) ==
    /\ req[e] = "new"
    /\ owner[Home[e]] # "start"
    /\ db' = [t \in Tables |-> db[t] \cup {e}]
    /\ req' = [req EXCEPT ![e] = "reload"]
    /\ UNCHANGED <<rev, redisCfg, bumped, reloadVars, nodeVars, busVars, bounds>>

\* UpdateRedisConfig stores the settings; it has probed the server before.
WriteRedis(w) ==
    /\ req[w] = "new"
    /\ owner[Home[w]] # "start"
    /\ redisCfg' = Target[w]
    /\ req' = [req EXCEPT ![w] = "reload"]
    /\ UNCHANGED <<rev, db, bumped, reloadVars, nodeVars, busVars, bounds>>

-----------------------------------------------------------------------------
(* reloadRuntime                                                             *)

\* Mutant: the handler's reload does not bump the revision.
LockNoBump(q) ==
    LET n == Home[q] IN
    /\ req[q] = "reload"
    /\ step[n] = "idle"
    /\ Goto(n, IF q \in Edits THEN "rev" ELSE "switchOnly")
    /\ owner' = [owner EXCEPT ![n] = q]
    /\ req' = [req EXCEPT ![q] = "running"]
    /\ UNCHANGED <<dbVars, building, todo, nodeVars, busVars, bounds>>

\* The handler's reload takes runtimeReloadMu; ReloadRedis goes straight to the
\* Redis part.
Lock(q) ==
    LET n == Home[q] IN
    /\ req[q] = "reload"
    /\ step[n] = "idle"
    /\ Goto(n, IF q \in Edits THEN "bump" ELSE "switchOnly")
    /\ owner' = [owner EXCEPT ![n] = q]
    /\ req' = [req EXCEPT ![q] = "running"]
    /\ UNCHANGED <<dbVars, building, todo, nodeVars, busVars, bounds>>

\* Mutant: the callback also answers what is no message of another node.
LockSyncAny(n) ==
    /\ step[n] = "idle"
    /\ inbox' = [inbox EXCEPT ![n] = @ - 1]
    /\ Goto(n, "rev")
    /\ owner' = [owner EXCEPT ![n] = "sync"]
    /\ UNCHANGED <<dbVars, req, building, todo, nodeVars, bus, subscribed, bounds>>

\* The subscriber's callback takes it for a message of another node.
LockSync(n) ==
    /\ inbox[n] > 0
    /\ step[n] = "idle"
    /\ inbox' = [inbox EXCEPT ![n] = @ - 1]
    /\ Goto(n, "rev")
    /\ owner' = [owner EXCEPT ![n] = "sync"]
    /\ UNCHANGED <<dbVars, req, building, todo, nodeVars, bus, subscribed, bounds>>

Increment(n) ==
    /\ rev' = rev + 1
    /\ bumped' = [e \in Edits |-> IF e = owner[n] THEN rev + 1 ELSE bumped[e]]

BumpRevision(n) ==
    /\ step[n] = "bump"
    /\ Increment(n)
    /\ Goto(n, "rev")
    /\ UNCHANGED <<db, redisCfg, req, owner, building, todo, nodeVars, busVars, bounds>>

\* The update failed, or it took effect and its answer was lost.
BumpFails(n) ==
    /\ step[n] = "bump"
    /\ Increment(n) \/ UNCHANGED <<rev, bumped>>
    /\ Fail(n)
    /\ UNCHANGED <<db, redisCfg, building, todo, nodeVars, busVars, restarts>>

-----------------------------------------------------------------------------
(* Runtime.ReloadSnapshotWithPrePublish                                      *)

\* currentRevision, then the cache.
ReadRevision(n) ==
    /\ step[n] = "rev"
    /\ \/ /\ \E s \in cache[n] : s.rev = rev /\ building' = [building EXCEPT ![n] = s]
          /\ Goto(n, "check")
          /\ UNCHANGED todo
       \/ /\ \A s \in cache[n] : s.rev # rev
          /\ building' = [building EXCEPT ![n] = Blank(rev)]
          /\ todo' = [todo EXCEPT ![n] = Tables]
          /\ Goto(n, "build")
    /\ UNCHANGED <<dbVars, req, owner, nodeVars, busVars, bounds>>

\* Build reads one table.
BuildTable(n, t) ==
    /\ step[n] = "build"
    /\ t \in todo[n]
    /\ building' = [building EXCEPT ![n].tab[t] = db[t]]
    /\ todo' = [todo EXCEPT ![n] = @ \ {t}]
    /\ UNCHANGED <<dbVars, req, step, owner, nodeVars, busVars, bounds>>

BuildDone(n) ==
    /\ step[n] = "build"
    /\ todo[n] = {}
    /\ Goto(n, "check")
    /\ UNCHANGED <<dbVars, req, owner, building, todo, nodeVars, busVars, bounds>>

\* Mutant: a snapshot overtaken by a bump is relabelled instead of rebuilt.
CheckRelabel(n) ==
    /\ step[n] = "check"
    /\ building' = [building EXCEPT ![n].rev = rev]
    /\ Goto(n, "prepublish")
    /\ UNCHANGED <<dbVars, req, owner, todo, nodeVars, busVars, bounds>>

\* The revision must not have moved while the snapshot was found or built.
Check(n) ==
    /\ step[n] = "check"
    /\ Goto(n, IF rev = building[n].rev THEN "prepublish" ELSE "rev")
    /\ UNCHANGED <<dbVars, req, owner, building, todo, nodeVars, busVars, bounds>>

\* ensureJSEngine creates the executor for the first scripts and keeps it ever
\* after; the first build of a process has no callback.
PrePublish(n) ==
    /\ step[n] = "prepublish"
    /\ js' = [js EXCEPT ![n] = @ \/ (owner[n] # "start" /\ HasScripts(building[n]))]
    /\ Goto(n, "recheck")
    /\ UNCHANGED <<dbVars, req, owner, building, todo, holder, cache, ipRep, busVars, bounds>>

Recheck(n) ==
    /\ step[n] = "recheck"
    /\ Goto(n, IF rev = building[n].rev THEN "publish" ELSE "rev")
    /\ UNCHANGED <<dbVars, req, owner, building, todo, nodeVars, busVars, bounds>>

\* Mutant: a failing callback does not stop the publication.
ReloadFailsOpen(n) ==
    /\ step[n] \in {"rev", "build", "check", "prepublish", "recheck"}
    /\ IF step[n] = "prepublish"
       THEN Fault /\ Goto(n, "recheck") /\ UNCHANGED <<owner, req>>
       ELSE Fail(n)
    /\ UNCHANGED <<dbVars, building, todo, nodeVars, busVars, restarts>>

\* A query, the validation in Build or the creation of the executor fails.
ReloadFails(n) ==
    /\ step[n] \in {"rev", "build", "check", "prepublish", "recheck"}
    /\ step[n] = "prepublish" =>
          owner[n] # "start" /\ HasScripts(building[n]) /\ ~js[n]
    /\ Fail(n)
    /\ UNCHANGED <<dbVars, building, todo, nodeVars, busVars, restarts>>

\* It changes nothing for a snapshot that came from the cache.
SetSnapshot(n) ==
    cache' = [cache EXCEPT ![n] = {s \in @ : s.rev # building[n].rev} \cup {building[n]}]

Newer(n) == holder[n].rev < building[n].rev

StoreIfNewer(n) ==
    holder' = [holder EXCEPT ![n] = IF Newer(n) THEN building[n] ELSE @]

\* A snapshot that is not newer is only good enough if it came from the cache.
Publish(n) ==
    /\ step[n] = "publish"
    /\ SetSnapshot(n)
    /\ StoreIfNewer(n)
    /\ Goto(n, IF Newer(n) \/ building[n] \in cache[n] THEN "apply" ELSE "rev")
    /\ UNCHANGED <<dbVars, req, owner, building, todo, js, ipRep, busVars, bounds>>

\* The cache has dropped its entries.  Only the lookup in ReadRevision can tell
\* when, so they go just before it.
Evict(n) ==
    /\ Fault
    /\ step[n] = "rev"
    /\ cache[n] # {}
    /\ cache' = [cache EXCEPT ![n] = {}]
    /\ UNCHANGED <<dbVars, req, reloadVars, holder, js, ipRep, busVars, restarts>>

-----------------------------------------------------------------------------
(* The rest of applySnapshotReload and of reloadRuntime                      *)

\* loadIPLists ignores an error of its query.
LoadIPLists(n) ==
    \/ /\ ipRep' = [ipRep EXCEPT ![n] = UNION {db[t] : t \in Tables}]
       /\ UNCHANGED faults
    \/ Fault /\ UNCHANGED ipRep

\* Mutant: the reload forgets the IP lists.
ApplyNoIPLists(n) ==
    /\ step[n] = "apply"
    /\ owner[n] # "start"
    /\ UNCHANGED <<ipRep, faults>>
    /\ Goto(n, "redis")
    /\ UNCHANGED <<dbVars, req, owner, building, todo, holder, cache, js, busVars, restarts>>

Apply(n) ==
    /\ step[n] = "apply"
    /\ owner[n] # "start"
    /\ LoadIPLists(n)
    /\ Goto(n, "redis")
    /\ UNCHANGED <<dbVars, req, owner, building, todo, holder, cache, js, busVars, restarts>>

\* The rest of Run's startup: the IP lists and the JS engine.
Start(n) ==
    /\ step[n] = "apply"
    /\ owner[n] = "start"
    /\ LoadIPLists(n)
    /\ js' = [js EXCEPT ![n] = HasScripts(holder[n])]
    /\ Goto(n, "idle")
    /\ owner' = [owner EXCEPT ![n] = "none"]
    /\ UNCHANGED <<dbVars, req, building, todo, holder, cache, busVars, restarts>>

\* Mutant: a node that is busy reloading misses the message.
AnnounceIdle(n) ==
    inbox' = [m \in Nodes |->
                 IF m # n /\ bus[n] # Off /\ subscribed[m] = bus[n] /\ step[m] = "idle"
                 THEN inbox[m] + 1 ELSE inbox[m]]

\* The message reaches the subscribers of the server the node is connected to;
\* they skip their own.
Announce(n) ==
    inbox' = [m \in Nodes |->
                 IF m # n /\ bus[n] # Off /\ subscribed[m] = bus[n]
                 THEN inbox[m] + 1 ELSE inbox[m]]

Propagates(n) == owner[n] \in Edits

\* PublishReload, if it is called at all; it only logs that its message was lost.
PublishReload(n, called) ==
    \/ called /\ Announce(n) /\ UNCHANGED faults
    \/ called /\ Fault /\ UNCHANGED inbox
    \/ ~called /\ UNCHANGED <<inbox, faults>>

redisRuntimeSyncNeeded(n) == redisCfg # bus[n]

shouldPublishConfigReloadBeforeRedisSwitch(n) ==
    Propagates(n) /\ bus[n] # Off /\ redisRuntimeSyncNeeded(n)

\* The old server is told before the node leaves it, and then the new one is not.
RedisStep(n) ==
    /\ step[n] = "redis"
    /\ PublishReload(n, shouldPublishConfigReloadBeforeRedisSwitch(n))
    /\ Goto(n, IF shouldPublishConfigReloadBeforeRedisSwitch(n) THEN "ensureLast" ELSE "ensure")
    /\ UNCHANGED <<dbVars, req, owner, building, todo, nodeVars, bus, subscribed, restarts>>

\* applyRedisRuntimeReload connects to the configured server and replaces the
\* subscriber; what the old one had not handled may be lost.
Connect(n) ==
    /\ bus' = [bus EXCEPT ![n] = redisCfg]
    /\ subscribed' = [subscribed EXCEPT ![n] = Off]
    /\ \E kept \in 0..inbox[n] : inbox' = [inbox EXCEPT ![n] = kept]

\* ensureRedisRuntime reads the settings again, which may have changed meanwhile.
EnsureRedis(n) ==
    /\ step[n] \in {"ensure", "ensureLast"}
    /\ \/ redisRuntimeSyncNeeded(n) /\ Connect(n)
       \/ ~redisRuntimeSyncNeeded(n) /\ UNCHANGED busVars
    /\ \/ step[n] = "ensure" /\ Goto(n, "announce") /\ UNCHANGED <<owner, req>>
       \/ step[n] = "ensureLast" /\ Finish(n, "ok")
    /\ UNCHANGED <<dbVars, building, todo, nodeVars, bounds>>

\* reloadRedisRuntimeInternal, called by UpdateRedisConfig: this node only.
SwitchOnly(n) ==
    /\ step[n] = "switchOnly"
    /\ Connect(n)
    /\ Finish(n, "ok")
    /\ UNCHANGED <<dbVars, building, todo, nodeVars, bounds>>

\* The settings cannot be read, or the new server does not answer the ping: the
\* node stays where it is.
SwitchFails(n) ==
    /\ step[n] \in {"redis", "ensure", "ensureLast", "switchOnly"}
    /\ Fail(n)
    /\ UNCHANGED <<dbVars, building, todo, nodeVars, busVars, restarts>>

AnnounceStep(n) ==
    /\ step[n] = "announce"
    /\ PublishReload(n, Propagates(n))
    /\ Finish(n, "ok")
    /\ UNCHANGED <<dbVars, building, todo, nodeVars, bus, subscribed, restarts>>

-----------------------------------------------------------------------------
(* The node's other goroutines, and its crashes                              *)

\* The Subscribe goroutine reaches the server the node is connected to.
Subscribe(n) ==
    /\ owner[n] # "start"
    /\ subscribed[n] # bus[n]
    /\ subscribed' = [subscribed EXCEPT ![n] = bus[n]]
    /\ UNCHANGED <<dbVars, req, reloadVars, nodeVars, bus, inbox, bounds>>

\* loadJSEngine: the admin API's dry run of a script creates the executor early.
DryRun(n) ==
    /\ owner[n] # "start"
    /\ ~js[n]
    /\ js' = [js EXCEPT ![n] = TRUE]
    /\ UNCHANGED <<dbVars, req, reloadVars, holder, cache, ipRep, busVars, bounds>>

\* The process dies and starts again; its requests are never answered.
\* NewRuntime connects to the configured Redis server, or goes on without one.
Restart(n) ==
    /\ restarts < MaxRestarts
    /\ restarts' = restarts + 1
    /\ Goto(n, "rev")
    /\ owner' = [owner EXCEPT ![n] = "start"]
    /\ req' = [q \in Reqs |-> IF Home[q] = n /\ req[q] \in {"reload", "running"}
                              THEN "err" ELSE req[q]]
    /\ holder' = [holder EXCEPT ![n] = NoSnapshot]
    /\ cache' = [cache EXCEPT ![n] = {}]
    /\ js' = [js EXCEPT ![n] = FALSE]
    /\ ipRep' = [ipRep EXCEPT ![n] = {}]
    /\ \/ bus' = [bus EXCEPT ![n] = redisCfg] /\ UNCHANGED faults
       \/ bus' = [bus EXCEPT ![n] = Off] /\ Fault
    /\ subscribed' = [subscribed EXCEPT ![n] = Off]
    /\ inbox' = [inbox EXCEPT ![n] = 0]
    /\ UNCHANGED <<dbVars, building, todo>>

-----------------------------------------------------------------------------

\* Every node runs with the same revision, not the first one (a NoSnapshot in
\* holder stands for the nil pointer), and listens on the configured server.
Init ==
    /\ rev = 1
    /\ db = [t \in Tables |-> {}]
    /\ redisCfg = FirstBus
    /\ bumped = [e \in Edits |-> 0]
    /\ req = [q \in Reqs |-> "new"]
    /\ step = [n \in Nodes |-> "idle"]
    /\ owner = [n \in Nodes |-> "none"]
    /\ building = [n \in Nodes |-> NoSnapshot]
    /\ todo = [n \in Nodes |-> {}]
    /\ holder = [n \in Nodes |-> Blank(1)]
    /\ cache = [n \in Nodes |-> {Blank(1)}]
    /\ js = [n \in Nodes |-> FALSE]
    /\ ipRep = [n \in Nodes |-> {}]
    /\ bus = [n \in Nodes |-> redisCfg]
    /\ subscribed = [n \in Nodes |-> redisCfg]
    /\ inbox = [n \in Nodes |-> 0]
    /\ faults = 0 /\ restarts = 0

\* What the code does by itself once called.
Reload(n) ==
    \/ BumpRevision(n) \/ ReadRevision(n) \/ (\E t \in Tables : BuildTable(n, t))
    \/ BuildDone(n) \/ Check(n) \/ PrePublish(n) \/ Recheck(n) \/ Publish(n)
    \/ Apply(n) \/ Start(n) \/ RedisStep(n) \/ EnsureRedis(n) \/ SwitchOnly(n)
    \/ AnnounceStep(n)

Disturbance(n) ==
    BumpFails(n) \/ ReloadFails(n) \/ SwitchFails(n) \/ Evict(n) \/ Restart(n)

Next ==
    \/ \E e \in Edits : Write(e)
    \/ \E w \in Switches : WriteRedis(w)
    \/ \E q \in Reqs : Lock(q)
    \/ \E n \in Nodes : LockSync(n) \/ Reload(n) \/ Subscribe(n) \/ DryRun(n) \/ Disturbance(n)

\* Goroutines run, and Go's mutex starves nobody.
Fairness ==
    /\ \A q \in Reqs : SF_vars(Lock(q))
    /\ \A n \in Nodes : SF_vars(LockSync(n)) /\ WF_vars(Reload(n)) /\ WF_vars(Subscribe(n))

Spec == Init /\ [][Next]_vars
FairSpec == Spec /\ Fairness
-----------------------------------------------------------------------------
(* Properties                                                                *)

\* A snapshot labelled r, published or cached, holds every change whose reload
\* bumped the revision to r or less, in every table, however Build's reads
\* interleave with other nodes' commits and bumps.
SnapshotComplete ==
    \A n \in Nodes : \A s \in cache[n] \cup {holder[n]} : \A e \in Edits :
        bumped[e] # 0 /\ bumped[e] <= s.rev => \A t \in Tables : e \in s.tab[t]

\* "config applied": when the handler answers success, the change is live in
\* the data plane of its node and stays live, short of a restart under way.
AckLive ==
    \A e \in Edits : req[e] = "ok" /\ holder[Home[e]].rev # 0 =>
        \A t \in Tables : e \in holder[Home[e]].tab[t]

\* Requests never meet a snapshot with scripts while there is no executor to
\* run them, also when creating it fails or the revision moves meanwhile.
ScriptsHaveEngine ==
    \A n \in Nodes : owner[n] # "start" /\ HasScripts(holder[n]) => js[n]

\* The IP lists live outside the snapshot, and the handler's answer does not
\* depend on loading them: unless some step failed, a change answered with
\* success is in the lists its node enforces, also after a restart.
IPListsLive ==
    faults = 0 => \A e \in Edits : req[e] = "ok" /\ owner[Home[e]] # "start" =>
        e \in ipRep[Home[e]]

\* "Nodes keep in sync after changes in the admin API": a change the API
\* answered with success reaches the published snapshot of every node and stays.
InSync ==
    \A e \in Edits : req[e] = "ok" ~>
        [](\A n \in Nodes, t \in Tables : e \in holder[n].tab[t])
=============================================================================
