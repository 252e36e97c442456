------------------------------ MODULE PhaseCache ------------------------------
(***************************************************************************)
(* How a request gets its rules and its phase chain (core/engine) while    *)
(* configuration reloads go on.                                            *)
(*                                                                         *)
(* A request takes its snapshot once and then works without a lock.  It    *)
(* finds the compiled rules and the phase chain of its site in two         *)
(* copy-on-write caches, each of which holds the entries of one revision,  *)
(* that of whichever request stored last.  A chain bakes in what was seen  *)
(* while it was built: the rules, the protection settings, whether there   *)
(* were scripts for the first Lua stage, whether the request limiter was   *)
(* on, and the bot threshold.  A reload publishes the snapshot first and   *)
(* moves the limiter, the threshold and the scripts after it, one by one.  *)
(*                                                                         *)
(* A snapshot is its revision with one record of Settings; the pointer to  *)
(* the protection settings is known by the revision too, because the       *)
(* Holder takes a snapshot only if its revision is newer (ConfigReload).   *)
(***************************************************************************)
EXTENDS Integers, Sequences, FiniteSets

CONSTANTS
    Requests,
    Sites,
    Settings,    \* what a snapshot may say: [maint, pre, limit]
    Thresholds,  \* bot thresholds in the settings table, 0 is none
    MaxRevision, \* bound on the revisions
    MaxReloads   \* bound on the reloads

ASSUME SettingsAssumption ==
    /\ Settings # {}
    /\ \A s \in Settings : s \in [maint : BOOLEAN, pre : BOOLEAN, limit : BOOLEAN]
ASSUME PhaseBounds ==
    MaxRevision \in Nat \ {0} /\ MaxReloads \in Nat /\ Thresholds \subseteq Nat

VARIABLES
    snap,      \* the published snapshot
    lua,       \* the published script set, with its generation
    limiter,   \* whether the request limiter is on
    deps,      \* the phase dependencies; n tells two allocations apart
    reload,    \* the next step of the reload under way
    reloads,   \* reloads so far
    compiled,  \* the cache of compiled rules
    phases,    \* the cache of phase chains
    q          \* the requests

published == <<snap, lua, limiter, deps, reload, reloads>>
caches == <<compiled, phases>>
vars == <<published, caches, q>>

Revisions == 1..MaxRevision
Snapshots == [rev : Revisions, set : Settings]
Rules == Revisions \X Sites
Generations == 0..MaxReloads
Deps == [n : 0..MaxReloads, threshold : Nat]
Chains == [rules : Rules, prot : Revisions, lua : BOOLEAN, limiter : BOOLEAN,
           threshold : Nat]
Entries == [prot : Revisions, lua : Generations, deps : Deps, chain : Chains]

Steps == {"start", "rules", "storeRules", "lua", "deps", "lookup", "build", "limiter",
          "storeChain", "run", "maintenance"}

\* A request: where it is, its site and snapshot, the chain it builds or was given
\* and what it read for it.  quiet is history: no reload has overlapped it.
States == [pc : Steps, site : Sites, snap : Snapshots, chain : Chains,
           luaRev : Generations, deps : Deps, quiet : BOOLEAN]

TypeOK ==
    /\ snap \in Snapshots
    /\ lua \in [gen : Generations, pre : BOOLEAN]
    /\ limiter \in BOOLEAN
    /\ deps \in Deps
    /\ reload \in {"idle", "limiter", "deps", "lua"}
    /\ reloads \in 0..MaxReloads
    /\ compiled.rev \in Revisions \cup {0}
    /\ \A s \in DOMAIN compiled.cache : s \in Sites /\ compiled.cache[s] \in Rules
    /\ phases.rev \in Revisions \cup {0}
    /\ \A s \in DOMAIN phases.cache : s \in Sites /\ phases.cache[s] \in Entries
    /\ q \in [Requests -> States]

-----------------------------------------------------------------------------
(* A configuration reload                                                    *)

\* The snapshot is in place before anything that derives from it.  A reload that
\* finds nothing newer goes through the same steps.
Publish ==
    /\ reload = "idle" /\ reloads < MaxReloads
    /\ \/ /\ snap.rev < MaxRevision
          /\ \E s \in Settings : snap' = [rev |-> snap.rev + 1, set |-> s]
       \/ UNCHANGED snap
    /\ reload' = "limiter"
    /\ reloads' = reloads + 1
    /\ q' = [r \in Requests |-> [q[r] EXCEPT !.quiet = FALSE]]
    /\ UNCHANGED <<lua, limiter, deps, caches>>

\* applyProtectionRuntimeConfig: reqRL.Reconfigure ...
ReconfigureLimiter ==
    /\ reload = "limiter"
    /\ limiter' = snap.set.limit
    /\ reload' = "deps"
    /\ UNCHANGED <<snap, lua, deps, reloads, caches, q>>

\* ... and SetBotThreshold, which ignores a threshold that is not positive and
\* otherwise publishes new dependencies even if nothing changed.
SetBotThreshold ==
    /\ reload = "deps"
    /\ \E t \in Thresholds :
          deps' = IF t > 0 THEN [n |-> reloads, threshold |-> t] ELSE deps
    /\ reload' = "lua"
    /\ UNCHANGED <<snap, lua, limiter, reloads, caches, q>>

\* Mutant: the generation moves when the scripts are sorted and again when they are
\* stored.
LuaReloadTwice ==
    /\ reload = "lua"
    /\ lua' = [gen |-> lua.gen + 2, pre |-> snap.set.pre]
    /\ reload' = "idle"
    /\ UNCHANGED <<snap, limiter, deps, reloads, caches, q>>

\* luaEngine.Reload: the set and its generation are replaced as one.
LuaReload ==
    /\ reload = "lua"
    /\ lua' = [gen |-> lua.gen + 1, pre |-> snap.set.pre]
    /\ reload' = "idle"
    /\ UNCHANGED <<snap, limiter, deps, reloads, caches, q>>

-----------------------------------------------------------------------------
(* processResolved: the caches                                               *)

Step(r, pc) == q' = [q EXCEPT ![r].pc = pc]

\* Values out of scope.
DefaultThreshold == 80
NoDeps == [n |-> 0, threshold |-> 0]
NoChain(site) ==
    [rules |-> <<1, site>>, prot |-> 1, lua |-> FALSE, limiter |-> FALSE, threshold |-> 0]

\* getOrBuildPhases returns the chain.
Return(r, c) ==
    q' = [q EXCEPT ![r].pc = "run", ![r].chain = c, ![r].luaRev = 0, ![r].deps = NoDeps]

\* The handler loads the snapshot and resolves the site; the maintenance gate is
\* in front of everything else.
Begin(r) ==
    /\ q[r].pc = "start"
    /\ q' = [q EXCEPT ![r].pc = IF snap.set.maint THEN "maintenance" ELSE "rules",
                      ![r].snap = snap,
                      ![r].quiet = reload = "idle"]
    /\ UNCHANGED <<published, caches>>

OwnRules(r) == <<q[r].snap.rev, q[r].site>>

\* Mutant: the revision of the cache is not looked at.
GetCompiledRulesAnyRevision(r) ==
    /\ q[r].pc = "rules"
    /\ IF q[r].site \in DOMAIN compiled.cache
       THEN q' = [q EXCEPT ![r].pc = "lua", ![r].chain.rules = compiled.cache[q[r].site]]
       ELSE q' = [q EXCEPT ![r].pc = "storeRules", ![r].chain.rules = OwnRules(r)]
    /\ UNCHANGED <<published, caches>>

\* getCompiledRules, up to the lock: a hit, or the rules are compiled.
GetCompiledRules(r) ==
    /\ q[r].pc = "rules"
    /\ IF compiled.rev = q[r].snap.rev /\ q[r].site \in DOMAIN compiled.cache
       THEN q' = [q EXCEPT ![r].pc = "lua", ![r].chain.rules = compiled.cache[q[r].site]]
       ELSE q' = [q EXCEPT ![r].pc = "storeRules", ![r].chain.rules = OwnRules(r)]
    /\ UNCHANGED <<published, caches>>

\* The copy of a cache with one more entry, under its write mutex; the entries of
\* another revision, newer ones too, are dropped.
Added(c, rev, site, e) ==
    LET old == IF c.rev = rev THEN c.cache ELSE <<>> IN
    [rev |-> rev, cache |-> [s \in DOMAIN old \cup {site} |-> IF s = site THEN e ELSE old[s]]]

StoreCompiledRules(r) ==
    /\ q[r].pc = "storeRules"
    /\ compiled' = Added(compiled, q[r].snap.rev, q[r].site, q[r].chain.rules)
    /\ Step(r, "lua")
    /\ UNCHANGED <<published, phases>>

\* getOrBuildPhases reads the script generation ...
ReadLuaRevision(r) ==
    /\ q[r].pc = "lua"
    /\ q' = [q EXCEPT ![r].pc = "deps", ![r].luaRev = lua.gen]
    /\ UNCHANGED <<published, caches>>

\* ... and the dependencies before it looks at the cache and before it builds.
LoadPhaseDeps(r) ==
    /\ q[r].pc = "deps"
    /\ q' = [q EXCEPT ![r].pc = "lookup", ![r].deps = deps]
    /\ UNCHANGED <<published, caches>>

\* The entry must have been built from what this request has just read.
Current(r, e) == e.prot = q[r].snap.rev /\ e.lua = q[r].luaRev /\ e.deps = q[r].deps

Lookup(r) ==
    /\ q[r].pc = "lookup"
    /\ IF /\ phases.rev = q[r].snap.rev
          /\ q[r].site \in DOMAIN phases.cache
          /\ Current(r, phases.cache[q[r].site])
       THEN Return(r, phases.cache[q[r].site].chain)
       ELSE Step(r, "build")
    /\ UNCHANGED <<published, caches>>

\* The build looks at the scripts again ...
BuildLua(r) ==
    /\ q[r].pc = "build"
    /\ q' = [q EXCEPT ![r].pc = "limiter", ![r].chain.lua = lua.pre,
                      ![r].chain.prot = q[r].snap.rev,
                      ![r].chain.threshold = q[r].deps.threshold]
    /\ UNCHANGED <<published, caches>>

\* ... and further on at the limiter, for the behaviour score of the bot phase.
BuildLimiter(r) ==
    /\ q[r].pc = "limiter"
    /\ q' = [q EXCEPT ![r].pc = "storeChain", ![r].chain.limiter = limiter]
    /\ UNCHANGED <<published, caches>>

StoreAs(r, gen) ==
    /\ q[r].pc = "storeChain"
    /\ phases' = Added(phases, q[r].snap.rev, q[r].site,
                       [prot |-> q[r].snap.rev, lua |-> gen, deps |-> q[r].deps,
                        chain |-> q[r].chain])
    /\ Return(r, q[r].chain)
    /\ UNCHANGED <<published, compiled>>

\* Mutant: the entry is stored under the generation of the moment.
StorePhasesNow(r) == StoreAs(r, lua.gen)

\* The entry is stored under the generation read first.
StorePhases(r) == StoreAs(r, q[r].luaRev)

-----------------------------------------------------------------------------
Init ==
    /\ \E s \in Settings :
          /\ snap = [rev |-> 1, set |-> s]
          /\ lua = [gen |-> 0, pre |-> s.pre]
          /\ limiter = s.limit
    /\ deps = [n |-> 0, threshold |-> DefaultThreshold]
    /\ reload = "idle" /\ reloads = 0
    /\ compiled = [rev |-> 0, cache |-> <<>>]
    /\ phases = [rev |-> 0, cache |-> <<>>]
    /\ \E site \in [Requests -> Sites] :
          q = [r \in Requests |->
                 [pc |-> "start", site |-> site[r], snap |-> snap,
                  chain |-> NoChain(site[r]), luaRev |-> 0, deps |-> NoDeps,
                  quiet |-> FALSE]]

Reload == Publish \/ ReconfigureLimiter \/ SetBotThreshold \/ LuaReload

ProcessResolved(r) ==
    \/ Begin(r) \/ GetCompiledRules(r) \/ StoreCompiledRules(r)
    \/ ReadLuaRevision(r) \/ LoadPhaseDeps(r) \/ Lookup(r)
    \/ BuildLua(r) \/ BuildLimiter(r) \/ StorePhases(r)

Next == Reload \/ \E r \in Requests : ProcessResolved(r)

Spec == Init /\ [][Next]_vars

-----------------------------------------------------------------------------
(* Properties                                                                *)

\* A request is judged by the rules and the protection settings of the snapshot it
\* took, whatever newer or older requests put into the two caches meanwhile
\* (getCompiledRules, getOrBuildPhases).
ChainOwnSnapshot ==
    \A r \in Requests :
        q[r].pc = "run" => q[r].chain.rules = OwnRules(r) /\ q[r].chain.prot = q[r].snap.rev

\* A request that no reload overlaps runs the chain the published configuration
\* calls for: a chain that a request built from half of a reload is never handed
\* to one that came after it (the fast path of getOrBuildPhases).
QuietChainFresh ==
    \A r \in Requests :
        q[r].pc = "run" /\ q[r].quiet =>
            q[r].chain = [rules |-> <<snap.rev, q[r].site>>, prot |-> snap.rev,
                          lua |-> snap.set.pre, limiter |-> snap.set.limit,
                          threshold |-> deps.threshold]
=============================================================================
