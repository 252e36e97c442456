--------------------------- MODULE PhaseCacheProofs ---------------------------
(***************************************************************************)
(* Proofs about PhaseCache for any requests, sites, settings and number of *)
(* reloads: a request runs the chain of its own snapshot, and one that no  *)
(* reload overlaps runs the chain the configuration calls for.             *)
(***************************************************************************)
EXTENDS PhaseCache, TLAPS

\* The generation of the scripts counts the reloads that are through, and between
\* two reloads what they move agrees with the snapshot.
Settled ==
    /\ lua.gen = IF reload = "idle" THEN reloads ELSE reloads - 1
    /\ reload \in {"idle", "deps", "lua"} => limiter = snap.set.limit
    /\ reload = "idle" => lua.pre = snap.set.pre

\* An entry of either cache is of the revision the cache says it is.
OwnEntries ==
    /\ \A s \in DOMAIN compiled.cache : compiled.cache[s] = <<compiled.rev, s>>
    /\ \A s \in DOMAIN phases.cache :
          /\ phases.cache[s].prot = phases.rev
          /\ phases.cache[s].chain.rules = <<phases.rev, s>>
          /\ phases.cache[s].chain.prot = phases.rev

Built == {"limiter", "storeChain"}
WithDeps == {"lookup", "build"} \cup Built
WithGen == {"deps"} \cup WithDeps
WithRules == {"storeRules", "lua"} \cup WithGen \cup {"run"}

\* So is what a request has in hand.
OwnChain ==
    \A r \in Requests :
        /\ q[r].pc \in WithRules => q[r].chain.rules = OwnRules(r)
        /\ q[r].pc \in Built \cup {"run"} => q[r].chain.prot = q[r].snap.rev

\* The scripts and the limiter of a chain labelled with the current generation were
\* read after the last reload was through.
ThisGeneration(gen, x) == reload = "idle" /\ gen = lua.gen => x

FreshEntries ==
    \A s \in DOMAIN phases.cache :
        LET e == phases.cache[s] IN
        /\ e.lua <= lua.gen
        /\ e.chain.threshold = e.deps.threshold
        /\ ThisGeneration(e.lua, e.chain.lua = lua.pre /\ e.chain.limiter = limiter)

FreshBuilds ==
    \A r \in Requests :
        /\ q[r].pc \in WithGen => q[r].luaRev <= lua.gen
        /\ q[r].pc \in Built =>
              /\ q[r].chain.threshold = q[r].deps.threshold
              /\ ThisGeneration(q[r].luaRev, q[r].chain.lua = lua.pre)
        /\ q[r].pc = "storeChain" =>
              ThisGeneration(q[r].luaRev, q[r].chain.limiter = limiter)

\* What a request has read is still so, as long as no reload overlaps it.
StillSo ==
    \A r \in Requests :
        q[r].quiet =>
            /\ reload = "idle" /\ q[r].snap = snap
            /\ q[r].pc \in WithGen => q[r].luaRev = lua.gen
            /\ q[r].pc \in WithDeps => q[r].deps = deps
            /\ q[r].pc = "run" => /\ q[r].chain.lua = lua.pre
                                  /\ q[r].chain.limiter = limiter
                                  /\ q[r].chain.threshold = deps.threshold

IInv ==
    /\ TypeOK /\ Settled /\ OwnEntries /\ OwnChain
    /\ FreshEntries /\ FreshBuilds /\ StillSo

-----------------------------------------------------------------------------
(* What the steps of a request do to it                                      *)

\* A step of r concerns r alone and keeps its site.
Moves(r) ==
    /\ q' \in [Requests -> States]
    /\ \A x \in Requests \ {r} : q'[x] = q[x]
    /\ q'[r].site = q[r].site

\* The two longest updates of a request yield a request.
LEMMA BeginType ==
    ASSUME q \in [Requests -> States], NEW r \in Requests,
           NEW p \in Steps, NEW s \in Snapshots, NEW b \in BOOLEAN,
           q' = [q EXCEPT ![r].pc = p, ![r].snap = s, ![r].quiet = b]
    PROVE  q' \in [Requests -> States]
    BY ZenonT(60) DEF States

\* A request that has its chain keeps its type.
LEMMA ReturnType ==
    ASSUME q \in [Requests -> States], NEW r \in Requests,
           NEW c \in Chains, NEW l \in Generations, NEW d \in Deps,
           q' = [q EXCEPT ![r].pc = "run", ![r].chain = c, ![r].luaRev = l, ![r].deps = d]
    PROVE  q' \in [Requests -> States]
<1>1. q' = [q EXCEPT ![r] = [q[r] EXCEPT !.pc = "run", !.chain = c, !.luaRev = l, !.deps = d]]
    OBVIOUS
<1>2. [q[r] EXCEPT !.pc = "run", !.chain = c, !.luaRev = l, !.deps = d] \in States
    BY DEF States, Steps
<1>3. QED
    BY <1>1, <1>2

\* The request takes its snapshot, and whether a reload is under way.
LEMMA BeginEffect ==
    ASSUME TypeOK, NEW r \in Requests, Begin(r)
    PROVE  /\ Moves(r)
           /\ q'[r].pc \in {"maintenance", "rules"}
           /\ q'[r].snap = snap /\ (q'[r].quiet => reload = "idle")
<1>1. PICK p \in {"maintenance", "rules"}, b \in BOOLEAN :
        /\ q' = [q EXCEPT ![r].pc = p, ![r].snap = snap, ![r].quiet = b]
        /\ b = (reload = "idle")
    BY DEF Begin
<1>2. q' \in [Requests -> States]
    <2>1. q \in [Requests -> States] /\ snap \in Snapshots /\ p \in Steps
        BY DEF TypeOK, Steps
    <2>2. QED
        BY <1>1, <2>1, BeginType
<1>3. /\ \A x \in Requests \ {r} : q'[x] = q[x]
      /\ q'[r].pc = p /\ q'[r].snap = snap /\ q'[r].quiet = b
      /\ q'[r].site = q[r].site
    BY <1>1 DEF TypeOK, States
<1>4. QED
    BY <1>1, <1>2, <1>3 DEF Moves

\* The rules come out of the cache of the same revision or are compiled.
LEMMA RulesEffect ==
    ASSUME TypeOK, NEW r \in Requests, GetCompiledRules(r)
    PROVE  /\ Moves(r)
           /\ q'[r].pc \in {"lua", "storeRules"}
           /\ UNCHANGED <<q[r].snap, q[r].quiet>>
           /\ \/ q'[r].chain.rules = OwnRules(r)
              \/ /\ compiled.rev = q[r].snap.rev /\ q[r].site \in DOMAIN compiled.cache
                 /\ q'[r].chain.rules = compiled.cache[q[r].site]
<1>1. OwnRules(r) \in Rules
    BY DEF TypeOK, OwnRules, States, Rules, Snapshots
<1>2. PICK p \in {"lua", "storeRules"}, c \in Rules :
        /\ q' = [q EXCEPT ![r].pc = p, ![r].chain.rules = c]
        /\ \/ c = OwnRules(r)
           \/ /\ compiled.rev = q[r].snap.rev /\ q[r].site \in DOMAIN compiled.cache
              /\ c = compiled.cache[q[r].site]
    <2>1. CASE compiled.rev = q[r].snap.rev /\ q[r].site \in DOMAIN compiled.cache
        <3>1. compiled.cache[q[r].site] \in Rules
            BY <2>1 DEF TypeOK
        <3>2. q' = [q EXCEPT ![r].pc = "lua", ![r].chain.rules = compiled.cache[q[r].site]]
            BY <2>1 DEF GetCompiledRules
        <3>3. QED
            BY <2>1, <3>1, <3>2
    <2>2. CASE ~(compiled.rev = q[r].snap.rev /\ q[r].site \in DOMAIN compiled.cache)
        <3>1. q' = [q EXCEPT ![r].pc = "storeRules", ![r].chain.rules = OwnRules(r)]
            BY <2>2 DEF GetCompiledRules
        <3>2. QED
            BY <1>1, <3>1
    <2>3. QED
        BY <2>1, <2>2
<1> DEFINE d == [q[r].chain EXCEPT !.rules = c]
<1>3. q' = [q EXCEPT ![r] = [q[r] EXCEPT !.pc = p, !.chain = d]]
    BY <1>2, ZenonT(60) DEF TypeOK, States, Chains
<1>4. d \in Chains /\ d.rules = c
    BY DEF TypeOK, States, Chains
<1> HIDE DEF d
<1>5. Moves(r) /\ q'[r].pc = p /\ UNCHANGED <<q[r].snap, q[r].quiet>> /\ q'[r].chain = d
    BY <1>3, <1>4, ZenonT(60) DEF TypeOK, Moves, States, Steps
<1>6. QED
    BY <1>2, <1>4, <1>5

\* Only the place of the request changes.
LEMMA StepEffect ==
    ASSUME TypeOK, NEW r \in Requests, NEW p \in Steps, Step(r, p)
    PROVE  /\ Moves(r) /\ q'[r].pc = p
           /\ UNCHANGED <<q[r].snap, q[r].quiet, q[r].chain, q[r].luaRev, q[r].deps>>
    BY DEF TypeOK, Step, Moves, States

\* What the request remembers of the scripts and of the dependencies.
LEMMA ReadEffect ==
    ASSUME TypeOK, NEW r \in Requests, ReadLuaRevision(r) \/ LoadPhaseDeps(r)
    PROVE  /\ Moves(r)
           /\ q'[r].pc = IF q[r].pc = "lua" THEN "deps" ELSE "lookup"
           /\ UNCHANGED <<q[r].snap, q[r].quiet, q[r].chain>>
           /\ q'[r].luaRev = IF q[r].pc = "lua" THEN lua.gen ELSE q[r].luaRev
           /\ q'[r].deps = IF q[r].pc = "lua" THEN q[r].deps ELSE deps
<1>1. CASE ReadLuaRevision(r)
    BY <1>1 DEF ReadLuaRevision, TypeOK, Moves, States, Steps
<1>2. CASE LoadPhaseDeps(r)
    BY <1>2 DEF LoadPhaseDeps, TypeOK, Moves, States, Steps
<1>3. QED
    BY <1>1, <1>2

\* getOrBuildPhases returns.
LEMMA ReturnEffect ==
    ASSUME TypeOK, NEW r \in Requests, NEW c \in Chains, Return(r, c)
    PROVE  /\ Moves(r) /\ q'[r].pc = "run" /\ q'[r].chain = c
           /\ UNCHANGED <<q[r].snap, q[r].quiet>>
<1>1. NoDeps \in Deps /\ 0 \in Generations
    BY PhaseBounds DEF NoDeps, Deps, Generations
<1>2. PICK l \in Generations, d \in Deps :
        q' = [q EXCEPT ![r].pc = "run", ![r].chain = c, ![r].luaRev = l, ![r].deps = d]
    BY <1>1 DEF Return
<1>3. q' \in [Requests -> States]
    <2>1. q \in [Requests -> States] /\ "run" \in Steps
        BY DEF TypeOK, Steps
    <2>2. QED
        BY <1>2, <2>1, ReturnType
<1>4. /\ \A x \in Requests \ {r} : q'[x] = q[x]
      /\ q'[r].pc = "run" /\ q'[r].chain = c
      /\ UNCHANGED <<q[r].site, q[r].snap, q[r].quiet>>
    BY <1>2 DEF TypeOK, States
<1>5. QED
    BY <1>3, <1>4 DEF Moves

\* The first half of a build looks at the scripts.
LEMMA BuildLuaEffect ==
    ASSUME TypeOK, NEW r \in Requests, BuildLua(r)
    PROVE  /\ Moves(r) /\ q'[r].pc = "limiter"
           /\ UNCHANGED <<q[r].snap, q[r].quiet, q[r].luaRev, q[r].deps>>
           /\ q'[r].chain.rules = q[r].chain.rules
           /\ q'[r].chain.prot = q[r].snap.rev
           /\ q'[r].chain.lua = lua.pre
           /\ q'[r].chain.threshold = q[r].deps.threshold
<1> DEFINE d == [q[r].chain EXCEPT !.lua = lua.pre, !.prot = q[r].snap.rev,
                                   !.threshold = q[r].deps.threshold]
<1>1. q' = [q EXCEPT ![r] = [q[r] EXCEPT !.pc = "limiter", !.chain = d]]
    <2>1. /\ q \in [Requests -> States]
          /\ q' = [q EXCEPT ![r].pc = "limiter", ![r].chain.lua = lua.pre,
                            ![r].chain.prot = q[r].snap.rev,
                            ![r].chain.threshold = q[r].deps.threshold]
        BY DEF BuildLua, TypeOK
    <2>2. QED
        BY <2>1, ZenonT(60)
<1>2. /\ d \in Chains /\ d.rules = q[r].chain.rules /\ d.prot = q[r].snap.rev
      /\ d.lua = lua.pre /\ d.threshold = q[r].deps.threshold
    <2>1. q[r].chain \in Chains /\ q[r].snap \in Snapshots /\ q[r].deps \in Deps
        BY DEF TypeOK, States
    <2>2. q[r].snap.rev \in Revisions /\ q[r].deps.threshold \in Nat /\ lua.pre \in BOOLEAN
        BY <2>1 DEF TypeOK, Snapshots, Deps
    <2>3. QED
        BY <2>1, <2>2, ZenonT(60) DEF Chains
<1> HIDE DEF d
<1>3. /\ Moves(r) /\ q'[r].pc = "limiter" /\ q'[r].chain = d
      /\ UNCHANGED <<q[r].snap, q[r].quiet, q[r].luaRev, q[r].deps>>
    BY <1>1, <1>2 DEF TypeOK, Moves, States, Steps
<1>4. QED
    BY <1>2, <1>3

\* The second half looks at the limiter.
LEMMA BuildLimiterEffect ==
    ASSUME TypeOK, NEW r \in Requests, BuildLimiter(r)
    PROVE  /\ Moves(r) /\ q'[r].pc = "storeChain"
           /\ UNCHANGED <<q[r].snap, q[r].quiet, q[r].luaRev, q[r].deps>>
           /\ q'[r].chain.rules = q[r].chain.rules
           /\ q'[r].chain.prot = q[r].chain.prot
           /\ q'[r].chain.lua = q[r].chain.lua
           /\ q'[r].chain.threshold = q[r].chain.threshold
           /\ q'[r].chain.limiter = limiter
<1> DEFINE d == [q[r].chain EXCEPT !.limiter = limiter]
<1>1. q' = [q EXCEPT ![r] = [q[r] EXCEPT !.pc = "storeChain", !.chain = d]]
    BY ZenonT(60) DEF BuildLimiter, TypeOK, States, Chains
<1>2. /\ d \in Chains /\ d.rules = q[r].chain.rules /\ d.prot = q[r].chain.prot
      /\ d.lua = q[r].chain.lua /\ d.threshold = q[r].chain.threshold
      /\ d.limiter = limiter
    BY DEF TypeOK, States, Chains
<1> HIDE DEF d
<1>3. /\ Moves(r) /\ q'[r].pc = "storeChain" /\ q'[r].chain = d
      /\ UNCHANGED <<q[r].snap, q[r].quiet, q[r].luaRev, q[r].deps>>
    BY <1>1, <1>2, ZenonT(60) DEF TypeOK, Moves, States, Steps
<1>4. QED
    BY <1>2, <1>3

\* A reload that starts overlaps every request.
LEMMA PublishEffect ==
    ASSUME TypeOK, Publish
    PROVE  /\ q' \in [Requests -> States]
           /\ \A r \in Requests :
                 /\ ~q'[r].quiet
                 /\ UNCHANGED <<q[r].pc, q[r].site, q[r].snap, q[r].chain, q[r].luaRev,
                                q[r].deps>>
<1>1. q' = [r \in Requests |-> [q[r] EXCEPT !.quiet = FALSE]]
    BY DEF Publish
<1>2. \A r \in Requests : [q[r] EXCEPT !.quiet = FALSE] \in States
    BY DEF TypeOK, States
<1>3. QED
    BY <1>1, <1>2 DEF TypeOK, States

\* A store keeps the entries of its own revision only.
LEMMA AddedEffect ==
    ASSUME NEW c, NEW rev, NEW site, NEW e, NEW S \in SUBSET Sites, DOMAIN c.cache = S
    PROVE  /\ Added(c, rev, site, e).rev = rev
           /\ DOMAIN Added(c, rev, site, e).cache
                 = (IF c.rev = rev THEN S ELSE {}) \cup {site}
           /\ \A s \in DOMAIN Added(c, rev, site, e).cache :
                 Added(c, rev, site, e).cache[s]
                    = IF s = site THEN e ELSE c.cache[s]
    BY DEF Added

\* The places a request acts from, and what its step leaves alone.
LEMMA Guards ==
    ASSUME NEW r \in Requests
    PROVE  /\ Begin(r) => q[r].pc = "start" /\ UNCHANGED <<published, caches>>
           /\ GetCompiledRules(r) => q[r].pc = "rules" /\ UNCHANGED <<published, caches>>
           /\ StoreCompiledRules(r) =>
                 q[r].pc = "storeRules" /\ UNCHANGED <<published, phases>>
           /\ ReadLuaRevision(r) => q[r].pc = "lua" /\ UNCHANGED <<published, caches>>
           /\ LoadPhaseDeps(r) => q[r].pc = "deps" /\ UNCHANGED <<published, caches>>
           /\ Lookup(r) => q[r].pc = "lookup" /\ UNCHANGED <<published, caches>>
           /\ BuildLua(r) => q[r].pc = "build" /\ UNCHANGED <<published, caches>>
           /\ BuildLimiter(r) => q[r].pc = "limiter" /\ UNCHANGED <<published, caches>>
           /\ StorePhases(r) => q[r].pc = "storeChain" /\ UNCHANGED <<published, compiled>>
    BY DEF Begin, GetCompiledRules, StoreCompiledRules, ReadLuaRevision, LoadPhaseDeps, Lookup,
           BuildLua, BuildLimiter, StorePhases, StoreAs

\* A hit hands out the chain of an entry that is current, a miss starts a build.
LEMMA LookupEffect ==
    ASSUME TypeOK, NEW r \in Requests, Lookup(r)
    PROVE  /\ Moves(r)
           /\ UNCHANGED <<q[r].snap, q[r].quiet>>
           /\ \/ /\ q'[r].pc = "build"
                 /\ UNCHANGED <<q[r].chain, q[r].luaRev, q[r].deps>>
              \/ /\ q'[r].pc = "run"
                 /\ phases.rev = q[r].snap.rev /\ q[r].site \in DOMAIN phases.cache
                 /\ Current(r, phases.cache[q[r].site])
                 /\ q'[r].chain = phases.cache[q[r].site].chain
<1> DEFINE hit == /\ phases.rev = q[r].snap.rev
                  /\ q[r].site \in DOMAIN phases.cache
                  /\ Current(r, phases.cache[q[r].site])
<1>1. CASE hit
    <2>1. phases.cache[q[r].site].chain \in Chains
        BY <1>1 DEF TypeOK, Entries
    <2>2. Return(r, phases.cache[q[r].site].chain)
        BY <1>1 DEF Lookup
    <2>3. QED
        BY <1>1, <2>1, <2>2, ReturnEffect
<1>2. CASE ~hit
    <2>1. Step(r, "build") /\ "build" \in Steps
        BY <1>2 DEF Lookup, Steps
    <2>2. QED
        BY <2>1, StepEffect
<1>3. QED
    BY <1>1, <1>2

\* The compiled rules join those of the same revision, or replace all others.
LEMMA StoreRulesEffect ==
    ASSUME TypeOK, NEW r \in Requests, StoreCompiledRules(r)
    PROVE  /\ Moves(r) /\ q'[r].pc = "lua"
           /\ UNCHANGED <<q[r].snap, q[r].quiet, q[r].chain, q[r].luaRev, q[r].deps>>
           /\ compiled'.rev = q[r].snap.rev
           /\ \A s \in DOMAIN compiled'.cache :
                 \/ s = q[r].site /\ compiled'.cache[s] = q[r].chain.rules
                 \/ /\ compiled.rev = q[r].snap.rev /\ s \in DOMAIN compiled.cache
                    /\ compiled'.cache[s] = compiled.cache[s]
<1>1. Step(r, "lua") /\ "lua" \in Steps
    BY DEF StoreCompiledRules, Steps
<1>2. compiled' = Added(compiled, q[r].snap.rev, q[r].site, q[r].chain.rules)
    BY DEF StoreCompiledRules
<1>3. DOMAIN compiled.cache \in SUBSET Sites
    BY DEF TypeOK
<1>4. QED
    BY <1>1, <1>2, <1>3, StepEffect, AddedEffect

\* So does a phase chain, with what the request had read for it.
LEMMA StorePhasesEffect ==
    ASSUME TypeOK, NEW r \in Requests, StorePhases(r)
    PROVE  /\ Moves(r) /\ q'[r].pc = "run"
           /\ UNCHANGED <<q[r].snap, q[r].quiet, q[r].chain>>
           /\ phases'.rev = q[r].snap.rev
           /\ \A s \in DOMAIN phases'.cache :
                 \/ /\ s = q[r].site /\ phases'.cache[s] \in Entries
                    /\ phases'.cache[s].prot = q[r].snap.rev
                    /\ phases'.cache[s].lua = q[r].luaRev
                    /\ phases'.cache[s].deps = q[r].deps
                    /\ phases'.cache[s].chain = q[r].chain
                 \/ /\ phases.rev = q[r].snap.rev /\ s \in DOMAIN phases.cache
                    /\ phases'.cache[s] = phases.cache[s]
<1> DEFINE e == [prot |-> q[r].snap.rev, lua |-> q[r].luaRev,
                 deps |-> q[r].deps, chain |-> q[r].chain]
<1>1. Return(r, q[r].chain) /\ q[r].chain \in Chains
    BY DEF StorePhases, StoreAs, TypeOK, States
<1>2. phases' = Added(phases, q[r].snap.rev, q[r].site, e)
    BY DEF StorePhases, StoreAs
<1>3. DOMAIN phases.cache \in SUBSET Sites
    BY DEF TypeOK
<1>4. /\ e \in Entries /\ e.prot = q[r].snap.rev /\ e.lua = q[r].luaRev
      /\ e.deps = q[r].deps /\ e.chain = q[r].chain
    BY DEF TypeOK, States, Snapshots, Entries
<1> HIDE DEF e
<1>5. /\ phases'.rev = q[r].snap.rev
      /\ \A s \in DOMAIN phases'.cache :
            \/ s = q[r].site /\ phases'.cache[s] = e
            \/ /\ phases.rev = q[r].snap.rev /\ s \in DOMAIN phases.cache
               /\ phases'.cache[s] = phases.cache[s]
    BY <1>2, <1>3, AddedEffect
<1>6. \A s \in DOMAIN phases'.cache :
            \/ /\ s = q[r].site /\ phases'.cache[s] \in Entries
               /\ phases'.cache[s].prot = q[r].snap.rev
               /\ phases'.cache[s].lua = q[r].luaRev
               /\ phases'.cache[s].deps = q[r].deps
               /\ phases'.cache[s].chain = q[r].chain
            \/ /\ phases.rev = q[r].snap.rev /\ s \in DOMAIN phases.cache
               /\ phases'.cache[s] = phases.cache[s]
    BY <1>4, <1>5
<1>7. QED
    BY <1>1, <1>5, <1>6, ReturnEffect

-----------------------------------------------------------------------------
(* Every action keeps the invariant                                          *)

\* The types hold: the generation never outruns the reloads.
LEMMA TypeStep == TypeOK /\ Settled /\ [Next]_vars => TypeOK'
<1> SUFFICES ASSUME TypeOK, Settled, [Next]_vars PROVE TypeOK'
    OBVIOUS
<1> USE DEF TypeOK
<1>1. CASE Publish
    <2>1. q' \in [Requests -> States]
        BY <1>1, PublishEffect
    <2>2. snap' \in Snapshots /\ reloads' \in 0..MaxReloads
        BY <1>1, PhaseBounds DEF Publish, Snapshots, Revisions
    <2>3. QED
        BY <1>1, <2>1, <2>2 DEF Publish, caches
<1>2. CASE ReconfigureLimiter
    <2>1. limiter' \in BOOLEAN
        BY <1>2, SettingsAssumption DEF ReconfigureLimiter, Snapshots
    <2>2. QED
        BY <1>2, <2>1 DEF ReconfigureLimiter, caches
<1>3. CASE SetBotThreshold
    <2>1. deps' \in Deps
        BY <1>3, PhaseBounds DEF SetBotThreshold, Deps
    <2>2. QED
        BY <1>3, <2>1 DEF SetBotThreshold, caches
<1>4. CASE LuaReload
    <2>1. snap.set.pre \in BOOLEAN
        BY SettingsAssumption DEF Snapshots
    <2>2. lua.gen + 1 \in Generations
        BY <1>4, PhaseBounds DEF LuaReload, Settled, Generations
    <2>3. lua' \in [gen : Generations, pre : BOOLEAN]
        BY <1>4, <2>1, <2>2 DEF LuaReload
    <2>4. QED
        BY <1>4, <2>3 DEF LuaReload, caches
<1>5. ASSUME NEW r \in Requests, Begin(r) PROVE TypeOK'
    <2>1. q' \in [Requests -> States]
        BY <1>5, BeginEffect DEF Moves
    <2>2. QED
        BY <1>5, <2>1 DEF Begin, published, caches
<1>6. ASSUME NEW r \in Requests, GetCompiledRules(r) PROVE TypeOK'
    <2>1. q' \in [Requests -> States]
        BY <1>6, RulesEffect DEF Moves
    <2>2. QED
        BY <1>6, <2>1 DEF GetCompiledRules, published, caches
<1>7. ASSUME NEW r \in Requests, StoreCompiledRules(r) PROVE TypeOK'
    <2>1. /\ q[r] \in States /\ q[r].snap.rev \in Revisions /\ q[r].site \in Sites
          /\ q[r].chain.rules \in Rules
        BY DEF States, Snapshots, Chains
    <2>2. /\ q' \in [Requests -> States]
          /\ compiled'.rev \in Revisions
          /\ \A s \in DOMAIN compiled'.cache : s \in Sites /\ compiled'.cache[s] \in Rules
        BY <1>7, <2>1, StoreRulesEffect DEF Moves
    <2>3. QED
        BY <1>7, <2>2 DEF StoreCompiledRules, published
<1>8. ASSUME NEW r \in Requests, ReadLuaRevision(r) PROVE TypeOK'
    <2>1. q' \in [Requests -> States]
        BY <1>8, ReadEffect DEF Moves
    <2>2. QED
        BY <1>8, <2>1 DEF ReadLuaRevision, published, caches
<1>9. ASSUME NEW r \in Requests, LoadPhaseDeps(r) PROVE TypeOK'
    <2>1. q' \in [Requests -> States]
        BY <1>9, ReadEffect DEF Moves
    <2>2. QED
        BY <1>9, <2>1 DEF LoadPhaseDeps, published, caches
<1>10. ASSUME NEW r \in Requests, Lookup(r) PROVE TypeOK'
    <2>1. q' \in [Requests -> States]
        BY <1>10, LookupEffect DEF Moves
    <2>2. QED
        BY <1>10, <2>1 DEF Lookup, published, caches
<1>11. ASSUME NEW r \in Requests, BuildLua(r) PROVE TypeOK'
    <2>1. q' \in [Requests -> States]
        BY <1>11, BuildLuaEffect DEF Moves
    <2>2. QED
        BY <1>11, <2>1 DEF BuildLua, published, caches
<1>12. ASSUME NEW r \in Requests, BuildLimiter(r) PROVE TypeOK'
    <2>1. q' \in [Requests -> States]
        BY <1>12, BuildLimiterEffect DEF Moves
    <2>2. QED
        BY <1>12, <2>1 DEF BuildLimiter, published, caches
<1>13. ASSUME NEW r \in Requests, StorePhases(r) PROVE TypeOK'
    <2>1. /\ q[r] \in States /\ q[r].snap.rev \in Revisions /\ q[r].site \in Sites
        BY DEF States, Snapshots
    <2>2. /\ q' \in [Requests -> States]
          /\ phases'.rev \in Revisions
          /\ \A s \in DOMAIN phases'.cache : s \in Sites /\ phases'.cache[s] \in Entries
        BY <1>13, <2>1, StorePhasesEffect DEF Moves
    <2>3. QED
        BY <1>13, <2>2 DEF StorePhases, StoreAs, published
<1>14. CASE UNCHANGED vars
    BY <1>14 DEF vars, published, caches
<1>15. QED
    BY <1>1, <1>2, <1>3, <1>4, <1>5, <1>6, <1>7, <1>8, <1>9, <1>10, <1>11, <1>12,
       <1>13, <1>14
    DEF Next, Reload, ProcessResolved

\* The scripts are the last thing a reload moves.
LEMMA SettledStep == TypeOK /\ Settled /\ [Next]_vars => Settled'
<1> SUFFICES ASSUME TypeOK, Settled, [Next]_vars PROVE Settled'
    OBVIOUS
<1> USE DEF TypeOK, Settled, Snapshots, Generations, Revisions
<1>1. CASE Publish
    BY <1>1 DEF Publish, published, caches
<1>2. CASE ReconfigureLimiter
    BY <1>2 DEF ReconfigureLimiter, published, caches
<1>3. CASE SetBotThreshold
    BY <1>3 DEF SetBotThreshold, published, caches
<1>4. CASE LuaReload
    BY <1>4 DEF LuaReload, published, caches
<1>5. ASSUME NEW r \in Requests, Begin(r) PROVE Settled'
    BY <1>5 DEF Begin, published, caches
<1>6. ASSUME NEW r \in Requests, GetCompiledRules(r) PROVE Settled'
    BY <1>6 DEF GetCompiledRules, published, caches
<1>7. ASSUME NEW r \in Requests, StoreCompiledRules(r) PROVE Settled'
    BY <1>7 DEF StoreCompiledRules, published, caches
<1>8. ASSUME NEW r \in Requests, ReadLuaRevision(r) PROVE Settled'
    BY <1>8 DEF ReadLuaRevision, published, caches
<1>9. ASSUME NEW r \in Requests, LoadPhaseDeps(r) PROVE Settled'
    BY <1>9 DEF LoadPhaseDeps, published, caches
<1>10. ASSUME NEW r \in Requests, Lookup(r) PROVE Settled'
    BY <1>10 DEF Lookup, published, caches
<1>11. ASSUME NEW r \in Requests, BuildLua(r) PROVE Settled'
    BY <1>11 DEF BuildLua, published, caches
<1>12. ASSUME NEW r \in Requests, BuildLimiter(r) PROVE Settled'
    BY <1>12 DEF BuildLimiter, published, caches
<1>13. ASSUME NEW r \in Requests, StorePhases(r) PROVE Settled'
    BY <1>13 DEF StorePhases, StoreAs, published, caches
<1>14. CASE UNCHANGED vars
    BY <1>14 DEF vars, published, caches
<1>15. QED
    BY <1>1, <1>2, <1>3, <1>4, <1>5, <1>6, <1>7, <1>8, <1>9, <1>10, <1>11, <1>12,
       <1>13, <1>14
    DEF Next, Reload, ProcessResolved

\* A store drops the entries of any other revision.
LEMMA OwnEntriesStep == TypeOK /\ OwnEntries /\ OwnChain /\ [Next]_vars => OwnEntries'
<1> SUFFICES ASSUME TypeOK, OwnEntries, OwnChain, [Next]_vars PROVE OwnEntries'
    OBVIOUS
<1> USE DEF OwnEntries
<1>1. CASE Publish
    BY <1>1 DEF Publish, published, caches
<1>2. CASE ReconfigureLimiter
    BY <1>2 DEF ReconfigureLimiter, published, caches
<1>3. CASE SetBotThreshold
    BY <1>3 DEF SetBotThreshold, published, caches
<1>4. CASE LuaReload
    BY <1>4 DEF LuaReload, published, caches
<1>5. ASSUME NEW r \in Requests, Begin(r) PROVE OwnEntries'
    BY <1>5 DEF Begin, published, caches
<1>6. ASSUME NEW r \in Requests, GetCompiledRules(r) PROVE OwnEntries'
    BY <1>6, SMTT(40) DEF GetCompiledRules, published, caches
<1>7. ASSUME NEW r \in Requests, StoreCompiledRules(r) PROVE OwnEntries'
    <2>1. q[r].chain.rules = <<q[r].snap.rev, q[r].site>>
        BY <1>7 DEF StoreCompiledRules, OwnChain, OwnRules, WithRules
    <2>2. QED
        BY <1>7, <2>1, StoreRulesEffect DEF StoreCompiledRules
<1>8. ASSUME NEW r \in Requests, ReadLuaRevision(r) PROVE OwnEntries'
    BY <1>8 DEF ReadLuaRevision, published, caches
<1>9. ASSUME NEW r \in Requests, LoadPhaseDeps(r) PROVE OwnEntries'
    BY <1>9 DEF LoadPhaseDeps, published, caches
<1>10. ASSUME NEW r \in Requests, Lookup(r) PROVE OwnEntries'
    BY <1>10 DEF Lookup, published, caches
<1>11. ASSUME NEW r \in Requests, BuildLua(r) PROVE OwnEntries'
    BY <1>11 DEF BuildLua, published, caches
<1>12. ASSUME NEW r \in Requests, BuildLimiter(r) PROVE OwnEntries'
    BY <1>12 DEF BuildLimiter, published, caches
<1>13. ASSUME NEW r \in Requests, StorePhases(r) PROVE OwnEntries'
    <2>1. /\ q[r].chain.rules = <<q[r].snap.rev, q[r].site>>
          /\ q[r].chain.prot = q[r].snap.rev
        BY <1>13 DEF StorePhases, StoreAs, OwnChain, OwnRules, WithRules, WithGen, WithDeps, Built
    <2>2. UNCHANGED compiled
        BY <1>13 DEF StorePhases, StoreAs
    <2>3. QED
        BY <1>13, <2>1, StorePhasesEffect, Guards DEF published
<1>14. CASE UNCHANGED vars
    BY <1>14 DEF vars, published, caches
<1>15. QED
    BY <1>1, <1>2, <1>3, <1>4, <1>5, <1>6, <1>7, <1>8, <1>9, <1>10, <1>11, <1>12,
       <1>13, <1>14
    DEF Next, Reload, ProcessResolved

\* A request takes rules and chains of its own revision only, or makes them itself.
LEMMA OwnChainStep == TypeOK /\ OwnEntries /\ OwnChain /\ [Next]_vars => OwnChain'
<1> SUFFICES ASSUME TypeOK, OwnEntries, OwnChain, [Next]_vars PROVE OwnChain'
    OBVIOUS
<1> USE DEF OwnChain, OwnEntries, OwnRules, WithRules, WithGen, WithDeps, Built
<1>1. CASE Publish
    BY <1>1, PublishEffect DEF Publish, caches
<1>2. CASE ReconfigureLimiter
    BY <1>2 DEF ReconfigureLimiter, published, caches
<1>3. CASE SetBotThreshold
    BY <1>3 DEF SetBotThreshold, published, caches
<1>4. CASE LuaReload
    BY <1>4 DEF LuaReload, published, caches
<1>5. ASSUME NEW r \in Requests, Begin(r) PROVE OwnChain'
    BY <1>5, Guards, BeginEffect DEF published, caches, Moves
<1>6. ASSUME NEW r \in Requests, GetCompiledRules(r) PROVE OwnChain'
    BY <1>6, Guards, RulesEffect DEF published, caches, Moves
<1>7. ASSUME NEW r \in Requests, StoreCompiledRules(r) PROVE OwnChain'
    BY <1>7, Guards, StoreRulesEffect DEF published, caches, Moves
<1>8. ASSUME NEW r \in Requests, ReadLuaRevision(r) PROVE OwnChain'
    BY <1>8, Guards, ReadEffect DEF published, caches, Moves
<1>9. ASSUME NEW r \in Requests, LoadPhaseDeps(r) PROVE OwnChain'
    BY <1>9, Guards, ReadEffect DEF published, caches, Moves
<1>10. ASSUME NEW r \in Requests, Lookup(r) PROVE OwnChain'
    BY <1>10, Guards, LookupEffect DEF published, caches, Moves
<1>11. ASSUME NEW r \in Requests, BuildLua(r) PROVE OwnChain'
    BY <1>11, Guards, BuildLuaEffect DEF published, caches, Moves
<1>12. ASSUME NEW r \in Requests, BuildLimiter(r) PROVE OwnChain'
    BY <1>12, Guards, BuildLimiterEffect DEF published, caches, Moves
<1>13. ASSUME NEW r \in Requests, StorePhases(r) PROVE OwnChain'
    BY <1>13, Guards, StorePhasesEffect DEF published, caches, Moves
<1>14. CASE UNCHANGED vars
    BY <1>14 DEF vars, published, caches
<1>15. QED
    BY <1>1, <1>2, <1>3, <1>4, <1>5, <1>6, <1>7, <1>8, <1>9, <1>10, <1>11, <1>12,
       <1>13, <1>14
    DEF Next, Reload, ProcessResolved

\* No entry of the new generation can exist when a reload ends, and until the next one
\* starts none is made from anything but what is published.
LEMMA FreshEntriesStep ==
    TypeOK /\ Settled /\ FreshEntries /\ FreshBuilds /\ [Next]_vars => FreshEntries'
<1> SUFFICES ASSUME TypeOK, Settled, FreshEntries, FreshBuilds, [Next]_vars PROVE FreshEntries'
    OBVIOUS
<1> USE DEF FreshEntries, ThisGeneration
<1>1. CASE Publish
    BY <1>1 DEF Publish, published, caches
<1>2. CASE ReconfigureLimiter
    BY <1>2 DEF ReconfigureLimiter, published, caches
<1>3. CASE SetBotThreshold
    BY <1>3 DEF SetBotThreshold, published, caches
<1>4. CASE LuaReload
    <2>1. \A s \in DOMAIN phases.cache : phases.cache[s].lua \in Nat
        BY DEF TypeOK, Entries, Generations
    <2>2. lua'.gen = lua.gen + 1 /\ lua.gen \in Nat
        BY <1>4 DEF LuaReload, TypeOK, Generations
    <2>3. QED
        BY <1>4, <2>1, <2>2 DEF LuaReload, caches
<1>5. ASSUME NEW r \in Requests, Begin(r) PROVE FreshEntries'
    BY <1>5 DEF Begin, published, caches
<1>6. ASSUME NEW r \in Requests, GetCompiledRules(r) PROVE FreshEntries'
    BY <1>6 DEF GetCompiledRules, published, caches
<1>7. ASSUME NEW r \in Requests, StoreCompiledRules(r) PROVE FreshEntries'
    BY <1>7 DEF StoreCompiledRules, published, caches
<1>8. ASSUME NEW r \in Requests, ReadLuaRevision(r) PROVE FreshEntries'
    BY <1>8 DEF ReadLuaRevision, published, caches
<1>9. ASSUME NEW r \in Requests, LoadPhaseDeps(r) PROVE FreshEntries'
    BY <1>9 DEF LoadPhaseDeps, published, caches
<1>10. ASSUME NEW r \in Requests, Lookup(r) PROVE FreshEntries'
    BY <1>10 DEF Lookup, published, caches
<1>11. ASSUME NEW r \in Requests, BuildLua(r) PROVE FreshEntries'
    BY <1>11 DEF BuildLua, published, caches
<1>12. ASSUME NEW r \in Requests, BuildLimiter(r) PROVE FreshEntries'
    BY <1>12 DEF BuildLimiter, published, caches
<1>13. ASSUME NEW r \in Requests, StorePhases(r) PROVE FreshEntries'
    <2>1. /\ q[r].luaRev <= lua.gen /\ q[r].chain.threshold = q[r].deps.threshold
          /\ ThisGeneration(q[r].luaRev, q[r].chain.lua = lua.pre /\ q[r].chain.limiter = limiter)
        BY <1>13 DEF StorePhases, StoreAs, FreshBuilds, WithGen, WithDeps, Built
    <2>2. UNCHANGED published
        BY <1>13 DEF StorePhases, StoreAs
    <2>3. QED
        BY <2>1, <2>2, <1>13, StorePhasesEffect DEF published
<1>14. CASE UNCHANGED vars
    BY <1>14 DEF vars, published, caches
<1>15. QED
    BY <1>1, <1>2, <1>3, <1>4, <1>5, <1>6, <1>7, <1>8, <1>9, <1>10, <1>11, <1>12,
       <1>13, <1>14
    DEF Next, Reload, ProcessResolved

\* So it is with what a request builds.
LEMMA FreshBuildsStep == TypeOK /\ Settled /\ FreshBuilds /\ [Next]_vars => FreshBuilds'
<1> SUFFICES ASSUME TypeOK, Settled, FreshBuilds, [Next]_vars PROVE FreshBuilds'
    OBVIOUS
<1> USE DEF FreshBuilds, ThisGeneration, WithGen, WithDeps, Built
<1>1. CASE Publish
    BY <1>1, PublishEffect DEF Publish, caches
<1>2. CASE ReconfigureLimiter
    BY <1>2 DEF ReconfigureLimiter, published, caches
<1>3. CASE SetBotThreshold
    BY <1>3 DEF SetBotThreshold, published, caches
<1>4. CASE LuaReload
    <2>1. \A r \in Requests : q[r].luaRev \in Nat
        BY DEF TypeOK, States, Generations
    <2>2. lua'.gen = lua.gen + 1 /\ lua.gen \in Nat
        BY <1>4 DEF LuaReload, TypeOK, Generations
    <2>3. QED
        BY <1>4, <2>1, <2>2 DEF LuaReload, caches
<1>5. ASSUME NEW r \in Requests, Begin(r) PROVE FreshBuilds'
    BY <1>5, Guards, BeginEffect DEF published, caches, Moves
<1>6. ASSUME NEW r \in Requests, GetCompiledRules(r) PROVE FreshBuilds'
    BY <1>6, Guards, RulesEffect DEF published, caches, Moves
<1>7. ASSUME NEW r \in Requests, StoreCompiledRules(r) PROVE FreshBuilds'
    BY <1>7, Guards, StoreRulesEffect DEF published, caches, Moves
<1>8. ASSUME NEW r \in Requests, ReadLuaRevision(r) PROVE FreshBuilds'
    <2>1. lua.gen \in Nat
        BY DEF TypeOK, Generations
    <2>2. QED
        BY <1>8, <2>1, ReadEffect, Guards DEF published, Moves
<1>9. ASSUME NEW r \in Requests, LoadPhaseDeps(r) PROVE FreshBuilds'
    BY <1>9, Guards, ReadEffect DEF published, caches, Moves
<1>10. ASSUME NEW r \in Requests, Lookup(r) PROVE FreshBuilds'
    BY <1>10, Guards, LookupEffect DEF published, caches, Moves
<1>11. ASSUME NEW r \in Requests, BuildLua(r) PROVE FreshBuilds'
    BY <1>11, Guards, BuildLuaEffect DEF published, caches, Moves
<1>12. ASSUME NEW r \in Requests, BuildLimiter(r) PROVE FreshBuilds'
    BY <1>12, Guards, BuildLimiterEffect DEF published, caches, Moves
<1>13. ASSUME NEW r \in Requests, StorePhases(r) PROVE FreshBuilds'
    BY <1>13, Guards, StorePhasesEffect DEF published, caches, Moves
<1>14. CASE UNCHANGED vars
    BY <1>14 DEF vars, published, caches
<1>15. QED
    BY <1>1, <1>2, <1>3, <1>4, <1>5, <1>6, <1>7, <1>8, <1>9, <1>10, <1>11, <1>12,
       <1>13, <1>14
    DEF Next, Reload, ProcessResolved

\* As long as no reload starts, nothing a request has read changes.
LEMMA StillSoStep ==
    TypeOK /\ Settled /\ FreshEntries /\ FreshBuilds /\ StillSo /\ [Next]_vars => StillSo'
<1> SUFFICES ASSUME TypeOK, Settled, FreshEntries, FreshBuilds, StillSo, [Next]_vars
             PROVE  StillSo'
    OBVIOUS
<1> USE DEF StillSo, WithGen, WithDeps, Built
<1>1. CASE Publish
    BY <1>1, PublishEffect DEF Publish, caches
<1>2. CASE ReconfigureLimiter
    BY <1>2 DEF ReconfigureLimiter, published, caches
<1>3. CASE SetBotThreshold
    BY <1>3 DEF SetBotThreshold, published, caches
<1>4. CASE LuaReload
    BY <1>4 DEF LuaReload, published, caches
<1>5. ASSUME NEW r \in Requests, Begin(r) PROVE StillSo'
    BY <1>5, Guards, BeginEffect DEF published, caches, Moves
<1>6. ASSUME NEW r \in Requests, GetCompiledRules(r) PROVE StillSo'
    BY <1>6, Guards, RulesEffect DEF published, caches, Moves
<1>7. ASSUME NEW r \in Requests, StoreCompiledRules(r) PROVE StillSo'
    BY <1>7, Guards, StoreRulesEffect DEF published, caches, Moves
<1>8. ASSUME NEW r \in Requests, ReadLuaRevision(r) PROVE StillSo'
    BY <1>8, Guards, ReadEffect DEF published, caches, Moves
<1>9. ASSUME NEW r \in Requests, LoadPhaseDeps(r) PROVE StillSo'
    BY <1>9, Guards, ReadEffect DEF published, caches, Moves
<1>10. ASSUME NEW r \in Requests, Lookup(r) PROVE StillSo'
    <2>1. CASE q'[r].pc = "build"
        BY <1>10, <2>1, LookupEffect, Guards DEF published, Moves
    <2>2. CASE q'[r].pc # "build"
        <3>1. /\ q[r].site \in DOMAIN phases.cache
              /\ Current(r, phases.cache[q[r].site])
              /\ q'[r].chain = phases.cache[q[r].site].chain
              /\ UNCHANGED <<q[r].snap, q[r].quiet>> /\ Moves(r) /\ q'[r].pc = "run"
            BY <1>10, <2>2, LookupEffect
        <3>2. q[r].quiet => /\ q'[r].chain.lua = lua.pre /\ q'[r].chain.limiter = limiter
                            /\ q'[r].chain.threshold = deps.threshold
            BY <1>10, <3>1 DEF Lookup, Current, FreshEntries, ThisGeneration
        <3>3. QED
            BY <1>10, <3>1, <3>2, Guards DEF published, Moves
    <2>3. QED
        BY <2>1, <2>2
<1>11. ASSUME NEW r \in Requests, BuildLua(r) PROVE StillSo'
    BY <1>11, Guards, BuildLuaEffect DEF published, caches, Moves
<1>12. ASSUME NEW r \in Requests, BuildLimiter(r) PROVE StillSo'
    BY <1>12, Guards, BuildLimiterEffect DEF published, caches, Moves
<1>13. ASSUME NEW r \in Requests, StorePhases(r) PROVE StillSo'
    <2>1. q[r].quiet => /\ q[r].chain.lua = lua.pre /\ q[r].chain.limiter = limiter
                        /\ q[r].chain.threshold = deps.threshold
        BY <1>13 DEF StorePhases, StoreAs, FreshBuilds, ThisGeneration
    <2>2. UNCHANGED published
        BY <1>13 DEF StorePhases, StoreAs
    <2>3. QED
        BY <1>13, <2>1, <2>2, StorePhasesEffect, Guards DEF published, Moves
<1>14. CASE UNCHANGED vars
    BY <1>14 DEF vars, published, caches
<1>15. QED
    BY <1>1, <1>2, <1>3, <1>4, <1>5, <1>6, <1>7, <1>8, <1>9, <1>10, <1>11, <1>12,
       <1>13, <1>14
    DEF Next, Reload, ProcessResolved

-----------------------------------------------------------------------------
(* The invariant and what follows from it                                    *)

\* The first snapshot is published with everything that derives from it, and the
\* caches are empty.
LEMMA InitIInv == Init => IInv
<1> SUFFICES ASSUME Init PROVE IInv
    OBVIOUS
<1>1. PICK s0 \in Settings : /\ snap = [rev |-> 1, set |-> s0]
                             /\ lua = [gen |-> 0, pre |-> s0.pre]
                             /\ limiter = s0.limit
    BY DEF Init
<1>2. PICK site \in [Requests -> Sites] :
          q = [r \in Requests |->
                 [pc |-> "start", site |-> site[r], snap |-> snap,
                  chain |-> NoChain(site[r]), luaRev |-> 0, deps |-> NoDeps,
                  quiet |-> FALSE]]
    BY DEF Init
<1>3. /\ 1 \in Revisions /\ 0 \in Generations /\ NoDeps \in Deps /\ snap \in Snapshots
      /\ s0.pre \in BOOLEAN /\ s0.limit \in BOOLEAN
    BY <1>1, PhaseBounds, SettingsAssumption
    DEF Revisions, Generations, NoDeps, Deps, Snapshots
<1>4. \A s \in Sites : NoChain(s) \in Chains
    BY <1>3 DEF NoChain, Chains, Rules
<1>5. \A r \in Requests : q[r] \in States
    BY <1>2, <1>3, <1>4 DEF States, Steps
<1>6. q \in [Requests -> States]
    BY <1>2, <1>5
<1>7. DOMAIN compiled.cache = {} /\ DOMAIN phases.cache = {}
    BY DEF Init
<1>8. TypeOK
    <2>1. deps \in Deps /\ reloads \in 0..MaxReloads
        BY PhaseBounds DEF Init, Deps, DefaultThreshold
    <2>2. QED
        BY <1>1, <1>3, <1>6, <1>7, <2>1 DEF Init, TypeOK
<1>9. \A r \in Requests : q[r].pc = "start" /\ ~q[r].quiet
    BY <1>2
<1>10. Settled
    BY <1>1 DEF Init, Settled
<1>11. QED
    BY <1>7, <1>8, <1>9, <1>10
    DEF IInv, OwnEntries, OwnChain, FreshEntries, FreshBuilds, StillSo, WithRules, WithGen,
        WithDeps, Built

\* Whatever requests and reloads do, in any order, the invariant holds.
THEOREM Inductive == Spec => []IInv
<1>1. IInv /\ [Next]_vars => IInv'
    BY TypeStep, SettledStep, OwnEntriesStep, OwnChainStep, FreshEntriesStep,
       FreshBuildsStep, StillSoStep DEF IInv
<1>2. QED
    BY InitIInv, <1>1, PTL DEF Spec

\* Every variable keeps its type, whatever requests and reloads do.
THEOREM TypeCorrect == Spec => []TypeOK
<1>1. IInv => TypeOK
    BY DEF IInv
<1>2. QED
    BY Inductive, <1>1, PTL

\* getCompiledRules and getOrBuildPhases hand a request the rules and the chain of
\* the snapshot it took, although both caches are overwritten by requests of other
\* revisions while it runs.
THEOREM OwnSnapshot == Spec => []ChainOwnSnapshot
<1>1. IInv => ChainOwnSnapshot
    BY DEF IInv, OwnChain, ChainOwnSnapshot, WithRules
<1>2. QED
    BY Inductive, <1>1, PTL

\* A request no reload overlaps runs the chain of the published configuration: a
\* chain built from half of a reload is labelled with the generation before it.
THEOREM QuietFresh == Spec => []QuietChainFresh
<1>1. IInv => QuietChainFresh
    <2> SUFFICES ASSUME IInv, NEW r \in Requests, q[r].pc = "run", q[r].quiet
                 PROVE  q[r].chain = [rules |-> <<snap.rev, q[r].site>>, prot |-> snap.rev,
                                      lua |-> snap.set.pre, limiter |-> snap.set.limit,
                                      threshold |-> deps.threshold]
        BY DEF QuietChainFresh
    <2>1. reload = "idle" /\ q[r].snap = snap
        BY DEF IInv, StillSo
    <2>2. /\ q[r].chain.rules = <<snap.rev, q[r].site>> /\ q[r].chain.prot = snap.rev
        BY <2>1 DEF IInv, OwnChain, OwnRules, WithRules
    <2>3. /\ q[r].chain.lua = snap.set.pre /\ q[r].chain.limiter = snap.set.limit
          /\ q[r].chain.threshold = deps.threshold
        BY <2>1 DEF IInv, StillSo, Settled
    <2>4. q[r].chain \in Chains
        BY DEF IInv, TypeOK, States
    <2>5. QED
        BY <2>2, <2>3, <2>4 DEF Chains
<1>2. QED
    BY Inductive, <1>1, PTL
=============================================================================
