-------------------------- MODULE ConfigReloadProofs --------------------------
(***************************************************************************)
(* Proofs about ConfigReload for any number of nodes, changes, tables and  *)
(* Redis servers and any bounds on faults and restarts.                    *)
(***************************************************************************)
EXTENDS ConfigReload, TLAPS

\* The steps between reading the revision and storing the snapshot.
Preparing == {"build", "check", "prepublish", "recheck", "publish"}

\* A change is committed before its reload can bump the revision for it.
WrittenFirst ==
    /\ \A e \in Edits : req[e] # "new" => \A t \in Tables : e \in db[t]
    /\ \A n \in Nodes : owner[n] \in Reqs =>
          req[owner[n]] = "running" /\ Home[owner[n]] = n
    /\ \A e \in Edits : bumped[e] # 0 => req[e] # "new"
    /\ \A e \in Edits : bumped[e] <= rev

\* s holds, in the tables T, every change bumped to its revision or before.
Holds(s, T) ==
    /\ s.rev <= rev
    /\ \A e \in Edits : bumped[e] # 0 /\ bumped[e] <= s.rev => \A t \in T : e \in s.tab[t]

\* The tables a snapshot in preparation has read so far.
Read(n) == IF step[n] = "build" THEN Tables \ todo[n] ELSE Tables

Labelled ==
    \A n \in Nodes :
        /\ Holds(holder[n], Tables)
        /\ \A s \in cache[n] : Holds(s, Tables)
        /\ step[n] \in Preparing => Holds(building[n], Read(n))

\* What an answered change and the reload of an unanswered one can rely on.
Answered ==
    /\ \A e \in Edits : req[e] = "ok" =>
          bumped[e] # 0 /\ (holder[Home[e]].rev # 0 => bumped[e] <= holder[Home[e]].rev)
    /\ \A n \in Nodes : owner[n] \in Edits =>
          /\ step[n] # "bump" => bumped[owner[n]] # 0
          /\ step[n] \in Preparing => bumped[owner[n]] <= building[n].rev
          /\ step[n] \in {"apply", "redis", "ensure", "ensureLast", "announce"} =>
                bumped[owner[n]] <= holder[n].rev
          /\ step[n] # "switchOnly"
    /\ \A n \in Nodes : step[n] \in Preparing =>
          \A e \in Edits : Home[e] = n /\ req[e] = "ok" => bumped[e] <= building[n].rev

\* Both the published snapshot and the one about to be published have the
\* executor their scripts need.
Scripts ==
    \A n \in Nodes :
        /\ owner[n] = "start" => step[n] \in Preparing \cup {"rev", "apply"}
        /\ owner[n] # "start" /\ HasScripts(holder[n]) => js[n]
        /\ owner[n] # "start" /\ step[n] \in {"recheck", "publish"} /\ HasScripts(building[n]) =>
              js[n]

\* The steps between loading the IP lists and the answer.
Applied == {"redis", "ensure", "ensureLast", "announce"}

\* The reload of a change has loaded it with the IP lists when it answers.
Lists ==
    /\ IPListsLive
    /\ faults = 0 => \A n \in Nodes : owner[n] \in Edits /\ step[n] \in Applied =>
                        owner[n] \in ipRep[n]

IInv == TypeOK /\ WrittenFirst /\ Labelled /\ Answered /\ Scripts /\ Lists

-----------------------------------------------------------------------------
(* What the parts that several actions share do to the state                 *)

\* A snapshot with nothing in it is a snapshot.
LEMMA BlankType == \A r \in Nat : Blank(r) \in Snapshots
    BY DEF Blank, Snapshots

\* A reload that ends frees the node and answers the request it ran for.
LEMMA FinishEffect ==
    ASSUME TypeOK, NEW n \in Nodes, NEW r \in {"ok", "err"}, Finish(n, r)
    PROVE  /\ step' \in [Nodes -> Steps]
           /\ owner' \in [Nodes -> Reqs \cup {"none", "sync", "start"}]
           /\ req' \in [Reqs -> {"new", "reload", "running", "ok", "err"}]
           /\ step' = [step EXCEPT ![n] = "idle"]
           /\ owner' = [owner EXCEPT ![n] = "none"]
           /\ \A q \in Reqs : req'[q] = IF q = owner[n] THEN r ELSE req[q]
    BY DEF Finish, Goto, TypeOK, Steps

\* A reload that fails does the same with an error, unless the process starts.
LEMMA FailEffect ==
    ASSUME TypeOK, NEW n \in Nodes, Fail(n)
    PROVE  /\ faults' \in 0..MaxFaults
           /\ step' \in [Nodes -> Steps]
           /\ owner' \in [Nodes -> Reqs \cup {"none", "sync", "start"}]
           /\ req' \in [Reqs -> {"new", "reload", "running", "ok", "err"}]
           /\ step' = [step EXCEPT ![n] = IF owner[n] = "start" THEN "rev" ELSE "idle"]
           /\ owner' = [owner EXCEPT ![n] = IF owner[n] = "start" THEN "start" ELSE "none"]
           /\ \A q \in Reqs : req'[q] = IF q = owner[n] THEN "err" ELSE req[q]
<1>1. faults' \in 0..MaxFaults
    BY BoundsAssumption DEF Fail, Fault, TypeOK
<1>2. CASE owner[n] = "start" /\ Goto(n, "rev") /\ UNCHANGED <<owner, req>>
    BY <1>1, <1>2, NamesAssumption DEF Goto, TypeOK, Steps
<1>3. CASE owner[n] # "start" /\ Finish(n, "err")
    BY <1>1, <1>3, FinishEffect
<1>4. QED
    BY <1>2, <1>3 DEF Fail

\* Connecting to a server keeps the types.
LEMMA ConnectTypes ==
    ASSUME TypeOK, NEW n \in Nodes, Connect(n)
    PROVE  /\ bus' \in [Nodes -> Buses \cup {Off}]
           /\ subscribed' \in [Nodes -> Buses \cup {Off}]
           /\ inbox' \in [Nodes -> Nat]
<1>1. PICK kept \in 0..inbox[n] : inbox' = [inbox EXCEPT ![n] = kept]
    BY DEF Connect
<1>2. kept \in Nat
    BY <1>1 DEF TypeOK
<1>3. inbox' \in [Nodes -> Nat]
    BY <1>1, <1>2 DEF TypeOK
<1>4. QED
    BY <1>3 DEF Connect, TypeOK

\* So does sending a message, or losing it.
LEMMA PublishTypes ==
    ASSUME TypeOK, NEW n \in Nodes, NEW called, PublishReload(n, called)
    PROVE  inbox' \in [Nodes -> Nat] /\ faults' \in 0..MaxFaults
<1>1. CASE called /\ Announce(n) /\ UNCHANGED faults
    BY <1>1 DEF Announce, TypeOK
<1>2. CASE called /\ Fault /\ UNCHANGED inbox
    BY <1>2, BoundsAssumption DEF Fault, TypeOK
<1>3. CASE ~called /\ UNCHANGED <<inbox, faults>>
    BY <1>3 DEF TypeOK
<1>4. QED
    BY <1>1, <1>2, <1>3 DEF PublishReload

\* So does loading the IP lists.
LEMMA LoadTypes ==
    ASSUME TypeOK, NEW n \in Nodes, LoadIPLists(n)
    PROVE  ipRep' \in [Nodes -> SUBSET Edits] /\ faults' \in 0..MaxFaults
<1>1. UNION {db[t] : t \in Tables} \in SUBSET Edits
    BY DEF TypeOK
<1>2. CASE ipRep' = [ipRep EXCEPT ![n] = UNION {db[t] : t \in Tables}] /\ UNCHANGED faults
    <2> DEFINE u == UNION {db[t] : t \in Tables}
    <2>1. u \in SUBSET Edits /\ ipRep' = [ipRep EXCEPT ![n] = u] /\ faults' = faults
        BY <1>1, <1>2
    <2> HIDE DEF u
    <2>2. QED
        BY <2>1 DEF TypeOK
<1>3. CASE Fault /\ UNCHANGED ipRep
    BY <1>3, BoundsAssumption DEF Fault, TypeOK
<1>4. QED
    BY <1>2, <1>3 DEF LoadIPLists

\* A reload goes on with a cached snapshot of the revision in the row, or with
\* an empty one to be built.
LEMMA ReadEffect ==
    ASSUME TypeOK, NEW n \in Nodes, ReadRevision(n)
    PROVE  \E s \in Snapshots, T \in SUBSET Tables :
             /\ s.rev = rev
             /\ building' = [building EXCEPT ![n] = s]
             /\ todo' = [todo EXCEPT ![n] = T]
             /\ \/ s \in cache[n] /\ step' = [step EXCEPT ![n] = "check"]
                \/ T = Tables /\ step' = [step EXCEPT ![n] = "build"]
<1>1. CASE /\ \E s \in cache[n] : s.rev = rev /\ building' = [building EXCEPT ![n] = s]
           /\ Goto(n, "check")
           /\ UNCHANGED todo
    <2>1. PICK s \in cache[n] : s.rev = rev /\ building' = [building EXCEPT ![n] = s]
        BY <1>1
    <2>2. s \in Snapshots
        BY <2>1 DEF TypeOK
    <2>3. todo' = [todo EXCEPT ![n] = todo[n]] /\ todo[n] \in SUBSET Tables
        BY <1>1 DEF TypeOK
    <2>4. QED
        BY <1>1, <2>1, <2>2, <2>3 DEF Goto
<1>2. CASE /\ building' = [building EXCEPT ![n] = Blank(rev)]
           /\ todo' = [todo EXCEPT ![n] = Tables]
           /\ Goto(n, "build")
    <2>1. Blank(rev) \in Snapshots /\ Blank(rev).rev = rev
        BY BlankType DEF Blank, TypeOK
    <2>2. QED
        BY <1>2, <2>1 DEF Goto
<1>3. QED
    BY <1>1, <1>2 DEF ReadRevision

\* Reading a table changes that table of the snapshot only.
LEMMA BuildEffect ==
    ASSUME TypeOK, NEW n \in Nodes, NEW t \in Tables, BuildTable(n, t)
    PROVE  \E s \in Snapshots :
             /\ s.rev = building[n].rev
             /\ s.tab = [building[n].tab EXCEPT ![t] = db[t]]
             /\ building' = [building EXCEPT ![n] = s]
<1> DEFINE s == [building[n] EXCEPT !.tab[t] = db[t]]
<1>1. building[n] \in Snapshots /\ db[t] \in SUBSET Edits
    BY DEF TypeOK
<1>2. s \in Snapshots /\ s.rev = building[n].rev /\ s.tab = [building[n].tab EXCEPT ![t] = db[t]]
    BY <1>1 DEF Snapshots
<1>3. building' = [building EXCEPT ![n] = s]
    BY DEF BuildTable
<1>4. QED
    BY <1>2, <1>3

-----------------------------------------------------------------------------
(* Every action keeps the types                                              *)

\* No step of a node or of an admin request leaves the types.
LEMMA TypeStep == TypeOK /\ [Next]_vars => TypeOK'
<1> SUFFICES ASSUME TypeOK, [Next]_vars PROVE TypeOK'
    OBVIOUS
<1> USE NamesAssumption, BoundsAssumption
<1> USE DEF dbVars, reloadVars, nodeVars, busVars, bounds, TypeOK, Steps, Reqs
<1>1. ASSUME NEW e \in Edits, Write(e) PROVE TypeOK'
    BY <1>1 DEF Write
<1>2. ASSUME NEW w \in Switches, WriteRedis(w) PROVE TypeOK'
    BY <1>2 DEF WriteRedis
<1>3. ASSUME NEW q \in Reqs, Lock(q) PROVE TypeOK'
    BY <1>3 DEF Lock, Goto
<1>4. ASSUME NEW n \in Nodes, LockSync(n) PROVE TypeOK'
    BY <1>4 DEF LockSync, Goto
<1>5. ASSUME NEW n \in Nodes, BumpRevision(n) PROVE TypeOK'
    BY <1>5 DEF BumpRevision, Goto, Increment
<1>6. ASSUME NEW n \in Nodes, ReadRevision(n) PROVE TypeOK'
    <2>1. PICK s \in Snapshots, T \in SUBSET Tables :
            /\ building' = [building EXCEPT ![n] = s]
            /\ todo' = [todo EXCEPT ![n] = T]
            /\ \/ step' = [step EXCEPT ![n] = "check"]
               \/ step' = [step EXCEPT ![n] = "build"]
        BY <1>6, ReadEffect
    <2>2. UNCHANGED <<dbVars, req, owner, nodeVars, busVars, bounds>>
        BY <1>6 DEF ReadRevision
    <2>3. QED
        BY <2>1, <2>2
<1>7. ASSUME NEW n \in Nodes, NEW t \in Tables, BuildTable(n, t) PROVE TypeOK'
    <2>1. PICK s \in Snapshots : building' = [building EXCEPT ![n] = s]
        BY <1>7, BuildEffect
    <2>2. /\ todo' = [todo EXCEPT ![n] = @ \ {t}]
          /\ UNCHANGED <<dbVars, req, step, owner, nodeVars, busVars, bounds>>
        BY <1>7 DEF BuildTable
    <2>3. QED
        BY <2>1, <2>2
<1>8. ASSUME NEW n \in Nodes, BuildDone(n) PROVE TypeOK'
    BY <1>8 DEF BuildDone, Goto
<1>9. ASSUME NEW n \in Nodes, Check(n) \/ Recheck(n) PROVE TypeOK'
    BY <1>9 DEF Check, Recheck, Goto
<1>10. ASSUME NEW n \in Nodes, PrePublish(n) PROVE TypeOK'
    BY <1>10 DEF PrePublish, Goto
<1>11. ASSUME NEW n \in Nodes, Publish(n) PROVE TypeOK'
    BY <1>11 DEF Publish, SetSnapshot, StoreIfNewer, Newer, Goto
<1>12. ASSUME NEW n \in Nodes, Apply(n) PROVE TypeOK'
    <2>1. ipRep' \in [Nodes -> SUBSET Edits] /\ faults' \in 0..MaxFaults
        BY <1>12, LoadTypes DEF Apply
    <2>2. QED
        BY <1>12, <2>1 DEF Apply, Goto
<1>13. ASSUME NEW n \in Nodes, Start(n) PROVE TypeOK'
    <2>1. ipRep' \in [Nodes -> SUBSET Edits] /\ faults' \in 0..MaxFaults
        BY <1>13, LoadTypes DEF Start
    <2>2. QED
        BY <1>13, <2>1 DEF Start, Goto, HasScripts
<1>14. ASSUME NEW n \in Nodes, RedisStep(n) PROVE TypeOK'
    <2>1. inbox' \in [Nodes -> Nat] /\ faults' \in 0..MaxFaults
        BY <1>14, PublishTypes DEF RedisStep
    <2>2. step' \in [Nodes -> Steps]
        BY <1>14 DEF RedisStep, Goto
    <2>3. UNCHANGED <<dbVars, req, owner, building, todo, nodeVars, bus, subscribed, restarts>>
        BY <1>14 DEF RedisStep
    <2>4. QED
        BY <2>1, <2>2, <2>3
<1>15. ASSUME NEW n \in Nodes, EnsureRedis(n) PROVE TypeOK'
    <2>1. /\ bus' \in [Nodes -> Buses \cup {Off}]
          /\ subscribed' \in [Nodes -> Buses \cup {Off}]
          /\ inbox' \in [Nodes -> Nat]
        <3>1. CASE Connect(n)
            BY <3>1, ConnectTypes
        <3>2. CASE UNCHANGED busVars
            BY <3>2
        <3>3. QED
            BY <1>15, <3>1, <3>2 DEF EnsureRedis
    <2>2. UNCHANGED <<dbVars, building, todo, nodeVars, bounds>>
        BY <1>15 DEF EnsureRedis
    <2>3. CASE Goto(n, "announce") /\ UNCHANGED <<owner, req>>
        BY <2>1, <2>2, <2>3 DEF Goto
    <2>4. CASE Finish(n, "ok")
        BY <2>1, <2>2, <2>4, FinishEffect
    <2>5. QED
        BY <1>15, <2>3, <2>4 DEF EnsureRedis
<1>16. ASSUME NEW n \in Nodes, SwitchOnly(n) PROVE TypeOK'
    <2>1. Connect(n) /\ Finish(n, "ok") /\ UNCHANGED <<dbVars, building, todo, nodeVars, bounds>>
        BY <1>16 DEF SwitchOnly
    <2>2. QED
        BY <2>1, ConnectTypes, FinishEffect
<1>17. ASSUME NEW n \in Nodes, AnnounceStep(n) PROVE TypeOK'
    <2>1. /\ Finish(n, "ok")
          /\ UNCHANGED <<dbVars, building, todo, nodeVars, bus, subscribed, restarts>>
        BY <1>17 DEF AnnounceStep
    <2>2. inbox' \in [Nodes -> Nat] /\ faults' \in 0..MaxFaults
        BY <1>17, PublishTypes DEF AnnounceStep
    <2>3. QED
        BY <2>1, <2>2, FinishEffect
<1>18. ASSUME NEW n \in Nodes, Subscribe(n) \/ DryRun(n) PROVE TypeOK'
    BY <1>18 DEF Subscribe, DryRun
<1>19. ASSUME NEW n \in Nodes, BumpFails(n) PROVE TypeOK'
    <2>1. Fail(n) /\ UNCHANGED <<db, redisCfg, building, todo, nodeVars, busVars, restarts>>
        BY <1>19 DEF BumpFails
    <2>2. rev' \in Nat /\ bumped' \in [Edits -> Nat]
        BY <1>19 DEF BumpFails, Increment
    <2>3. QED
        BY <2>1, <2>2, FailEffect
<1>20. ASSUME NEW n \in Nodes, ReloadFails(n) \/ SwitchFails(n) PROVE TypeOK'
    <2>1. Fail(n) /\ UNCHANGED <<dbVars, building, todo, nodeVars, busVars, restarts>>
        BY <1>20 DEF ReloadFails, SwitchFails
    <2>2. QED
        BY <2>1, FailEffect
<1>21. ASSUME NEW n \in Nodes, Evict(n) PROVE TypeOK'
    BY <1>21 DEF Evict, Fault
<1>22. ASSUME NEW n \in Nodes, Restart(n) PROVE TypeOK'
    <2>1. NoSnapshot \in Snapshots
        BY BlankType DEF NoSnapshot
    <2>2. /\ holder' \in [Nodes -> Snapshots] /\ cache' \in [Nodes -> SUBSET Snapshots]
          /\ js' \in [Nodes -> BOOLEAN] /\ ipRep' \in [Nodes -> SUBSET Edits]
        BY <1>22, <2>1 DEF Restart
    <2>3. /\ step' \in [Nodes -> Steps]
          /\ owner' \in [Nodes -> Reqs \cup {"none", "sync", "start"}]
          /\ req' \in [Reqs -> {"new", "reload", "running", "ok", "err"}]
        BY <1>22 DEF Restart, Goto
    <2>4. /\ bus' \in [Nodes -> Buses \cup {Off}] /\ subscribed' \in [Nodes -> Buses \cup {Off}]
          /\ inbox' \in [Nodes -> Nat]
        BY <1>22 DEF Restart
    <2>5. faults' \in 0..MaxFaults /\ restarts' \in 0..MaxRestarts
        BY <1>22 DEF Restart, Fault
    <2>6. UNCHANGED <<dbVars, building, todo>>
        BY <1>22 DEF Restart
    <2>7. QED
        BY <2>2, <2>3, <2>4, <2>5, <2>6
<1>23. CASE UNCHANGED vars
    BY <1>23 DEF vars
<1>24. QED
    BY <1>1, <1>2, <1>3, <1>4, <1>5, <1>6, <1>7, <1>8, <1>9, <1>10, <1>11, <1>12, <1>13,
       <1>14, <1>15, <1>16, <1>17, <1>18, <1>19, <1>20, <1>21, <1>22, <1>23
    DEF Next, Reload, Disturbance

-----------------------------------------------------------------------------
(* Bumps follow commits, and no revision is ahead of the row                 *)

\* Ending a reload leaves no request that is taken for one being served.
LEMMA WrittenEnd ==
    ASSUME TypeOK, WrittenFirst, NEW n \in Nodes,
           NEW s \in {"none", "start"}, NEW r \in {"ok", "err"},
           owner' = [owner EXCEPT ![n] = s],
           \A q \in Reqs : req'[q] = IF q = owner[n] THEN r ELSE req[q],
           UNCHANGED <<rev, db, bumped>>
    PROVE  WrittenFirst'
    BY NamesAssumption DEF WrittenFirst, TypeOK, Reqs

\* No reload bumps the revision for a change that is not committed.
LEMMA WrittenStep == TypeOK /\ WrittenFirst /\ [Next]_vars => WrittenFirst'
<1> SUFFICES ASSUME TypeOK, WrittenFirst, [Next]_vars PROVE WrittenFirst'
    OBVIOUS
<1> USE NamesAssumption
<1> USE DEF dbVars, reloadVars, nodeVars, busVars, bounds, Reqs
<1>1. ASSUME NEW e \in Edits, Write(e) PROVE WrittenFirst'
    BY <1>1 DEF Write, WrittenFirst, TypeOK
<1>2. ASSUME NEW w \in Switches, WriteRedis(w) PROVE WrittenFirst'
    BY <1>2 DEF WriteRedis, WrittenFirst, TypeOK
<1>3. ASSUME NEW q \in Reqs, Lock(q) PROVE WrittenFirst'
    BY <1>3 DEF Lock, WrittenFirst, TypeOK
<1>4. ASSUME NEW n \in Nodes, LockSync(n) PROVE WrittenFirst'
    BY <1>4 DEF LockSync, WrittenFirst, TypeOK
<1>5. ASSUME NEW n \in Nodes, BumpRevision(n) PROVE WrittenFirst'
    BY <1>5 DEF BumpRevision, Increment, WrittenFirst, TypeOK
<1>6. ASSUME NEW n \in Nodes, Start(n) PROVE WrittenFirst'
    BY <1>6 DEF Start, WrittenFirst, TypeOK
<1>7. ASSUME NEW n \in Nodes, EnsureRedis(n) PROVE WrittenFirst'
    <2>1. UNCHANGED <<rev, db, bumped>>
        BY <1>7 DEF EnsureRedis
    <2>2. CASE Finish(n, "ok")
        BY <2>1, <2>2, FinishEffect, WrittenEnd
    <2>3. CASE UNCHANGED <<owner, req>>
        BY <2>1, <2>3 DEF WrittenFirst
    <2>4. QED
        BY <1>7, <2>2, <2>3 DEF EnsureRedis
<1>8. ASSUME NEW n \in Nodes, SwitchOnly(n) \/ AnnounceStep(n) PROVE WrittenFirst'
    <2>1. Finish(n, "ok") /\ UNCHANGED <<rev, db, bumped>>
        BY <1>8 DEF SwitchOnly, AnnounceStep
    <2>2. QED
        BY <2>1, FinishEffect, WrittenEnd
<1>9. ASSUME NEW n \in Nodes, ReloadFails(n) \/ SwitchFails(n) PROVE WrittenFirst'
    <2>1. Fail(n) /\ UNCHANGED <<rev, db, bumped>>
        BY <1>9 DEF ReloadFails, SwitchFails
    <2>2. CASE owner[n] = "start"
        BY <2>1, <2>2, FailEffect, WrittenEnd
    <2>3. CASE owner[n] # "start"
        BY <2>1, <2>3, FailEffect, WrittenEnd
    <2>4. QED
        BY <2>2, <2>3
<1>10. ASSUME NEW n \in Nodes, BumpFails(n) PROVE WrittenFirst'
    <2>1. Fail(n) /\ UNCHANGED db
        BY <1>10 DEF BumpFails
    <2>2. /\ \A q \in Reqs : req'[q] = IF q = owner[n] THEN "err" ELSE req[q]
          /\ owner' = [owner EXCEPT ![n] = IF owner[n] = "start" THEN "start" ELSE "none"]
        BY <2>1, FailEffect
    <2>3. CASE Increment(n)
        BY <2>1, <2>2, <2>3 DEF Increment, WrittenFirst, TypeOK
    <2>4. CASE UNCHANGED <<rev, bumped>>
        BY <2>1, <2>2, <2>4 DEF WrittenFirst, TypeOK
    <2>5. QED
        BY <1>10, <2>3, <2>4 DEF BumpFails
<1>11. ASSUME NEW n \in Nodes, Restart(n) PROVE WrittenFirst'
    BY <1>11 DEF Restart, WrittenFirst, TypeOK
<1>12. ASSUME NEW n \in Nodes,
              \/ ReadRevision(n) \/ (\E t \in Tables : BuildTable(n, t)) \/ BuildDone(n)
              \/ Check(n) \/ PrePublish(n) \/ Recheck(n) \/ Publish(n) \/ Apply(n)
              \/ RedisStep(n) \/ Subscribe(n) \/ DryRun(n) \/ Evict(n)
       PROVE  WrittenFirst'
    <2>1. UNCHANGED <<rev, db, bumped, req, owner>>
        BY <1>12 DEF ReadRevision, BuildTable, BuildDone, Check, PrePublish, Recheck, Publish,
                     Apply, RedisStep, Subscribe, DryRun, Evict
    <2>2. QED
        BY <2>1 DEF WrittenFirst
<1>13. CASE UNCHANGED vars
    BY <1>13 DEF WrittenFirst, vars
<1>14. QED
    BY <1>1, <1>2, <1>3, <1>4, <1>5, <1>6, <1>7, <1>8, <1>9, <1>10, <1>11, <1>12, <1>13
    DEF Next, Reload, Disturbance

-----------------------------------------------------------------------------
(* No snapshot lacks a change of its revision                                *)

\* Only what a node prepares, publishes and caches matters: a step that leaves
\* the preparation keeps the labels right.
LEMMA LabelledLeave ==
    ASSUME TypeOK, Labelled, NEW n \in Nodes, NEW s \in Steps \ Preparing,
           step' = [step EXCEPT ![n] = s],
           UNCHANGED <<rev, bumped, building, todo, holder, cache>>
    PROVE  Labelled'
    BY DEF Labelled, Holds, Read, Preparing, TypeOK

\* A bump makes a revision no snapshot has yet.
LEMMA LabelledBump ==
    ASSUME TypeOK, WrittenFirst, Labelled, NEW n \in Nodes, NEW s \in {"rev", "idle"},
           Increment(n), step' = [step EXCEPT ![n] = s],
           UNCHANGED <<building, todo, holder, cache>>
    PROVE  Labelled'
    BY DEF Increment, WrittenFirst, Labelled, Holds, Read, Preparing, TypeOK, Snapshots

\* No step publishes, caches or prepares a snapshot that lacks a change bumped to
\* its revision or before.
LEMMA LabelledStep == TypeOK /\ WrittenFirst /\ Labelled /\ [Next]_vars => Labelled'
<1> SUFFICES ASSUME TypeOK, WrittenFirst, Labelled, [Next]_vars PROVE Labelled'
    OBVIOUS
<1> USE NamesAssumption
<1> USE DEF dbVars, reloadVars, nodeVars, busVars, bounds
<1>1. ASSUME NEW q \in Reqs, Lock(q) PROVE Labelled'
    <2>1. /\ Home[q] \in Nodes
          /\ UNCHANGED <<rev, bumped, building, todo, holder, cache>>
          /\ \E s \in {"bump", "switchOnly"} : step' = [step EXCEPT ![Home[q]] = s]
        BY <1>1 DEF Lock, Goto
    <2>2. QED
        BY <2>1, LabelledLeave DEF Steps, Preparing
<1>2. ASSUME NEW n \in Nodes,
             LockSync(n) \/ Apply(n) \/ Start(n) \/ SwitchOnly(n) \/ AnnounceStep(n)
      PROVE  Labelled'
    <2>1. UNCHANGED <<rev, bumped, building, todo, holder, cache>>
        BY <1>2 DEF LockSync, Apply, Start, SwitchOnly, AnnounceStep
    <2>2. \E s \in {"rev", "redis", "idle"} : step' = [step EXCEPT ![n] = s]
        BY <1>2 DEF LockSync, Apply, Start, SwitchOnly, AnnounceStep, Finish, Goto
    <2>3. QED
        BY <2>1, <2>2, LabelledLeave DEF Steps, Preparing
<1>3. ASSUME NEW n \in Nodes, RedisStep(n) \/ EnsureRedis(n) PROVE Labelled'
    <2>1. UNCHANGED <<rev, bumped, building, todo, holder, cache>>
        BY <1>3 DEF RedisStep, EnsureRedis
    <2>2. \E s \in {"ensure", "ensureLast", "announce", "idle"} : step' = [step EXCEPT ![n] = s]
        BY <1>3 DEF RedisStep, EnsureRedis, Finish, Goto
    <2>3. QED
        BY <2>1, <2>2, LabelledLeave DEF Steps, Preparing
<1>4. ASSUME NEW n \in Nodes, BumpRevision(n) PROVE Labelled'
    <2>1. /\ Increment(n) /\ step' = [step EXCEPT ![n] = "rev"]
          /\ UNCHANGED <<building, todo, holder, cache>>
        BY <1>4 DEF BumpRevision, Goto
    <2>2. QED
        BY <2>1, LabelledBump
<1>5. ASSUME NEW n \in Nodes, BumpFails(n) PROVE Labelled'
    <2>1. Fail(n) /\ UNCHANGED <<building, todo, holder, cache>>
        BY <1>5 DEF BumpFails
    <2>2. \E s \in {"rev", "idle"} : step' = [step EXCEPT ![n] = s]
        BY <2>1, FailEffect
    <2>3. CASE Increment(n)
        BY <2>1, <2>2, <2>3, LabelledBump
    <2>4. CASE UNCHANGED <<rev, bumped>>
        BY <2>1, <2>2, <2>4, LabelledLeave DEF Steps, Preparing
    <2>5. QED
        BY <1>5, <2>3, <2>4 DEF BumpFails
<1>6. ASSUME NEW n \in Nodes, ReloadFails(n) \/ SwitchFails(n) PROVE Labelled'
    <2>1. Fail(n) /\ UNCHANGED <<rev, bumped, building, todo, holder, cache>>
        BY <1>6 DEF ReloadFails, SwitchFails
    <2>2. \E s \in {"rev", "idle"} : step' = [step EXCEPT ![n] = s]
        BY <2>1, FailEffect
    <2>3. QED
        BY <2>1, <2>2, LabelledLeave DEF Steps, Preparing
<1>7. ASSUME NEW n \in Nodes, ReadRevision(n) PROVE Labelled'
    <2>1. PICK s \in Snapshots, T \in SUBSET Tables :
            /\ s.rev = rev
            /\ building' = [building EXCEPT ![n] = s]
            /\ todo' = [todo EXCEPT ![n] = T]
            /\ \/ s \in cache[n] /\ step' = [step EXCEPT ![n] = "check"]
               \/ T = Tables /\ step' = [step EXCEPT ![n] = "build"]
        BY <1>7, ReadEffect
    <2>2. UNCHANGED <<rev, bumped, holder, cache>>
        BY <1>7 DEF ReadRevision
    <2>3. CASE s \in cache[n] /\ step' = [step EXCEPT ![n] = "check"]
        BY <2>1, <2>2, <2>3 DEF Labelled, Holds, Read, Preparing, TypeOK
    <2>4. CASE T = Tables /\ step' = [step EXCEPT ![n] = "build"]
        BY <2>1, <2>2, <2>4 DEF Labelled, Holds, Read, Preparing, TypeOK
    <2>5. QED
        BY <2>1, <2>3, <2>4
<1>8. ASSUME NEW n \in Nodes, NEW t \in Tables, BuildTable(n, t) PROVE Labelled'
    <2>1. PICK s \in Snapshots :
            /\ s.rev = building[n].rev
            /\ s.tab = [building[n].tab EXCEPT ![t] = db[t]]
            /\ building' = [building EXCEPT ![n] = s]
        BY <1>8, BuildEffect, ZenonT(60)
    <2>2. /\ step[n] = "build" /\ todo' = [todo EXCEPT ![n] = @ \ {t}]
          /\ UNCHANGED <<rev, bumped, step, holder, cache>>
        BY <1>8 DEF BuildTable
    <2>3. Holds(s, Tables \ (todo[n] \ {t}))
        BY <2>1, <2>2 DEF Labelled, Holds, Read, Preparing, WrittenFirst, TypeOK, Snapshots
    <2>4. QED
        BY <2>1, <2>2, <2>3, ZenonT(60) DEF Labelled, Holds, Read, TypeOK
<1>9. ASSUME NEW n \in Nodes, BuildDone(n) PROVE Labelled'
    BY <1>9 DEF BuildDone, Goto, Labelled, Holds, Read, Preparing, TypeOK
<1>10. ASSUME NEW n \in Nodes, Check(n) \/ PrePublish(n) \/ Recheck(n) PROVE Labelled'
    BY <1>10 DEF Check, PrePublish, Recheck, Goto, Labelled, Holds, Read, Preparing, TypeOK
<1>11. ASSUME NEW n \in Nodes, Publish(n) PROVE Labelled'
    BY <1>11 DEF Publish, SetSnapshot, StoreIfNewer, Newer, Goto, Labelled, Holds, Read, Preparing, TypeOK
<1>12. ASSUME NEW n \in Nodes, Evict(n) PROVE Labelled'
    BY <1>12 DEF Evict, Labelled, Holds, Read, TypeOK
<1>13. ASSUME NEW n \in Nodes, Restart(n) PROVE Labelled'
    BY <1>13 DEF Restart, Goto, NoSnapshot, Blank, Labelled, Holds, Read, Preparing, WrittenFirst, TypeOK
<1>14. ASSUME \/ \E e \in Edits : Write(e)
              \/ \E w \in Switches : WriteRedis(w)
              \/ \E n \in Nodes : Subscribe(n) \/ DryRun(n)
              \/ UNCHANGED vars
       PROVE  Labelled'
    <2>1. UNCHANGED <<rev, bumped, step, building, todo, holder, cache>>
        BY <1>14 DEF Write, WriteRedis, Subscribe, DryRun, vars
    <2>2. QED
        BY <2>1 DEF Labelled, Holds, Read
<1>15. QED
    BY <1>1, <1>2, <1>3, <1>4, <1>5, <1>6, <1>7, <1>8, <1>9, <1>10, <1>11, <1>12, <1>13, <1>14
    DEF Next, Reload, Disturbance

-----------------------------------------------------------------------------
(* A success is only reported for a revision that is published               *)

\* A step that ends the preparation of a node, or takes the node without a
\* change, may answer the change whose snapshot is published, and no other.
LEMMA AnsweredLeave ==
    ASSUME TypeOK, WrittenFirst, Answered, NEW n \in Nodes,
           NEW s \in Steps \ Preparing, NEW o \in {"none", "start", "sync"} \cup Switches,
           step' = [step EXCEPT ![n] = s],
           owner' = [owner EXCEPT ![n] = o],
           \A e \in Edits : req'[e] = "ok" =>
              \/ req[e] = "ok"
              \/ e = owner[n] /\ step[n] \in {"apply", "redis", "ensure", "ensureLast", "announce"},
           UNCHANGED <<bumped, building, holder>>
    PROVE  Answered'
    BY NamesAssumption DEF Answered, WrittenFirst, Preparing, TypeOK, Reqs

\* The change a node is busy with has no answer yet.
LEMMA Unanswered ==
    ASSUME WrittenFirst, NEW n \in Nodes, owner[n] \in Edits
    PROVE  req[owner[n]] # "ok"
    BY DEF WrittenFirst, Reqs

\* No step answers a change before a snapshot with it is published, or publishes
\* one without an answered change.
LEMMA AnsweredStep ==
    TypeOK /\ WrittenFirst /\ Labelled /\ Answered /\ [Next]_vars => Answered'
<1> SUFFICES ASSUME TypeOK, WrittenFirst, Labelled, Answered, [Next]_vars PROVE Answered'
    OBVIOUS
<1> USE NamesAssumption
<1> USE DEF dbVars, reloadVars, nodeVars, busVars, bounds, Reqs
<1>1. ASSUME NEW e \in Edits, Write(e) PROVE Answered'
    BY <1>1 DEF Write, Answered, TypeOK
<1>2. ASSUME NEW w \in Switches, WriteRedis(w) PROVE Answered'
    BY <1>2 DEF WriteRedis, Answered, TypeOK
<1>3. ASSUME NEW q \in Reqs, Lock(q) PROVE Answered'
    BY <1>3 DEF Lock, Goto, Answered, Preparing, TypeOK
<1>4. ASSUME NEW n \in Nodes, LockSync(n) PROVE Answered'
    BY <1>4 DEF LockSync, Goto, Answered, Preparing, TypeOK
<1>5. ASSUME NEW n \in Nodes, Increment(n), step[n] = "bump",
             NEW s \in {"rev", "idle"}, step' = [step EXCEPT ![n] = s],
             owner' = owner \/ (s = "idle" /\ owner' = [owner EXCEPT ![n] = "none"]),
             \A e \in Edits : req'[e] = "ok" => req[e] = "ok",
             UNCHANGED <<building, holder>>
      PROVE  Answered'
    BY <1>5, Unanswered DEF Increment, Answered, WrittenFirst, Preparing, TypeOK
<1>6. ASSUME NEW n \in Nodes, BumpRevision(n) PROVE Answered'
    <2>1. /\ Increment(n) /\ step[n] = "bump" /\ step' = [step EXCEPT ![n] = "rev"]
          /\ UNCHANGED <<owner, req, building, holder>>
        BY <1>6 DEF BumpRevision, Goto
    <2>2. QED
        BY <1>5, <2>1
<1>7. ASSUME NEW n \in Nodes, Fail(n), UNCHANGED <<bumped, building, holder>> PROVE Answered'
    <2>1. \A e \in Edits : req'[e] = "ok" => req[e] = "ok"
        BY <1>7, FailEffect
    <2>2. CASE owner[n] = "start"
        BY <1>7, <2>1, <2>2, FailEffect, AnsweredLeave DEF Steps, Preparing
    <2>3. CASE owner[n] # "start"
        BY <1>7, <2>1, <2>3, FailEffect, AnsweredLeave DEF Steps, Preparing
    <2>4. QED
        BY <2>2, <2>3
<1>8. ASSUME NEW n \in Nodes, ReloadFails(n) \/ SwitchFails(n) PROVE Answered'
    BY <1>7, <1>8 DEF ReloadFails, SwitchFails
<1>9. ASSUME NEW n \in Nodes, BumpFails(n) PROVE Answered'
    <2>1. Fail(n) /\ step[n] = "bump" /\ UNCHANGED <<building, holder>>
        BY <1>9 DEF BumpFails
    <2>2. CASE Increment(n)
        <3>1. \A e \in Edits : req'[e] = "ok" => req[e] = "ok"
            BY <2>1, FailEffect
        <3>2. CASE owner[n] = "start"
            <4>1. step' = [step EXCEPT ![n] = "rev"] /\ owner' = owner
                BY <2>1, <3>2, FailEffect DEF TypeOK
            <4>2. QED
                BY <1>5, <2>1, <2>2, <3>1, <4>1
        <3>3. CASE owner[n] # "start"
            <4>1. step' = [step EXCEPT ![n] = "idle"] /\ owner' = [owner EXCEPT ![n] = "none"]
                BY <2>1, <3>3, FailEffect
            <4>2. QED
                BY <1>5, <2>1, <2>2, <3>1, <4>1
        <3>4. QED
            BY <3>2, <3>3
    <2>3. CASE UNCHANGED bumped
        BY <1>7, <2>1, <2>3
    <2>4. QED
        BY <1>9, <2>2, <2>3 DEF BumpFails
<1>10. ASSUME NEW n \in Nodes, ReadRevision(n) PROVE Answered'
    <2>1. PICK s \in Snapshots :
            /\ s.rev = rev
            /\ building' = [building EXCEPT ![n] = s]
            /\ \/ step' = [step EXCEPT ![n] = "check"]
               \/ step' = [step EXCEPT ![n] = "build"]
        BY <1>10, ReadEffect
    <2>2. step[n] = "rev" /\ UNCHANGED <<bumped, req, owner, holder>>
        BY <1>10 DEF ReadRevision
    <2>3. QED
        BY <2>1, <2>2 DEF Answered, WrittenFirst, Preparing, TypeOK
<1>11. ASSUME NEW n \in Nodes, NEW t \in Tables, BuildTable(n, t) PROVE Answered'
    <2>1. PICK s \in Snapshots :
            s.rev = building[n].rev /\ building' = [building EXCEPT ![n] = s]
        BY <1>11, BuildEffect
    <2>2. UNCHANGED <<bumped, req, owner, step, holder>>
        BY <1>11 DEF BuildTable
    <2>3. QED
        BY <2>1, <2>2 DEF Answered, TypeOK
<1>12. ASSUME NEW n \in Nodes, BuildDone(n) PROVE Answered'
    BY <1>12 DEF BuildDone, Goto, Answered, Preparing, TypeOK
<1>13. ASSUME NEW n \in Nodes, Check(n) \/ PrePublish(n) \/ Recheck(n) PROVE Answered'
    BY <1>13 DEF Check, PrePublish, Recheck, Goto, Answered, Preparing, TypeOK
<1>14. ASSUME NEW n \in Nodes, Publish(n) PROVE Answered'
    BY <1>14 DEF Publish, SetSnapshot, StoreIfNewer, Newer, Goto, Answered, WrittenFirst, Labelled, Holds, Preparing, TypeOK, Snapshots
<1>15. ASSUME NEW n \in Nodes, Apply(n) PROVE Answered'
    BY <1>15 DEF Apply, Goto, Answered, Preparing, TypeOK
<1>16. ASSUME NEW n \in Nodes, Start(n) PROVE Answered'
    BY <1>16 DEF Start, Goto, Answered, Preparing, TypeOK
<1>17. ASSUME NEW n \in Nodes, RedisStep(n) PROVE Answered'
    <2>1. /\ step[n] = "redis" /\ UNCHANGED <<bumped, req, owner, building, holder>>
          /\ \E s \in {"ensure", "ensureLast"} : step' = [step EXCEPT ![n] = s]
        BY <1>17 DEF RedisStep, Goto
    <2>2. QED
        BY <2>1 DEF Answered, Preparing, TypeOK
<1>18. ASSUME NEW n \in Nodes, Finish(n, "ok"),
              step[n] \in {"ensureLast", "announce"} \/ owner[n] \notin Edits,
              UNCHANGED <<bumped, building, holder>>
       PROVE  Answered'
    BY <1>18, FinishEffect, AnsweredLeave DEF Steps, Preparing
<1>19. ASSUME NEW n \in Nodes, EnsureRedis(n) PROVE Answered'
    <2>1. UNCHANGED <<bumped, building, holder>>
        BY <1>19 DEF EnsureRedis
    <2>2. CASE /\ step[n] = "ensure" /\ step' = [step EXCEPT ![n] = "announce"]
               /\ UNCHANGED <<owner, req>>
        BY <2>1, <2>2 DEF Answered, Preparing, TypeOK
    <2>3. CASE step[n] = "ensureLast" /\ Finish(n, "ok")
        BY <1>18, <2>1, <2>3
    <2>4. QED
        BY <1>19, <2>2, <2>3 DEF EnsureRedis, Goto
<1>20. ASSUME NEW n \in Nodes, SwitchOnly(n) PROVE Answered'
    <2>1. /\ step[n] = "switchOnly" /\ Finish(n, "ok")
          /\ UNCHANGED <<bumped, building, holder>>
        BY <1>20 DEF SwitchOnly
    <2>2. owner[n] \notin Edits
        BY <2>1 DEF Answered
    <2>3. QED
        BY <1>18, <2>1, <2>2
<1>21. ASSUME NEW n \in Nodes, AnnounceStep(n) PROVE Answered'
    BY <1>18, <1>21 DEF AnnounceStep
<1>22. ASSUME NEW n \in Nodes, Restart(n) PROVE Answered'
    BY <1>22 DEF Restart, Goto, NoSnapshot, Blank, Answered, Preparing, TypeOK
<1>23. ASSUME (\E n \in Nodes : Subscribe(n) \/ DryRun(n) \/ Evict(n)) \/ UNCHANGED vars
       PROVE  Answered'
    <2>1. UNCHANGED <<bumped, req, owner, step, building, holder>>
        BY <1>23 DEF Subscribe, DryRun, Evict, vars
    <2>2. QED
        BY <2>1 DEF Answered
<1>24. QED
    BY <1>1, <1>2, <1>3, <1>4, <1>6, <1>8, <1>9, <1>10, <1>11, <1>12, <1>13, <1>14, <1>15,
       <1>16, <1>17, <1>19, <1>20, <1>21, <1>22, <1>23
    DEF Next, Reload, Disturbance

-----------------------------------------------------------------------------
(* No published snapshot lacks the executor of its scripts                   *)

\* A step that only leaves the preparation keeps the scripts runnable.
LEMMA ScriptsLeave ==
    ASSUME TypeOK, Scripts, NEW n \in Nodes,
           NEW s \in Steps \ Preparing, step' = [step EXCEPT ![n] = s],
           \A m \in Nodes : m # n => owner'[m] = owner[m],
           owner'[n] = "start" <=> owner[n] = "start",
           owner'[n] = "start" => s \in {"rev", "apply"},
           UNCHANGED <<holder, js, building>>
    PROVE  Scripts'
    BY DEF Scripts, Preparing, TypeOK

\* No step publishes a snapshot whose scripts have no executor.
LEMMA ScriptsStep == TypeOK /\ Scripts /\ [Next]_vars => Scripts'
<1> SUFFICES ASSUME TypeOK, Scripts, [Next]_vars PROVE Scripts'
    OBVIOUS
<1> USE NamesAssumption
<1> USE DEF dbVars, reloadVars, nodeVars, busVars, bounds, Reqs
<1>1. ASSUME NEW q \in Reqs, Lock(q) PROVE Scripts'
    BY <1>1 DEF Lock, Goto, Scripts, Preparing, TypeOK
<1>2. ASSUME NEW n \in Nodes, LockSync(n) PROVE Scripts'
    BY <1>2 DEF LockSync, Goto, Scripts, Preparing, TypeOK
<1>3. ASSUME NEW n \in Nodes, BumpRevision(n) PROVE Scripts'
    BY <1>3 DEF BumpRevision, Goto, Scripts, Preparing, TypeOK
<1>4. ASSUME NEW n \in Nodes, ReadRevision(n) PROVE Scripts'
    <2>1. PICK s \in Snapshots :
            /\ building' = [building EXCEPT ![n] = s]
            /\ \/ step' = [step EXCEPT ![n] = "check"]
               \/ step' = [step EXCEPT ![n] = "build"]
        BY <1>4, ReadEffect
    <2>2. UNCHANGED <<owner, holder, js>>
        BY <1>4 DEF ReadRevision
    <2>3. QED
        BY <2>1, <2>2 DEF Scripts, Preparing, TypeOK
<1>5. ASSUME NEW n \in Nodes, NEW t \in Tables, BuildTable(n, t) PROVE Scripts'
    <2>1. PICK s \in Snapshots : building' = [building EXCEPT ![n] = s]
        BY <1>5, BuildEffect
    <2>2. step[n] = "build" /\ UNCHANGED <<owner, step, holder, js>>
        BY <1>5 DEF BuildTable
    <2>3. QED
        BY <2>1, <2>2 DEF Scripts, TypeOK
<1>6. ASSUME NEW n \in Nodes, BuildDone(n) \/ Check(n) \/ Recheck(n) PROVE Scripts'
    BY <1>6 DEF BuildDone, Check, Recheck, Goto, Scripts, Preparing, TypeOK
<1>7. ASSUME NEW n \in Nodes, PrePublish(n) PROVE Scripts'
    BY <1>7 DEF PrePublish, Goto, Scripts, Preparing, TypeOK, Snapshots
<1>8. ASSUME NEW n \in Nodes, Publish(n) PROVE Scripts'
    BY <1>8 DEF Publish, SetSnapshot, StoreIfNewer, Newer, Goto, Scripts, Preparing, TypeOK, Snapshots
<1>9. ASSUME NEW n \in Nodes, Apply(n) PROVE Scripts'
    BY <1>9 DEF Apply, Goto, Scripts, Preparing, TypeOK
<1>10. ASSUME NEW n \in Nodes, Start(n) PROVE Scripts'
    BY <1>10 DEF Start, Goto, Scripts, Preparing, TypeOK, Snapshots
<1>11. ASSUME NEW n \in Nodes, RedisStep(n) \/ EnsureRedis(n) \/ SwitchOnly(n) \/ AnnounceStep(n)
       PROVE  Scripts'
    <2>1. owner[n] # "start"
        BY <1>11 DEF RedisStep, EnsureRedis, SwitchOnly, AnnounceStep, Scripts, Preparing
    <2>2. UNCHANGED <<holder, js, building>>
        BY <1>11 DEF RedisStep, EnsureRedis, SwitchOnly, AnnounceStep
    <2>3. \/ owner' = owner
          \/ owner' = [owner EXCEPT ![n] = "none"]
        BY <1>11 DEF RedisStep, EnsureRedis, SwitchOnly, AnnounceStep, Finish
    <2>4. \E s \in {"ensure", "ensureLast", "announce", "idle"} : step' = [step EXCEPT ![n] = s]
        BY <1>11 DEF RedisStep, EnsureRedis, SwitchOnly, AnnounceStep, Finish, Goto
    <2>5. owner'[n] # "start" /\ \A m \in Nodes : m # n => owner'[m] = owner[m]
        BY <2>1, <2>3 DEF TypeOK
    <2>6. QED
        BY <2>1, <2>2, <2>4, <2>5, ScriptsLeave DEF Steps, Preparing
<1>12. ASSUME NEW n \in Nodes, BumpFails(n) \/ ReloadFails(n) \/ SwitchFails(n) PROVE Scripts'
    <2>1. Fail(n) /\ UNCHANGED <<holder, js, building>>
        BY <1>12 DEF BumpFails, ReloadFails, SwitchFails
    <2>2. CASE owner[n] = "start"
        BY <2>1, <2>2, FailEffect, ScriptsLeave DEF Steps, Preparing, TypeOK
    <2>3. CASE owner[n] # "start"
        BY <2>1, <2>3, FailEffect, ScriptsLeave, SMTT(40) DEF Steps, Preparing, TypeOK
    <2>4. QED
        BY <2>2, <2>3
<1>13. ASSUME NEW n \in Nodes, Restart(n) PROVE Scripts'
    BY <1>13 DEF Restart, Goto, NoSnapshot, Blank, Scripts, Preparing, TypeOK
<1>14. ASSUME \/ \E e \in Edits : Write(e)
              \/ \E w \in Switches : WriteRedis(w)
              \/ \E n \in Nodes : Subscribe(n) \/ Evict(n)
              \/ UNCHANGED vars
       PROVE  Scripts'
    <2>1. UNCHANGED <<owner, step, holder, js, building>>
        BY <1>14 DEF Write, WriteRedis, Subscribe, Evict, vars
    <2>2. QED
        BY <2>1 DEF Scripts
<1>15. ASSUME NEW n \in Nodes, DryRun(n) PROVE Scripts'
    BY <1>15 DEF DryRun, Scripts, TypeOK
<1>16. QED
    BY <1>1, <1>2, <1>3, <1>4, <1>5, <1>6, <1>7, <1>8, <1>9, <1>10, <1>11, <1>12, <1>13, <1>14,
       <1>15
    DEF Next, Reload, Disturbance

-----------------------------------------------------------------------------
(* The IP lists follow                                                       *)

\* A step that answers nobody, loads nothing and is not at the end of a reload.
LEMMA ListsQuiet ==
    ASSUME TypeOK, Lists, NEW n \in Nodes, ipRep' = ipRep, faults' = faults,
           \A e \in Edits : req'[e] = "ok" => req[e] = "ok",
           \A m \in Nodes : step'[m] \in Applied => step[m] \in Applied /\ owner'[m] = owner[m],
           \A m \in Nodes : owner'[m] # "start" => owner[m] # "start"
    PROVE  Lists'
    BY NamesAssumption DEF Lists, IPListsLive, Reqs

\* A reload that loads the lists finds in the database every change that was
\* answered, and the one it reloads for.
LEMMA ListsLoaded ==
    ASSUME TypeOK, WrittenFirst, Lists, NEW n \in Nodes, LoadIPLists(n), req' = req,
           \A m \in Nodes : m # n => step'[m] = step[m] /\ owner'[m] = owner[m],
           owner'[n] \in Edits => owner'[n] = owner[n]
    PROVE  Lists'
<1>1. CASE faults' # 0
    BY <1>1 DEF Lists, IPListsLive
<1>2. CASE faults' = 0
    <2>1. faults = 0 /\ ipRep' = [ipRep EXCEPT ![n] = UNION {db[t] : t \in Tables}]
        BY <1>2 DEF LoadIPLists, Fault, TypeOK
    <2>2. \A m \in Nodes \ {n} : ipRep'[m] = ipRep[m]
        BY <2>1 DEF TypeOK
    <2>3. \A e \in Edits : req[e] # "new" => e \in ipRep'[n]
        BY <2>1, NamesAssumption DEF WrittenFirst, TypeOK
    <2>4. IPListsLive'
        <3> SUFFICES ASSUME NEW e \in Edits, req[e] = "ok", owner'[Home[e]] # "start"
                     PROVE  e \in ipRep'[Home[e]]
            BY DEF IPListsLive
        <3>1. Home[e] \in Nodes
            BY NamesAssumption DEF Reqs
        <3>2. CASE Home[e] = n
            BY <2>3, <3>2
        <3>3. CASE Home[e] # n
            BY <2>1, <2>2, <3>1, <3>3 DEF Lists, IPListsLive
        <3>4. QED
            BY <3>2, <3>3
    <2>5. ASSUME NEW m \in Nodes, owner'[m] \in Edits, step'[m] \in Applied
          PROVE  owner'[m] \in ipRep'[m]
        <3>1. CASE m = n
            BY <2>3, <2>5, <3>1 DEF WrittenFirst, Reqs
        <3>2. CASE m # n
            BY <2>1, <2>2, <2>5, <3>2 DEF Lists
        <3>3. QED
            BY <3>1, <3>2
    <2>6. QED
        BY <2>4, <2>5 DEF Lists
<1>3. QED
    BY <1>1, <1>2

\* A reload that answers success has loaded the change.
LEMMA ListsAnswered ==
    ASSUME TypeOK, WrittenFirst, Answered, Scripts, Lists, NEW n \in Nodes, Finish(n, "ok"),
           step[n] \in Applied \cup {"switchOnly"}, ipRep' = ipRep, faults' = faults \/ faults' # 0
    PROVE  Lists'
<1>1. CASE faults' # 0
    BY <1>1 DEF Lists, IPListsLive
<1>2. CASE faults' = 0
    <2>1. /\ step' = [step EXCEPT ![n] = "idle"] /\ owner' = [owner EXCEPT ![n] = "none"]
          /\ \A q \in Reqs : req'[q] = IF q = owner[n] THEN "ok" ELSE req[q]
        BY FinishEffect
    <2>2. owner[n] # "start"
        BY DEF Scripts, Preparing, Applied
    <2>3. \A m \in Nodes : owner'[m] # "start" => owner[m] # "start"
        BY <2>1, <2>2 DEF TypeOK
    <2>4. IPListsLive'
        <3> SUFFICES ASSUME NEW e \in Edits, req'[e] = "ok", owner'[Home[e]] # "start"
                     PROVE  e \in ipRep[Home[e]]
            BY DEF IPListsLive
        <3>1. Home[e] \in Nodes /\ e \in Reqs
            BY NamesAssumption DEF Reqs
        <3>2. CASE e = owner[n]
            <4>1. step[n] \in Applied /\ Home[e] = n
                BY <3>1, <3>2 DEF Answered, WrittenFirst
            <4>2. QED
                BY <1>2, <3>2, <4>1 DEF Lists
        <3>3. CASE e # owner[n]
            BY <1>2, <2>1, <2>3, <3>1, <3>3 DEF Lists, IPListsLive
        <3>4. QED
            BY <3>2, <3>3
    <2>5. \A m \in Nodes : step'[m] \in Applied => step[m] \in Applied /\ owner'[m] = owner[m]
        BY <2>1 DEF TypeOK, Applied
    <2>6. QED
        BY <1>2, <2>4, <2>5 DEF Lists
<1>3. QED
    BY <1>1, <1>2

\* No step answers success for a change that is not in the lists, unless one failed.
LEMMA ListsStep ==
    TypeOK /\ WrittenFirst /\ Answered /\ Scripts /\ Lists /\ [Next]_vars => Lists'
<1> SUFFICES ASSUME TypeOK, WrittenFirst, Answered, Scripts, Lists, [Next]_vars PROVE Lists'
    OBVIOUS
<1> USE NamesAssumption
<1> USE DEF dbVars, reloadVars, nodeVars, busVars, bounds
<1>1. ASSUME NEW q \in Reqs, Lock(q) PROVE Lists'
    <2>1. Home[q] \in Nodes /\ owner[Home[q]] # "start" /\ q # "start"
        BY <1>1 DEF Lock, Scripts, Preparing, Reqs
    <2>2. QED
        BY <1>1, <2>1, ListsQuiet DEF Lock, Goto, TypeOK, Applied
<1>2. ASSUME NEW n \in Nodes, LockSync(n) PROVE Lists'
    <2>1. owner[n] # "start"
        BY <1>2 DEF LockSync, Scripts, Preparing
    <2>2. QED
        BY <1>2, <2>1, ListsQuiet DEF LockSync, Goto, TypeOK, Applied
<1>3. ASSUME NEW n \in Nodes,
             \/ BumpRevision(n) \/ ReadRevision(n) \/ \E t \in Tables : BuildTable(n, t)
             \/ BuildDone(n) \/ Check(n) \/ PrePublish(n) \/ Recheck(n) \/ Publish(n)
      PROVE  Lists'
    <2>1. UNCHANGED <<req, owner, ipRep, faults>>
        BY <1>3 DEF BumpRevision, ReadRevision, BuildTable, BuildDone, Check, PrePublish,
                    Recheck, Publish
    <2>2. step' = step \/ \E s \in Steps \ Applied : step' = [step EXCEPT ![n] = s]
        BY <1>3 DEF BumpRevision, ReadRevision, BuildTable, BuildDone, Check, PrePublish,
                    Recheck, Publish, Goto, Steps, Applied
    <2>3. \A m \in Nodes : step'[m] \in Applied => step[m] \in Applied
        BY <2>2 DEF TypeOK
    <2>4. QED
        BY <2>1, <2>3, ListsQuiet
<1>4. ASSUME NEW n \in Nodes, Apply(n) PROVE Lists'
    BY <1>4, ListsLoaded DEF Apply, Goto, TypeOK
<1>5. ASSUME NEW n \in Nodes, Start(n) PROVE Lists'
    BY <1>5, ListsLoaded DEF Start, Goto, TypeOK, Reqs
<1>6. ASSUME NEW n \in Nodes, RedisStep(n) PROVE Lists'
    <2>1. CASE faults' # 0
        BY <2>1 DEF Lists, IPListsLive
    <2>2. CASE faults' = 0
        <3>1. faults' = faults
            BY <1>6, <2>2 DEF RedisStep, PublishReload, Fault, TypeOK
        <3>2. step[n] \in Applied /\ UNCHANGED <<owner, req, ipRep>>
            BY <1>6 DEF RedisStep, Applied
        <3>3. \A m \in Nodes \ {n} : step'[m] = step[m]
            BY <1>6 DEF RedisStep, Goto, TypeOK
        <3>4. QED
            BY <3>1, <3>2, <3>3, ListsQuiet
    <2>3. QED
        BY <2>1, <2>2
<1>7. ASSUME NEW n \in Nodes, EnsureRedis(n) PROVE Lists'
    <2>1. step[n] \in Applied /\ UNCHANGED <<ipRep, faults>>
        BY <1>7 DEF EnsureRedis, Applied
    <2>2. CASE Goto(n, "announce") /\ UNCHANGED <<owner, req>>
        <3>1. \A m \in Nodes \ {n} : step'[m] = step[m]
            BY <2>2 DEF Goto, TypeOK
        <3>2. QED
            BY <2>1, <2>2, <3>1, ListsQuiet
    <2>3. CASE Finish(n, "ok")
        BY <2>1, <2>3, ListsAnswered
    <2>4. QED
        BY <1>7, <2>2, <2>3 DEF EnsureRedis
<1>8. ASSUME NEW n \in Nodes, SwitchOnly(n) \/ AnnounceStep(n) PROVE Lists'
    <2>1. /\ Finish(n, "ok") /\ step[n] \in Applied \cup {"switchOnly"} /\ ipRep' = ipRep
          /\ faults' = faults \/ faults' # 0
        BY <1>8 DEF SwitchOnly, AnnounceStep, PublishReload, Fault, Applied, TypeOK
    <2>2. QED
        BY <2>1, ListsAnswered
<1>9. ASSUME NEW n \in Nodes, BumpFails(n) \/ ReloadFails(n) \/ SwitchFails(n) \/ Evict(n)
      PROVE  Lists'
    <2>1. faults' # 0
        BY <1>9 DEF BumpFails, ReloadFails, SwitchFails, Evict, Fail, Fault, TypeOK
    <2>2. QED
        BY <2>1 DEF Lists, IPListsLive
<1>10. ASSUME NEW n \in Nodes, Restart(n) PROVE Lists'
    <2>1. CASE faults' # 0
        BY <2>1 DEF Lists, IPListsLive
    <2>2. CASE faults' = 0
        <3>1. faults' = faults
            BY <1>10, <2>2 DEF Restart, Fault, TypeOK
        <3>2. /\ owner' = [owner EXCEPT ![n] = "start"] /\ step' = [step EXCEPT ![n] = "rev"]
              /\ ipRep' = [ipRep EXCEPT ![n] = {}]
              /\ \A q \in Reqs : req'[q] = "ok" => req[q] = "ok"
            BY <1>10 DEF Restart, Goto
        <3>3. \A m \in Nodes \ {n} : /\ owner'[m] = owner[m] /\ step'[m] = step[m]
                                     /\ ipRep'[m] = ipRep[m]
            BY <3>2 DEF TypeOK
        <3>4. owner'[n] = "start" /\ step'[n] \notin Applied
            BY <3>2 DEF TypeOK, Applied
        <3>5. QED
            BY <2>2, <3>1, <3>2, <3>3, <3>4 DEF Lists, IPListsLive, Reqs
    <2>3. QED
        BY <2>1, <2>2
<1>11. ASSUME \/ \E e \in Edits : Write(e)
              \/ \E w \in Switches : WriteRedis(w)
              \/ \E n \in Nodes : Subscribe(n) \/ DryRun(n)
              \/ UNCHANGED vars
       PROVE  Lists'
    <2>1. UNCHANGED <<owner, step, ipRep, faults>>
        BY <1>11 DEF Write, WriteRedis, Subscribe, DryRun, vars
    <2>2. \A e \in Edits : req'[e] = "ok" => req[e] = "ok"
        BY <1>11 DEF Write, WriteRedis, Subscribe, DryRun, vars, TypeOK, Reqs
    <2>3. QED
        BY <2>1, <2>2 DEF Lists, IPListsLive
<1>12. QED
    BY <1>1, <1>2, <1>3, <1>4, <1>5, <1>6, <1>7, <1>8, <1>9, <1>10, <1>11
    DEF Next, Reload, Disturbance

-----------------------------------------------------------------------------
(* The theorems                                                              *)

\* The first state satisfies the inductive invariant.
LEMMA InitIInv == Init => IInv
<1> SUFFICES ASSUME Init PROVE IInv
    OBVIOUS
<1> USE NamesAssumption, BoundsAssumption
<1>1. TypeOK
    <2>1. Blank(1) \in Snapshots /\ NoSnapshot \in Snapshots
        BY BlankType DEF NoSnapshot
    <2>2. QED
        BY <2>1 DEF Init, TypeOK, Steps
<1>2. WrittenFirst
    BY DEF Init, WrittenFirst, Reqs
<1>3. Labelled
    BY DEF Init, Labelled, Holds, Preparing, Blank
<1>4. Answered
    BY DEF Init, Answered, Preparing, Reqs
<1>5. Scripts
    BY DEF Init, Scripts, Preparing, Blank, HasScripts
<1>6. Lists
    BY DEF Init, Lists, IPListsLive, Applied, Reqs
<1>7. QED
    BY <1>1, <1>2, <1>3, <1>4, <1>5, <1>6 DEF IInv

\* The inductive invariant holds in every state of every behaviour: from commit
\* to bump to read, no step of any node breaks the chain.
THEOREM Inductive == Spec => []IInv
<1>1. IInv /\ [Next]_vars => IInv'
    BY TypeStep, WrittenStep, LabelledStep, AnsweredStep, ScriptsStep, ListsStep DEF IInv
<1>2. QED
    BY InitIInv, <1>1, PTL DEF Spec

\* Every variable keeps its type, whatever the nodes do.
THEOREM TypeCorrect == Spec => []TypeOK
<1>1. IInv => TypeOK
    BY DEF IInv
<1>2. QED
    BY Inductive, <1>1, PTL

\* A snapshot that any node publishes or caches holds every change whose reload
\* bumped the revision no further than its label, although Build reads the
\* tables outside a transaction and the check compares revisions only.
THEOREM SnapshotsComplete == Spec => []SnapshotComplete
<1>1. IInv => SnapshotComplete
    BY DEF IInv, Labelled, Holds, SnapshotComplete
<1>2. QED
    BY Inductive, <1>1, PTL

\* A change the admin API answered with success is live on its node, and no
\* later reload, failure or cache hit takes it back.
THEOREM AcksLive == Spec => []AckLive
<1>1. IInv => AckLive
    BY NamesAssumption DEF IInv, Labelled, Holds, Answered, AckLive, TypeOK, Reqs
<1>2. QED
    BY Inductive, <1>1, PTL

\* The data plane never meets a snapshot with scripts before the executor that
\* runs them exists.
THEOREM ScriptsRunnable == Spec => []ScriptsHaveEngine
<1>1. IInv => ScriptsHaveEngine
    BY DEF IInv, Scripts, ScriptsHaveEngine
<1>2. QED
    BY Inductive, <1>1, PTL

\* Unless some step failed, a change the admin API answered with success is in the
\* IP lists its node enforces: loadIPLists reads them after the commit and before
\* the answer, and again after a restart.
THEOREM ListsLive == Spec => []IPListsLive
<1>1. IInv => IPListsLive
    BY DEF IInv, Lists
<1>2. QED
    BY Inductive, <1>1, PTL
=============================================================================
