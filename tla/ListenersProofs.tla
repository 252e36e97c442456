---------------------------- MODULE ListenersProofs ----------------------------
(***************************************************************************)
(* Proofs about Listeners for any binds, configurations and numbers of     *)
(* reloads and servers, when no reload begins before startup is over       *)
(* (EarlyReload is FALSE; a goroutine of an earlier reload may still be    *)
(* late): the reconciliation does what its comment says and no running     *)
(* server escapes it.  Without that assumption both are false, as          *)
(* MCListenersStartup shows.                                               *)
(***************************************************************************)
EXTENDS Listeners, TLAPS

\* TypeOK without its last conjunct, which is Owned.
Types ==
    /\ entries \in [Names -> Ids \cup {None}]
    /\ srv \in [Ids -> [name : Names \cup {None}, tag : Tags \cup {None}, state : States]]
    /\ pending \in [Ids -> Nat] /\ spun \in [Ids -> Nat]
    /\ published \in 0..MaxRevision
    /\ reload \in {"idle", "remove", "shutdown", "add", "wait", "cancel"}
    /\ todo \subseteq Names /\ cur \in Ids \cup {None} /\ reloads \in 0..MaxReloads
    /\ main \in {"register", "start", "up", "down"} /\ mtodo \subseteq Names
    /\ foreign \subseteq Names /\ failed \subseteq Names /\ dead \subseteq Names

\* A server has a name, and a name is mapped to a server of that name, which was
\* not stopped.
Owned ==
    /\ \A i \in Ids : srv[i].state # "free" => srv[i].name \in Names
    /\ \A n \in Names : entries[n] # None =>
          /\ srv[entries[n]].name = n
          /\ srv[entries[n]].tag # None
          /\ srv[entries[n]].state # "free"
          /\ srv[entries[n]].state = "stopped" => main = "down"

\* Until the main goroutine spins the servers nothing runs and nothing reloads.
Startup ==
    /\ mtodo # {} => main = "register"
    /\ \A n \in mtodo : entries[n] = None /\ Plan[0][n] # None
    /\ main \in {"register", "start"} =>
          /\ reload = "idle" /\ published = 0
          /\ \A i \in Ids : /\ pending[i] = 0 /\ spun[i] = 0
                            /\ srv[i].state \in {"free", "built"}

\* What the reload holds in each phase.  No goroutine is about to spin a TCP server
\* while the reload removes servers.
Phases ==
    /\ reload \in {"idle", "remove", "add"} => cur = None
    /\ reload \in {"shutdown", "wait", "cancel"} => cur \in Ids /\ srv[cur].state # "free"
    /\ reload \in {"shutdown", "cancel"} => ~Registered(cur)
    /\ reload = "wait" => srv[cur].name \in Names /\ entries[srv[cur].name] = cur
    /\ reload = "cancel" => srv[cur].state # "built" \/ srv[cur].name \in H3Names
    /\ reload \in {"remove", "shutdown"} =>
          \A i \in Ids : pending[i] > 0 => srv[i].name \in H3Names

\* A server that has run or failed was spun, and one that does not exist was not.
Spins ==
    \A i \in Ids :
        /\ spun[i] + pending[i] <= 1
        /\ srv[i].state = "free" => spun[i] + pending[i] = 0
        /\ srv[i].state \in {"running", "failed"} => spun[i] > 0

\* A server that runs or is about to is registered, or the reload holds it.
Active(i) == srv[i].state = "running" \/ (srv[i].state = "built" /\ pending[i] > 0)
Supervised == \A i \in Ids : Active(i) => Registered(i) \/ cur = i

\* A registered server serves or will, failed by itself, or is being waited for.
Served ==
    \A n \in Names : (entries[n] # None /\ main = "up") =>
        \/ n \in dead
        \/ srv[entries[n]].state = "running" \/ pending[entries[n]] > 0
        \/ reload = "wait" /\ cur = entries[n]

\* What is registered for n is what the snapshot wants, and what the snapshot wants
\* is registered, unless the start failed.
Current(n) == entries[n] # None => Tag(n) = Wanted(n)
Done(n) == Current(n) /\ (Wanted(n) # None => entries[n] # None \/ n \in failed \cup dead)

\* Both passes over the names, as far as they have come.
Progress ==
    /\ reload = "idle" => \A n \in Names \ mtodo : Done(n)
    /\ reload \in {"remove", "shutdown"} => \A n \in Names \ todo : Current(n)
    /\ reload \in {"add", "wait", "cancel"} =>
          \A n \in Names : /\ Current(n)
                           /\ IF n \in todo THEN Wanted(n) # None ELSE Done(n)

IInv ==
    /\ Types /\ Owned /\ Startup /\ Phases
    /\ Spins /\ Supervised /\ Served /\ Progress

\* A step keeps the types.
LEMMA TypesStep ==
    ASSUME IInv, ~EarlyReload, [Next]_vars
    PROVE  Types'
<1>1. ASSUME NEW n \in Names, Register(n) PROVE Types'
    <2>1. CASE UNCHANGED <<entries, srv>>
        BY <1>1, <2>1 DEF Register, IInv, Types, reloading
    <2>2. CASE \E i \in FreeIds : BuildAndAdd(n, Plan[0][n], i)
        <3>1. Plan[0][n] \in Tags \cup {None}
            BY PlanAssumption, BoundsAssumption
        <3>2. QED
            BY <1>1, <2>2, <3>1
            DEF Register, BuildAndAdd, IInv, Types, States, FreeIds, reloading
    <2>3. QED
        BY <1>1, <2>1, <2>2 DEF Register
<1>2. CASE RegisterDone
    BY <1>2, BoundsAssumption, PlanAssumption
    DEF RegisterDone, Types, States, IInv, manager, reloading
<1>3. CASE Start
    BY <1>3, BoundsAssumption, PlanAssumption
    DEF Start, Types, States, IInv, reloading
<1>4. CASE BeginReload
    BY <1>4, BoundsAssumption, PlanAssumption
    DEF BeginReload, StartupOver, Types, States, Alive, IInv, manager
<1>5. ASSUME NEW n \in Names, Keep(n) PROVE Types'
    BY <1>5, BoundsAssumption, PlanAssumption
    DEF Keep, Types, States, Alive, IInv, manager
<1>6. ASSUME NEW n \in Names, Remove(n) PROVE Types'
    BY <1>6, BoundsAssumption, PlanAssumption
    DEF Remove, Types, States, Alive, IInv
<1>7. ASSUME NEW n \in Names, AddSkip(n) PROVE Types'
    BY <1>7, BoundsAssumption, PlanAssumption
    DEF AddSkip, Types, States, Alive, IInv, manager
<1>8. ASSUME NEW n \in Names, Add(n) PROVE Types'
    <2>1. Wanted(n) \in Tags \cup {None}
        BY PlanAssumption DEF Wanted, IInv, Types
    <2>2. QED
        BY <1>8, <2>1 DEF Add, BuildAndAdd, IInv, Types, States, FreeIds
<1>9. CASE RemoveShutdown
    <2>1. cur \in Ids
        BY <1>9 DEF RemoveShutdown, IInv, Phases
    <2>2. QED
        BY <1>9, <2>1 DEF RemoveShutdown, Stopped, IInv, Types, States
<1>10. CASE RemoveDone
    BY <1>10, BoundsAssumption, PlanAssumption
    DEF RemoveDone, Types, States, Alive, IInv, manager
<1>11. CASE Ready
    BY <1>11, BoundsAssumption, PlanAssumption
    DEF Ready, Types, States, Alive, IInv, manager
<1>12. CASE NotReady
    <2>1. cur \in Ids /\ srv[cur].name \in Names
        BY <1>12 DEF NotReady, IInv, Phases, Owned
    <2>2. QED
        BY <1>12, <2>1, BoundsAssumption DEF NotReady, IInv, Types
<1>13. CASE CancelShutdown
    <2>1. cur \in Ids
        BY <1>13 DEF CancelShutdown, IInv, Phases
    <2>2. QED
        BY <1>13, <2>1 DEF CancelShutdown, Stopped, IInv, Types, States
<1>14. CASE EndReload
    BY <1>14, BoundsAssumption, PlanAssumption
    DEF EndReload, Types, States, Alive, IInv, manager
<1>15. CASE Terminate
    BY <1>15, BoundsAssumption, PlanAssumption
    DEF Terminate, Types, States, Stopped, IInv, reloading
<1>16. ASSUME NEW i \in Ids, Spin(i) PROVE Types'
    <2>1. srv' \in [Ids -> [name : Names \cup {None}, tag : Tags \cup {None}, state : States]]
        BY <1>16 DEF Spin, IInv, Types, States
    <2>2. dead' \subseteq Names
        BY <1>16 DEF Spin, IInv, Types, Owned
    <2>3. pending' \in [Ids -> Nat] /\ spun' \in [Ids -> Nat]
        BY <1>16 DEF Spin, IInv, Types
    <2>4. QED
        BY <1>16, <2>1, <2>2, <2>3 DEF Spin, IInv, Types, reloading
<1>17. ASSUME NEW i \in Ids, Fails(i) PROVE Types'
    <2>1. srv' \in [Ids -> [name : Names \cup {None}, tag : Tags \cup {None}, state : States]]
        BY <1>17 DEF Fails, IInv, Types, States
    <2>2. dead' \subseteq Names
        BY <1>17 DEF Fails, IInv, Types, Owned
    <2>3. QED
        BY <1>17, <2>1, <2>2 DEF Fails, IInv, Types, reloading
<1>18. ASSUME NEW i \in Ids, Collect(i) PROVE Types'
    BY <1>18, BoundsAssumption, PlanAssumption
    DEF Collect, Types, States, Free, Alive, IInv, reloading
<1>19. ASSUME NEW n \in Names, Foreign(n) PROVE Types'
    BY <1>19, BoundsAssumption, PlanAssumption
    DEF Foreign, Types, States, Alive, IInv, manager, reloading
<1>20. CASE UNCHANGED vars
    BY <1>20 DEF vars, manager, reloading, IInv, Types, States
<1>21. QED
    BY <1>1, <1>2, <1>3, <1>4, <1>5, <1>6, <1>7, <1>8, <1>9, <1>10, <1>11, <1>12, <1>13, <1>14,
       <1>15, <1>16, <1>17, <1>18, <1>19, <1>20
    DEF Next, StartupStep, ReloadStep

\* A step keeps the names and their servers together.
LEMMA OwnedStep ==
    ASSUME IInv, ~EarlyReload, [Next]_vars
    PROVE  Owned'
<1>1. ASSUME NEW n \in Names, Register(n) PROVE Owned'
    <2>1. CASE UNCHANGED <<entries, srv>>
        BY <1>1, <2>1 DEF Register, IInv, Owned
    <2>2. ASSUME NEW i \in FreeIds, BuildAndAdd(n, Plan[0][n], i) PROVE Owned'
        <3>1. Plan[0][n] # None /\ main' = main
            BY <1>1 DEF Register, IInv, Startup
        <3>2. \A m \in Names : entries[m] # i
            BY <2>2, BoundsAssumption DEF IInv, Owned, FreeIds
        <3>3. QED
            BY <2>2, <3>1, <3>2, BoundsAssumption
            DEF BuildAndAdd, IInv, Types, Owned, FreeIds
    <2>3. QED
        BY <1>1, <2>1, <2>2 DEF Register
<1>2. CASE RegisterDone
    BY <1>2, BoundsAssumption, PlanAssumption
    DEF RegisterDone, Owned, Types, States, Startup, Phases, Progress, Wanted, Registered, IInv,
        manager, reloading
<1>3. CASE Start
    BY <1>3, BoundsAssumption, PlanAssumption
    DEF Start, Owned, Types, States, Startup, Phases, Progress, Wanted, Registered, IInv,
        reloading
<1>4. CASE BeginReload
    BY <1>4, BoundsAssumption, PlanAssumption
    DEF BeginReload, StartupOver, Owned, Types, States, Startup, Phases, Progress, Wanted,
        Registered, Alive, IInv, manager
<1>5. ASSUME NEW n \in Names, Keep(n) PROVE Owned'
    BY <1>5, BoundsAssumption, PlanAssumption
    DEF Keep, Owned, Types, States, Startup, Phases, Progress, Wanted, Registered, Alive, IInv,
        manager
<1>6. ASSUME NEW n \in Names, Remove(n) PROVE Owned'
    BY <1>6, BoundsAssumption, PlanAssumption
    DEF Remove, Owned, Types, States, Startup, Phases, Progress, Wanted, Registered, Alive, IInv
<1>7. ASSUME NEW n \in Names, AddSkip(n) PROVE Owned'
    BY <1>7, BoundsAssumption, PlanAssumption
    DEF AddSkip, Owned, Types, States, Startup, Phases, Progress, Wanted, Registered, Alive,
        IInv, manager
<1>8. ASSUME NEW n \in Names, Add(n) PROVE Owned'
    BY <1>8, BoundsAssumption, PlanAssumption
    DEF Add, Owned, Types, States, FreeIds, Startup, Phases, Progress, Wanted, Registered,
        Alive, BuildAndAdd, IInv
<1>9. CASE RemoveShutdown
    BY <1>9, BoundsAssumption, PlanAssumption
    DEF RemoveShutdown, Owned, Types, States, Startup, Phases, Progress, Wanted, Registered,
        Alive, Stopped, IInv
<1>10. CASE RemoveDone
    BY <1>10, BoundsAssumption, PlanAssumption
    DEF RemoveDone, Owned, Types, States, Startup, Phases, Progress, Wanted, Registered, Alive,
        IInv, manager
<1>11. CASE Ready
    BY <1>11, BoundsAssumption, PlanAssumption
    DEF Ready, Owned, Types, States, Startup, Phases, Progress, Wanted, Registered, Alive, IInv,
        manager
<1>12. CASE NotReady
    BY <1>12, BoundsAssumption, PlanAssumption
    DEF NotReady, Owned, Types, States, Startup, Phases, Progress, Wanted, Registered, Alive,
        TimedOut, IInv
<1>13. CASE CancelShutdown
    BY <1>13, BoundsAssumption, PlanAssumption
    DEF CancelShutdown, Owned, Types, States, Startup, Phases, Progress, Wanted, Registered,
        Alive, Stopped, IInv
<1>14. CASE EndReload
    BY <1>14, BoundsAssumption, PlanAssumption
    DEF EndReload, Owned, Types, States, Startup, Phases, Progress, Wanted, Registered, Alive,
        IInv, manager
<1>15. CASE Terminate
    BY <1>15, BoundsAssumption, PlanAssumption
    DEF Terminate, Owned, Types, States, Startup, Phases, Progress, Wanted, Registered, Stopped,
        IInv, reloading
<1>16. ASSUME NEW i \in Ids, Spin(i) PROVE Owned'
    <2>1. \A j \in Ids :
            /\ srv'[j].name = srv[j].name /\ srv'[j].tag = srv[j].tag
            /\ srv'[j].state # srv[j].state =>
                  srv[j].state = "built" /\ srv'[j].state \in {"running", "failed"}
        BY <1>16 DEF Spin, IInv, Types
    <2>2. entries' = entries /\ main' = main
        BY <1>16 DEF Spin
    <2>3. QED
        BY <2>1, <2>2 DEF IInv, Types, Owned
<1>17. ASSUME NEW i \in Ids, Fails(i) PROVE Owned'
    BY <1>17, BoundsAssumption, PlanAssumption
    DEF Fails, Owned, Types, States, Startup, Phases, Progress, Wanted, Registered, Alive, IInv,
        reloading
<1>18. ASSUME NEW i \in Ids, Collect(i) PROVE Owned'
    BY <1>18, BoundsAssumption, PlanAssumption
    DEF Collect, Owned, Types, States, Free, Startup, Phases, Progress, Wanted, Registered,
        Alive, IInv, reloading
<1>19. ASSUME NEW n \in Names, Foreign(n) PROVE Owned'
    BY <1>19, BoundsAssumption, PlanAssumption
    DEF Foreign, Owned, Types, States, Startup, Phases, Progress, Wanted, Registered, Alive,
        IInv, manager, reloading
<1>20. CASE UNCHANGED vars
    BY <1>20 DEF vars, manager, reloading, IInv, Owned
<1>21. QED
    BY <1>1, <1>2, <1>3, <1>4, <1>5, <1>6, <1>7, <1>8, <1>9, <1>10, <1>11, <1>12, <1>13, <1>14,
       <1>15, <1>16, <1>17, <1>18, <1>19, <1>20
    DEF Next, StartupStep, ReloadStep

\* A step keeps a reload out of the startup.
LEMMA StartupInvStep ==
    ASSUME IInv, ~EarlyReload, [Next]_vars
    PROVE  Startup'
<1>1. ASSUME NEW n \in Names, Register(n) PROVE Startup'
    BY <1>1, BoundsAssumption
    DEF Register, Owned, Types, States, FreeIds, Startup, Phases, Registered, BuildAndAdd, IInv,
        reloading
<1>2. CASE RegisterDone
    BY <1>2, BoundsAssumption
    DEF RegisterDone, Owned, Types, States, Startup, Phases, Registered, IInv, manager,
        reloading
<1>3. CASE Start
    BY <1>3, BoundsAssumption
    DEF Start, Owned, Types, States, Startup, Phases, Registered, IInv, reloading
<1>4. CASE BeginReload
    BY <1>4, BoundsAssumption
    DEF BeginReload, StartupOver, Owned, Types, States, Startup, Phases, Registered, Alive,
        IInv, manager
<1>5. ASSUME NEW n \in Names, Keep(n) PROVE Startup'
    BY <1>5, BoundsAssumption
    DEF Keep, Owned, Types, States, Startup, Phases, Registered, Alive, IInv, manager
<1>6. ASSUME NEW n \in Names, Remove(n) PROVE Startup'
    BY <1>6, BoundsAssumption
    DEF Remove, Owned, Types, States, Startup, Phases, Registered, Alive, IInv
<1>7. ASSUME NEW n \in Names, AddSkip(n) PROVE Startup'
    BY <1>7, BoundsAssumption
    DEF AddSkip, Owned, Types, States, Startup, Phases, Registered, Alive, IInv, manager
<1>8. ASSUME NEW n \in Names, Add(n) PROVE Startup'
    BY <1>8, BoundsAssumption
    DEF Add, Owned, Types, States, FreeIds, Startup, Phases, Registered, Alive, BuildAndAdd,
        IInv
<1>9. CASE RemoveShutdown
    BY <1>9, BoundsAssumption
    DEF RemoveShutdown, Owned, Types, States, Startup, Phases, Registered, Alive, Stopped, IInv
<1>10. CASE RemoveDone
    BY <1>10, BoundsAssumption
    DEF RemoveDone, Owned, Types, States, Startup, Phases, Registered, Alive, IInv, manager
<1>11. CASE Ready
    BY <1>11, BoundsAssumption
    DEF Ready, Owned, Types, States, Startup, Phases, Registered, Alive, IInv, manager
<1>12. CASE NotReady
    BY <1>12, BoundsAssumption
    DEF NotReady, Owned, Types, States, Startup, Phases, Registered, Alive, TimedOut, IInv
<1>13. CASE CancelShutdown
    BY <1>13, BoundsAssumption
    DEF CancelShutdown, Owned, Types, States, Startup, Phases, Registered, Alive, Stopped, IInv
<1>14. CASE EndReload
    BY <1>14, BoundsAssumption
    DEF EndReload, Owned, Types, States, Startup, Phases, Registered, Alive, IInv, manager
<1>15. CASE Terminate
    BY <1>15, BoundsAssumption
    DEF Terminate, Owned, Types, States, Startup, Phases, Registered, Stopped, IInv, reloading
<1>16. ASSUME NEW i \in Ids, Spin(i) PROVE Startup'
    BY <1>16, BoundsAssumption
    DEF Spin, Owned, Types, States, Startup, Phases, Registered, Alive, IInv, reloading
<1>17. ASSUME NEW i \in Ids, Fails(i) PROVE Startup'
    BY <1>17, BoundsAssumption
    DEF Fails, Owned, Types, States, Startup, Phases, Registered, Alive, IInv, reloading
<1>18. ASSUME NEW i \in Ids, Collect(i) PROVE Startup'
    BY <1>18, BoundsAssumption
    DEF Collect, Owned, Types, States, Free, Startup, Phases, Registered, Alive, IInv, reloading
<1>19. ASSUME NEW n \in Names, Foreign(n) PROVE Startup'
    BY <1>19, BoundsAssumption
    DEF Foreign, Owned, Types, States, Startup, Phases, Registered, Alive, IInv, manager,
        reloading
<1>20. CASE UNCHANGED vars
    BY <1>20 DEF vars, manager, reloading, IInv, Startup
<1>21. QED
    BY <1>1, <1>2, <1>3, <1>4, <1>5, <1>6, <1>7, <1>8, <1>9, <1>10, <1>11, <1>12, <1>13, <1>14,
       <1>15, <1>16, <1>17, <1>18, <1>19, <1>20
    DEF Next, StartupStep, ReloadStep

\* A step keeps what the reload holds in order.
LEMMA PhasesStep ==
    ASSUME IInv, ~EarlyReload, [Next]_vars
    PROVE  Phases'
<1>1. ASSUME NEW n \in Names, Register(n) PROVE Phases'
    BY <1>1, BoundsAssumption
    DEF Register, Owned, Types, States, FreeIds, Startup, Phases, Spins, Registered,
        BuildAndAdd, IInv, reloading
<1>2. CASE RegisterDone
    BY <1>2, BoundsAssumption
    DEF RegisterDone, Owned, Types, States, Startup, Phases, Spins, Registered, IInv, manager,
        reloading
<1>3. CASE Start
    BY <1>3, BoundsAssumption
    DEF Start, Owned, Types, States, Startup, Phases, Spins, Registered, IInv, reloading
<1>4. CASE BeginReload
    BY <1>4, BoundsAssumption
    DEF BeginReload, StartupOver, Owned, Types, States, Startup, Phases, Spins, Registered,
        Alive, IInv, manager
<1>5. ASSUME NEW n \in Names, Keep(n) PROVE Phases'
    BY <1>5, BoundsAssumption
    DEF Keep, Owned, Types, States, Startup, Phases, Spins, Registered, Alive, IInv, manager
<1>6. ASSUME NEW n \in Names, Remove(n) PROVE Phases'
    BY <1>6, BoundsAssumption
    DEF Remove, Owned, Types, States, Startup, Phases, Spins, Registered, Alive, IInv
<1>7. ASSUME NEW n \in Names, AddSkip(n) PROVE Phases'
    BY <1>7, BoundsAssumption
    DEF AddSkip, Owned, Types, States, Startup, Phases, Spins, Registered, Alive, IInv, manager
<1>8. ASSUME NEW n \in Names, Add(n) PROVE Phases'
    BY <1>8, BoundsAssumption
    DEF Add, Owned, Types, States, FreeIds, Startup, Phases, Spins, Registered, Alive,
        BuildAndAdd, IInv
<1>9. CASE RemoveShutdown
    BY <1>9, BoundsAssumption
    DEF RemoveShutdown, Owned, Types, States, Startup, Phases, Spins, Registered, Alive,
        Stopped, IInv
<1>10. CASE RemoveDone
    BY <1>10, BoundsAssumption
    DEF RemoveDone, Owned, Types, States, Startup, Phases, Spins, Registered, Alive, IInv,
        manager
<1>11. CASE Ready
    BY <1>11, BoundsAssumption
    DEF Ready, Owned, Types, States, Startup, Phases, Spins, Registered, Alive, IInv, manager
<1>12. CASE NotReady
    BY <1>12, BoundsAssumption
    DEF NotReady, Owned, Types, States, Startup, Phases, Spins, Registered, Alive, TimedOut,
        IInv
<1>13. CASE CancelShutdown
    BY <1>13, BoundsAssumption
    DEF CancelShutdown, Owned, Types, States, Startup, Phases, Spins, Registered, Alive,
        Stopped, IInv
<1>14. CASE EndReload
    BY <1>14, BoundsAssumption
    DEF EndReload, Owned, Types, States, Startup, Phases, Spins, Registered, Alive, IInv,
        manager
<1>15. CASE Terminate
    BY <1>15, BoundsAssumption
    DEF Terminate, Owned, Types, States, Startup, Phases, Spins, Registered, Stopped, IInv,
        reloading
<1>16. ASSUME NEW i \in Ids, Spin(i) PROVE Phases'
    BY <1>16, BoundsAssumption
    DEF Spin, Owned, Types, States, Startup, Phases, Spins, Registered, Alive, IInv, reloading
<1>17. ASSUME NEW i \in Ids, Fails(i) PROVE Phases'
    BY <1>17, BoundsAssumption
    DEF Fails, Owned, Types, States, Startup, Phases, Spins, Registered, Alive, IInv, reloading
<1>18. ASSUME NEW i \in Ids, Collect(i) PROVE Phases'
    BY <1>18, BoundsAssumption
    DEF Collect, Owned, Types, States, Free, Startup, Phases, Spins, Registered, Alive, IInv,
        reloading
<1>19. ASSUME NEW n \in Names, Foreign(n) PROVE Phases'
    BY <1>19, BoundsAssumption
    DEF Foreign, Owned, Types, States, Startup, Phases, Spins, Registered, Alive, IInv, manager,
        reloading
<1>20. CASE UNCHANGED vars
    BY <1>20 DEF vars, manager, reloading, IInv, Phases, Registered
<1>21. QED
    BY <1>1, <1>2, <1>3, <1>4, <1>5, <1>6, <1>7, <1>8, <1>9, <1>10, <1>11, <1>12, <1>13, <1>14,
       <1>15, <1>16, <1>17, <1>18, <1>19, <1>20
    DEF Next, StartupStep, ReloadStep

\* A step counts a call of Spin once.
LEMMA SpinsStep ==
    ASSUME IInv, ~EarlyReload, [Next]_vars
    PROVE  Spins'
<1>1. ASSUME NEW n \in Names, Register(n) PROVE Spins'
    BY <1>1, BoundsAssumption
    DEF Register, Owned, Types, States, FreeIds, Startup, Spins, Phases, Registered,
        BuildAndAdd, IInv, reloading
<1>2. CASE RegisterDone
    BY <1>2, BoundsAssumption
    DEF RegisterDone, Owned, Types, States, Startup, Spins, Phases, Registered, IInv, manager,
        reloading
<1>3. CASE Start
    BY <1>3, BoundsAssumption
    DEF Start, Owned, Types, States, Startup, Spins, Phases, Registered, IInv, reloading
<1>4. CASE BeginReload
    BY <1>4, BoundsAssumption
    DEF BeginReload, StartupOver, Owned, Types, States, Startup, Spins, Phases, Registered,
        Alive, IInv, manager
<1>5. ASSUME NEW n \in Names, Keep(n) PROVE Spins'
    BY <1>5, BoundsAssumption
    DEF Keep, Owned, Types, States, Startup, Spins, Phases, Registered, Alive, IInv, manager
<1>6. ASSUME NEW n \in Names, Remove(n) PROVE Spins'
    BY <1>6, BoundsAssumption
    DEF Remove, Owned, Types, States, Startup, Spins, Phases, Registered, Alive, IInv
<1>7. ASSUME NEW n \in Names, AddSkip(n) PROVE Spins'
    BY <1>7, BoundsAssumption
    DEF AddSkip, Owned, Types, States, Startup, Spins, Phases, Registered, Alive, IInv, manager
<1>8. ASSUME NEW n \in Names, Add(n) PROVE Spins'
    BY <1>8, BoundsAssumption
    DEF Add, Owned, Types, States, FreeIds, Startup, Spins, Phases, Registered, Alive,
        BuildAndAdd, IInv
<1>9. CASE RemoveShutdown
    BY <1>9, BoundsAssumption
    DEF RemoveShutdown, Owned, Types, States, Startup, Spins, Phases, Registered, Alive,
        Stopped, IInv
<1>10. CASE RemoveDone
    BY <1>10, BoundsAssumption
    DEF RemoveDone, Owned, Types, States, Startup, Spins, Phases, Registered, Alive, IInv,
        manager
<1>11. CASE Ready
    BY <1>11, BoundsAssumption
    DEF Ready, Owned, Types, States, Startup, Spins, Phases, Registered, Alive, IInv, manager
<1>12. CASE NotReady
    BY <1>12, BoundsAssumption
    DEF NotReady, Owned, Types, States, Startup, Spins, Phases, Registered, Alive, TimedOut,
        IInv
<1>13. CASE CancelShutdown
    BY <1>13, BoundsAssumption
    DEF CancelShutdown, Owned, Types, States, Startup, Spins, Phases, Registered, Alive,
        Stopped, IInv
<1>14. CASE EndReload
    BY <1>14, BoundsAssumption
    DEF EndReload, Owned, Types, States, Startup, Spins, Phases, Registered, Alive, IInv,
        manager
<1>15. CASE Terminate
    BY <1>15, BoundsAssumption
    DEF Terminate, Owned, Types, States, Startup, Spins, Phases, Registered, Stopped, IInv,
        reloading
<1>16. ASSUME NEW i \in Ids, Spin(i) PROVE Spins'
    BY <1>16, BoundsAssumption
    DEF Spin, Owned, Types, States, Startup, Spins, Phases, Registered, Alive, IInv, reloading
<1>17. ASSUME NEW i \in Ids, Fails(i) PROVE Spins'
    BY <1>17, BoundsAssumption
    DEF Fails, Owned, Types, States, Startup, Spins, Phases, Registered, Alive, IInv, reloading
<1>18. ASSUME NEW i \in Ids, Collect(i) PROVE Spins'
    BY <1>18, BoundsAssumption
    DEF Collect, Owned, Types, States, Free, Startup, Spins, Phases, Registered, Alive, IInv,
        reloading
<1>19. ASSUME NEW n \in Names, Foreign(n) PROVE Spins'
    BY <1>19, BoundsAssumption
    DEF Foreign, Owned, Types, States, Startup, Spins, Phases, Registered, Alive, IInv, manager,
        reloading
<1>20. CASE UNCHANGED vars
    BY <1>20 DEF vars, manager, reloading, IInv, Spins
<1>21. QED
    BY <1>1, <1>2, <1>3, <1>4, <1>5, <1>6, <1>7, <1>8, <1>9, <1>10, <1>11, <1>12, <1>13, <1>14,
       <1>15, <1>16, <1>17, <1>18, <1>19, <1>20
    DEF Next, StartupStep, ReloadStep

\* A step leaves no active server to itself.
LEMMA SupervisedStep ==
    ASSUME IInv, ~EarlyReload, [Next]_vars
    PROVE  Supervised'
<1>1. ASSUME NEW n \in Names, Register(n) PROVE Supervised'
    BY <1>1, BoundsAssumption
    DEF Register, Supervised, Active, Owned, Types, States, FreeIds, Startup, Spins, Phases,
        Registered, BuildAndAdd, IInv, reloading
<1>2. CASE RegisterDone
    BY <1>2, BoundsAssumption
    DEF RegisterDone, Supervised, Active, Owned, Types, States, Startup, Spins, Phases,
        Registered, IInv, manager, reloading
<1>3. CASE Start
    BY <1>3, BoundsAssumption
    DEF Start, Supervised, Active, Owned, Types, States, Startup, Spins, Phases, Registered,
        IInv, reloading
<1>4. CASE BeginReload
    BY <1>4, BoundsAssumption
    DEF BeginReload, StartupOver, Supervised, Active, Owned, Types, States, Startup, Spins,
        Phases, Registered, Alive, IInv, manager
<1>5. ASSUME NEW n \in Names, Keep(n) PROVE Supervised'
    BY <1>5, BoundsAssumption
    DEF Keep, Supervised, Active, Owned, Types, States, Startup, Spins, Phases, Registered,
        Alive, IInv, manager
<1>6. ASSUME NEW n \in Names, Remove(n) PROVE Supervised'
    BY <1>6, BoundsAssumption
    DEF Remove, Supervised, Active, Owned, Types, States, Startup, Spins, Phases, Registered,
        Alive, IInv
<1>7. ASSUME NEW n \in Names, AddSkip(n) PROVE Supervised'
    BY <1>7, BoundsAssumption
    DEF AddSkip, Supervised, Active, Owned, Types, States, Startup, Spins, Phases, Registered,
        Alive, IInv, manager
<1>8. ASSUME NEW n \in Names, Add(n) PROVE Supervised'
    BY <1>8, BoundsAssumption
    DEF Add, Supervised, Active, Owned, Types, States, FreeIds, Startup, Spins, Phases,
        Registered, Alive, BuildAndAdd, IInv
<1>9. CASE RemoveShutdown
    <2>1. cur \in Ids /\ reload = "shutdown" /\ srv[cur].name \in Names
        BY <1>9 DEF RemoveShutdown, IInv, Phases, Owned
    <2>2. pending[cur] > 0 => srv[cur].name \notin TcpNames
        BY <2>1, NamesAssumption DEF IInv, Phases
    <2>3. /\ UNCHANGED <<entries, pending>>
          /\ \A j \in Ids \ {cur} : srv'[j] = srv[j]
          /\ srv'[cur] = Stopped(cur)
        BY <1>9, <2>1 DEF RemoveShutdown, IInv, Types
    <2>4. srv'[cur].state # "running" /\ (srv'[cur].state = "built" => pending[cur] = 0)
        <3>1. pending[cur] \in Nat
            BY <2>1 DEF IInv, Types
        <3>2. CASE srv[cur].state = "built" /\ srv[cur].name \in TcpNames
            BY <2>2, <2>3, <3>1, <3>2 DEF Stopped
        <3>3. CASE ~(srv[cur].state = "built" /\ srv[cur].name \in TcpNames)
            <4>1. srv'[cur].state = "stopped"
                BY <2>1, <2>3, <3>3 DEF Stopped, IInv, Types
            <4>2. QED
                BY <4>1
        <3>4. QED
            BY <3>2, <3>3
    <2>5. QED
        BY <2>1, <2>3, <2>4 DEF IInv, Supervised, Active, Registered
<1>10. CASE RemoveDone
    BY <1>10, BoundsAssumption
    DEF RemoveDone, Supervised, Active, Owned, Types, States, Startup, Spins, Phases,
        Registered, Alive, IInv, manager
<1>11. CASE Ready
    BY <1>11, BoundsAssumption
    DEF Ready, Supervised, Active, Owned, Types, States, Startup, Spins, Phases, Registered,
        Alive, IInv, manager
<1>12. CASE NotReady
    BY <1>12, BoundsAssumption
    DEF NotReady, Supervised, Active, Owned, Types, States, Startup, Spins, Phases, Registered,
        Alive, TimedOut, IInv
<1>13. CASE CancelShutdown
    <2>1. /\ cur \in Ids /\ srv'[cur].state # "running"
          /\ srv'[cur].state # "built"
          /\ \A j \in Ids \ {cur} : srv'[j] = srv[j]
        BY <1>13, NamesAssumption
        DEF CancelShutdown, Stopped, IInv, Types, Phases, Owned
    <2>2. UNCHANGED <<entries, pending>>
        BY <1>13 DEF CancelShutdown
    <2>3. QED
        BY <2>1, <2>2 DEF IInv, Supervised, Active, Registered
<1>14. CASE EndReload
    BY <1>14, BoundsAssumption
    DEF EndReload, Supervised, Active, Owned, Types, States, Startup, Spins, Phases, Registered,
        Alive, IInv, manager
<1>15. CASE Terminate
    BY <1>15, BoundsAssumption
    DEF Terminate, Supervised, Active, Owned, Types, States, Startup, Spins, Phases, Registered,
        Stopped, IInv, reloading
<1>16. ASSUME NEW i \in Ids, Spin(i) PROVE Supervised'
    BY <1>16, BoundsAssumption
    DEF Spin, Supervised, Active, Owned, Types, States, Startup, Spins, Phases, Registered,
        Alive, IInv, reloading
<1>17. ASSUME NEW i \in Ids, Fails(i) PROVE Supervised'
    BY <1>17, BoundsAssumption
    DEF Fails, Supervised, Active, Owned, Types, States, Startup, Spins, Phases, Registered,
        Alive, IInv, reloading
<1>18. ASSUME NEW i \in Ids, Collect(i) PROVE Supervised'
    BY <1>18, BoundsAssumption
    DEF Collect, Supervised, Active, Owned, Types, States, Free, Startup, Spins, Phases,
        Registered, Alive, IInv, reloading
<1>19. ASSUME NEW n \in Names, Foreign(n) PROVE Supervised'
    BY <1>19, BoundsAssumption
    DEF Foreign, Supervised, Active, Owned, Types, States, Startup, Spins, Phases, Registered,
        Alive, IInv, manager, reloading
<1>20. CASE UNCHANGED vars
    BY <1>20 DEF vars, manager, reloading, IInv, Supervised, Active, Registered
<1>21. QED
    BY <1>1, <1>2, <1>3, <1>4, <1>5, <1>6, <1>7, <1>8, <1>9, <1>10, <1>11, <1>12, <1>13, <1>14,
       <1>15, <1>16, <1>17, <1>18, <1>19, <1>20
    DEF Next, StartupStep, ReloadStep

\* A step leaves no registered server idle unnoticed.
LEMMA ServedStep ==
    ASSUME IInv, ~EarlyReload, [Next]_vars
    PROVE  Served'
<1>1. ASSUME NEW n \in Names, Register(n) PROVE Served'
    BY <1>1, BoundsAssumption
    DEF Register, Served, Supervised, Active, Owned, Types, States, FreeIds, Startup, Spins,
        Phases, Registered, BuildAndAdd, IInv, reloading
<1>2. CASE RegisterDone
    BY <1>2, BoundsAssumption
    DEF RegisterDone, Served, Supervised, Active, Owned, Types, States, Startup, Spins, Phases,
        Registered, IInv, manager, reloading
<1>3. CASE Start
    BY <1>3, BoundsAssumption
    DEF Start, Served, Supervised, Active, Owned, Types, States, Startup, Spins, Phases,
        Registered, IInv, reloading
<1>4. CASE BeginReload
    BY <1>4, BoundsAssumption
    DEF BeginReload, StartupOver, Served, Supervised, Active, Owned, Types, States, Startup,
        Spins, Phases, Registered, Alive, IInv, manager
<1>5. ASSUME NEW n \in Names, Keep(n) PROVE Served'
    BY <1>5, BoundsAssumption
    DEF Keep, Served, Supervised, Active, Owned, Types, States, Startup, Spins, Phases,
        Registered, Alive, IInv, manager
<1>6. ASSUME NEW n \in Names, Remove(n) PROVE Served'
    BY <1>6, BoundsAssumption
    DEF Remove, Served, Supervised, Active, Owned, Types, States, Startup, Spins, Phases,
        Registered, Alive, IInv
<1>7. ASSUME NEW n \in Names, AddSkip(n) PROVE Served'
    BY <1>7, BoundsAssumption
    DEF AddSkip, Served, Supervised, Active, Owned, Types, States, Startup, Spins, Phases,
        Registered, Alive, IInv, manager
<1>8. ASSUME NEW n \in Names, Add(n) PROVE Served'
    BY <1>8, BoundsAssumption
    DEF Add, Served, Supervised, Active, Owned, Types, States, FreeIds, Startup, Spins, Phases,
        Registered, Alive, BuildAndAdd, IInv
<1>9. CASE RemoveShutdown
    BY <1>9, BoundsAssumption
    DEF RemoveShutdown, Served, Supervised, Active, Owned, Types, States, Startup, Spins,
        Phases, Registered, Alive, Stopped, IInv
<1>10. CASE RemoveDone
    BY <1>10, BoundsAssumption
    DEF RemoveDone, Served, Supervised, Active, Owned, Types, States, Startup, Spins, Phases,
        Registered, Alive, IInv, manager
<1>11. CASE Ready
    BY <1>11, BoundsAssumption
    DEF Ready, Served, Supervised, Active, Owned, Types, States, Startup, Spins, Phases,
        Registered, Alive, IInv, manager
<1>12. CASE NotReady
    BY <1>12, BoundsAssumption
    DEF NotReady, Served, Supervised, Active, Owned, Types, States, Startup, Spins, Phases,
        Registered, Alive, TimedOut, IInv
<1>13. CASE CancelShutdown
    BY <1>13, BoundsAssumption
    DEF CancelShutdown, Served, Supervised, Active, Owned, Types, States, Startup, Spins,
        Phases, Registered, Alive, Stopped, IInv
<1>14. CASE EndReload
    BY <1>14, BoundsAssumption
    DEF EndReload, Served, Supervised, Active, Owned, Types, States, Startup, Spins, Phases,
        Registered, Alive, IInv, manager
<1>15. CASE Terminate
    BY <1>15, BoundsAssumption
    DEF Terminate, Served, Supervised, Active, Owned, Types, States, Startup, Spins, Phases,
        Registered, Stopped, IInv, reloading
<1>16. ASSUME NEW i \in Ids, Spin(i) PROVE Served'
    BY <1>16, BoundsAssumption
    DEF Spin, Served, Supervised, Active, Owned, Types, States, Startup, Spins, Phases,
        Registered, Alive, IInv, reloading
<1>17. ASSUME NEW i \in Ids, Fails(i) PROVE Served'
    BY <1>17, BoundsAssumption
    DEF Fails, Served, Supervised, Active, Owned, Types, States, Startup, Spins, Phases,
        Registered, Alive, IInv, reloading
<1>18. ASSUME NEW i \in Ids, Collect(i) PROVE Served'
    BY <1>18, BoundsAssumption
    DEF Collect, Served, Supervised, Active, Owned, Types, States, Free, Startup, Spins, Phases,
        Registered, Alive, IInv, reloading
<1>19. ASSUME NEW n \in Names, Foreign(n) PROVE Served'
    BY <1>19, BoundsAssumption
    DEF Foreign, Served, Supervised, Active, Owned, Types, States, Startup, Spins, Phases,
        Registered, Alive, IInv, manager, reloading
<1>20. CASE UNCHANGED vars
    BY <1>20 DEF vars, manager, reloading, IInv, Served
<1>21. QED
    BY <1>1, <1>2, <1>3, <1>4, <1>5, <1>6, <1>7, <1>8, <1>9, <1>10, <1>11, <1>12, <1>13, <1>14,
       <1>15, <1>16, <1>17, <1>18, <1>19, <1>20
    DEF Next, StartupStep, ReloadStep

\* A step keeps what both passes have achieved.
LEMMA ProgressStep ==
    ASSUME IInv, ~EarlyReload, [Next]_vars
    PROVE  Progress'
<1>1. ASSUME NEW n \in Names, Register(n) PROVE Progress'
    BY <1>1, BoundsAssumption
    DEF Register, Progress, Current, Done, Tag, Wanted, Owned, Types, States, FreeIds, Startup,
        Spins, Phases, Registered, BuildAndAdd, IInv, reloading
<1>2. CASE RegisterDone
    BY <1>2, BoundsAssumption
    DEF RegisterDone, Progress, Current, Done, Tag, Wanted, Owned, Types, States, Startup,
        Spins, Phases, Registered, IInv, manager, reloading
<1>3. CASE Start
    BY <1>3, BoundsAssumption
    DEF Start, Progress, Current, Done, Tag, Wanted, Owned, Types, States, Startup, Spins,
        Phases, Registered, IInv, reloading
<1>4. CASE BeginReload
    BY <1>4, BoundsAssumption
    DEF BeginReload, StartupOver, Progress, Current, Done, Tag, Wanted, Owned, Types,
        States, Startup, Spins, Phases, Registered, Alive, IInv, manager
<1>5. ASSUME NEW n \in Names, Keep(n) PROVE Progress'
    BY <1>5, BoundsAssumption
    DEF Keep, Progress, Current, Done, Tag, Wanted, Owned, Types, States, Startup, Spins,
        Phases, Registered, Alive, IInv, manager
<1>6. ASSUME NEW n \in Names, Remove(n) PROVE Progress'
    BY <1>6, BoundsAssumption
    DEF Remove, Progress, Current, Done, Tag, Wanted, Owned, Types, States, Startup, Spins,
        Phases, Registered, Alive, IInv
<1>7. ASSUME NEW n \in Names, AddSkip(n) PROVE Progress'
    BY <1>7, BoundsAssumption
    DEF AddSkip, Progress, Current, Done, Tag, Wanted, Owned, Types, States, Startup, Spins,
        Phases, Registered, Alive, IInv, manager
<1>8. ASSUME NEW n \in Names, Add(n) PROVE Progress'
    BY <1>8, BoundsAssumption
    DEF Add, Progress, Current, Done, Tag, Wanted, Owned, Types, States, FreeIds, Startup,
        Spins, Phases, Registered, Alive, BuildAndAdd, IInv
<1>9. CASE RemoveShutdown
    BY <1>9, BoundsAssumption
    DEF RemoveShutdown, Progress, Current, Done, Tag, Wanted, Owned, Types, States, Startup,
        Spins, Phases, Registered, Alive, Stopped, IInv
<1>10. CASE RemoveDone
    BY <1>10, BoundsAssumption
    DEF RemoveDone, Progress, Current, Done, Tag, Wanted, Owned, Types, States, Startup, Spins,
        Phases, Registered, Alive, IInv, manager
<1>11. CASE Ready
    BY <1>11, BoundsAssumption
    DEF Ready, Progress, Current, Done, Tag, Wanted, Owned, Types, States, Startup, Spins,
        Phases, Registered, Alive, IInv, manager
<1>12. CASE NotReady
    BY <1>12, BoundsAssumption
    DEF NotReady, Progress, Current, Done, Tag, Wanted, Owned, Types, States, Startup, Spins,
        Phases, Registered, Alive, TimedOut, IInv
<1>13. CASE CancelShutdown
    BY <1>13, BoundsAssumption
    DEF CancelShutdown, Progress, Current, Done, Tag, Wanted, Owned, Types, States, Startup,
        Spins, Phases, Registered, Alive, Stopped, IInv
<1>14. CASE EndReload
    BY <1>14, BoundsAssumption
    DEF EndReload, Progress, Current, Done, Tag, Wanted, Owned, Types, States, Startup, Spins,
        Phases, Registered, Alive, IInv, manager
<1>15. CASE Terminate
    BY <1>15, BoundsAssumption
    DEF Terminate, Progress, Current, Done, Tag, Wanted, Owned, Types, States, Startup, Spins,
        Phases, Registered, Stopped, IInv, reloading
<1>16. ASSUME NEW i \in Ids, Spin(i) PROVE Progress'
    <2>1. /\ \A j \in Ids : srv'[j].tag = srv[j].tag
          /\ dead \subseteq dead'
          /\ UNCHANGED <<entries, published, reload, todo, mtodo, failed>>
        BY <1>16 DEF Spin, IInv, Types, reloading
    <2>2. \A m \in Names : Current(m) => Current(m)'
        BY <2>1 DEF Current, Tag, Wanted, IInv, Types
    <2>3. \A m \in Names : (Wanted(m)' = Wanted(m)) /\ (Done(m) => Done(m)')
        BY <2>1, <2>2 DEF Done, Wanted
    <2>4. QED
        BY <2>1, <2>2, <2>3 DEF IInv, Progress
<1>17. ASSUME NEW i \in Ids, Fails(i) PROVE Progress'
    BY <1>17, BoundsAssumption
    DEF Fails, Progress, Current, Done, Tag, Wanted, Owned, Types, States, Startup, Spins,
        Phases, Registered, Alive, IInv, reloading
<1>18. ASSUME NEW i \in Ids, Collect(i) PROVE Progress'
    BY <1>18, BoundsAssumption
    DEF Collect, Progress, Current, Done, Tag, Wanted, Owned, Types, States, Free, Startup,
        Spins, Phases, Registered, Alive, IInv, reloading
<1>19. ASSUME NEW n \in Names, Foreign(n) PROVE Progress'
    BY <1>19, BoundsAssumption
    DEF Foreign, Progress, Current, Done, Tag, Wanted, Owned, Types, States, Startup, Spins,
        Phases, Registered, Alive, IInv, manager, reloading
<1>20. CASE UNCHANGED vars
    BY <1>20 DEF vars, manager, reloading, IInv, Progress, Current, Done, Tag, Wanted
<1>21. QED
    BY <1>1, <1>2, <1>3, <1>4, <1>5, <1>6, <1>7, <1>8, <1>9, <1>10, <1>11, <1>12, <1>13, <1>14,
       <1>15, <1>16, <1>17, <1>18, <1>19, <1>20
    DEF Next, StartupStep, ReloadStep

\* The initial states satisfy the invariant.
LEMMA InitIInv == Init => IInv
<1> SUFFICES ASSUME Init PROVE IInv
    OBVIOUS
<1>1. /\ entries = [n \in Names |-> None] /\ srv = [i \in Ids |-> Free]
      /\ pending = [i \in Ids |-> 0] /\ spun = [i \in Ids |-> 0]
      /\ published = 0 /\ reload = "idle" /\ todo = {} /\ cur = None /\ reloads = 0
      /\ main = "register" /\ mtodo = {n \in Names : Plan[0][n] # None}
    BY DEF Init
<1>2. /\ \A i \in Ids : srv[i] = Free /\ pending[i] = 0 /\ spun[i] = 0
      /\ \A n \in Names : entries[n] = None
    BY <1>1
<1>3. Types
    BY <1>1, BoundsAssumption DEF Init, Types, Free, States
<1>4. Owned /\ Startup
    BY <1>1, <1>2 DEF Owned, Startup, Free
<1>5. Phases /\ Spins /\ Supervised
    BY <1>1, <1>2 DEF Phases, Spins, Supervised, Active, Free
<1>6. Served /\ Progress
    BY <1>1, <1>2 DEF Served, Progress, Done, Current, Wanted
<1>7. QED
    BY <1>3, <1>4, <1>5, <1>6 DEF IInv

-----------------------------------------------------------------------------
(* The theorems                                                              *)

\* Whatever the main goroutine, the servers and the reloads do, in any order, the
\* invariant holds.
THEOREM Inductive == ASSUME ~EarlyReload PROVE Spec => []IInv
<1>1. IInv /\ [Next]_vars => IInv'
    BY TypesStep, OwnedStep, StartupInvStep, PhasesStep, SpinsStep, SupervisedStep,
       ServedStep, ProgressStep DEF IInv
<1>2. QED
    BY InitIInv, <1>1, PTL DEF Spec

\* Every variable keeps its type, and no name is left mapped to a server of another
\* name or to one that was stopped.
THEOREM TypeCorrect == ASSUME ~EarlyReload PROVE Spec => []TypeOK
<1>1. IInv => TypeOK
    BY DEF IInv, Types, Owned, TypeOK
<1>2. QED
    BY Inductive, <1>1, PTL

\* No running server escapes the manager: Manager.Remove and the failed starts of
\* reconcileListeners drop the entry of a server only to shut it down.
THEOREM NoneOrphaned == ASSUME ~EarlyReload PROVE Spec => []NoOrphans
<1>1. IInv => NoOrphans
    BY DEF IInv, Supervised, Active, NoOrphans
<1>2. QED
    BY Inductive, <1>1, PTL

\* reconcileListeners does what its comment says: when startup and the reload are
\* over, every bind the snapshot wants is served from its current fingerprint and no
\* other is, short of a start that failed and of a server that failed by itself.
THEOREM ReloadReconciles == ASSUME ~EarlyReload PROVE Spec => []Reconciled
<1>1. IInv => Reconciled
    <2> SUFFICES ASSUME IInv, Settled, NEW n \in Names
                 PROVE  /\ Wanted(n) = None => entries[n] = None
                        /\ Wanted(n) # None =>
                              \/ n \in failed \cup dead
                              \/ /\ entries[n] # None /\ Tag(n) = Wanted(n)
                                 /\ \/ srv[entries[n]].state = "running"
                                    \/ pending[entries[n]] > 0
        BY DEF Reconciled
    <2>1. Done(n)
        BY DEF IInv, Settled, Startup, Progress
    <2>2. entries[n] # None => Tag(n) # None
        BY DEF IInv, Owned, Tag
    <2>3. entries[n] # None => \/ n \in dead
                               \/ srv[entries[n]].state = "running"
                               \/ pending[entries[n]] > 0
        BY DEF IInv, Settled, Served
    <2>4. QED
        BY <2>1, <2>2, <2>3 DEF Done, Current
<1>2. QED
    BY Inductive, <1>1, PTL
=============================================================================
