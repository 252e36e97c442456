------------------------------- MODULE Listeners -------------------------------
(***************************************************************************)
(* The listeners of the process: the lifecycle manager of                  *)
(* internal/core/lifecycle/lifecycle.go, the startup code and              *)
(* reconcileListeners of internal/app/server.go, and the HTTP/3 server of  *)
(* internal/app/http3.go.                                                  *)
(*                                                                         *)
(* The manager maps a name (one per bind) to a server and a tag, the       *)
(* fingerprint of the configuration it was built from.  A TCP server has   *)
(* its socket from the moment it is built; an HTTP/3 server binds when it  *)
(* spins.  The main goroutine builds and registers the listeners of the    *)
(* snapshot it read early and then spins everything that is registered.  A *)
(* reload publishes a snapshot and reconciles: it removes what is not      *)
(* wanted or has another tag, then builds and starts what is missing.      *)
(* runtimeReloadMu admits one reload at a time, but nothing keeps a reload *)
(* from running before startup is over: the subscriber and the threat      *)
(* intelligence manager are started first, and the goroutines that Start   *)
(* spawns run when the scheduler says so (EarlyReload).                    *)
(*                                                                         *)
(* The admin listener, which no reload touches, and the connections of a   *)
(* server that shuts down are left out.                                    *)
(***************************************************************************)
EXTENDS Integers, FiniteSets

CONSTANTS
    TcpNames,     \* names "site:<bind>"
    H3Names,      \* names "h3:<bind>"
    Tags,         \* fingerprints
    MaxRevision,  \* bound: snapshots published after the first
    Plan,         \* the tag each snapshot wants for each name, or None
    Ids,          \* bound: servers that exist at the same time
    MaxReloads,   \* bound: reloads
    EarlyReload,  \* whether a reload may begin before startup is over
    None

Names == TcpNames \cup H3Names

ASSUME NamesAssumption == TcpNames \cap H3Names = {} /\ IsFiniteSet(Names)
ASSUME PlanAssumption == Plan \in [0..MaxRevision -> [Names -> Tags \cup {None}]]
ASSUME BoundsAssumption ==
    /\ MaxRevision \in Nat /\ MaxReloads \in Nat /\ EarlyReload \in BOOLEAN
    /\ Ids # {} /\ None \notin Ids \cup Names \cup Tags

VARIABLES
    entries,    \* Manager.entries: the server registered under each name
    srv,        \* the servers: name, tag and state
    pending,    \* goroutines that are about to call a server's Spin
    spun,       \* history: how often a server's Spin was called
    published,  \* revision of the published snapshot
    reload,     \* where the reload is
    todo,       \* names the reload's current pass has still to look at
    cur,        \* the server the reload is shutting down or waiting for
    reloads,    \* how many reloads have begun
    main,       \* where the main goroutine is
    mtodo,      \* names it has still to register
    foreign,    \* binds held by another process
    failed,     \* history: names the last reconciliation could not start
    dead        \* history: names whose server failed once it was left alone

manager == <<entries, srv, pending, spun>>
reloading == <<published, reload, todo, cur, reloads>>
vars == <<manager, reloading, main, mtodo, foreign, failed, dead>>

States == {"free", "built", "running", "failed", "stopped"}
Free == [name |-> None, tag |-> None, state |-> "free"]

TypeOK ==
    /\ entries \in [Names -> Ids \cup {None}]
    /\ srv \in [Ids -> [name : Names \cup {None}, tag : Tags \cup {None}, state : States]]
    /\ pending \in [Ids -> Nat] /\ spun \in [Ids -> Nat]
    /\ published \in 0..MaxRevision
    /\ reload \in {"idle", "remove", "shutdown", "add", "wait", "cancel"}
    /\ todo \subseteq Names /\ cur \in Ids \cup {None} /\ reloads \in 0..MaxReloads
    /\ main \in {"register", "start", "up", "down"} /\ mtodo \subseteq Names
    /\ foreign \subseteq Names /\ failed \subseteq Names /\ dead \subseteq Names
    /\ \A n \in Names : entries[n] # None =>
          /\ srv[entries[n]].name = n
          /\ srv[entries[n]].state # "free"
          /\ srv[entries[n]].state = "stopped" => main = "down"

Registered(i) == \E n \in Names : entries[n] = i
Tag(n) == srv[entries[n]].tag
Wanted(n) == Plan[published][n]

\* The socket of n is held by another process or by a server of this one.  A TCP
\* server that was built and is not running holds it too.
Held(n) ==
    \/ n \in foreign
    \/ \E i \in Ids : /\ srv[i].name = n
                      /\ \/ srv[i].state = "running"
                         \/ srv[i].state = "built" /\ n \in TcpNames

FreeIds == {i \in Ids : srv[i].state = "free"}

\* Building a TCP server fails when its socket is held.
CanBuild(n) == n \in H3Names \/ ~Held(n)

\* Build a server for n and register it, over whatever was registered there.
BuildAndAdd(n, tag, i) ==
    /\ entries' = [entries EXCEPT ![n] = i]
    /\ srv' = [srv EXCEPT ![i] = [name |-> n, tag |-> tag, state |-> "built"]]

\* Shutdown: a TCP server that is not running answers "engine is not running" and
\* keeps its socket; an HTTP/3 server will not bind any more.
Stopped(i) ==
    IF srv[i].state = "built" /\ srv[i].name \in TcpNames
    THEN srv[i] ELSE [srv[i] EXCEPT !.state = "stopped"]

Alive == main # "down"

-----------------------------------------------------------------------------
(* Startup                                                                   *)

\* The snapshot of revision 0 was read before anything could publish another one.
Register(n) ==
    /\ main = "register" /\ n \in mtodo
    /\ mtodo' = mtodo \ {n}
    /\ \/ /\ CanBuild(n)
          /\ \E i \in FreeIds : BuildAndAdd(n, Plan[0][n], i)
          /\ UNCHANGED dead
       \/ \* the socket is held, or there is no valid TLS configuration
          /\ n \in TcpNames
          /\ dead' = dead \cup {n}
          /\ UNCHANGED <<entries, srv>>
    /\ UNCHANGED <<pending, spun, reloading, main, foreign, failed>>

RegisterDone ==
    /\ main = "register" /\ mtodo = {}
    /\ main' = "start"
    /\ UNCHANGED <<manager, reloading, mtodo, foreign, failed, dead>>

\* Start spins every registered server; its error is ignored.
Start ==
    /\ main = "start"
    /\ main' = "up"
    /\ pending' = [i \in Ids |-> pending[i] + (IF Registered(i) THEN 1 ELSE 0)]
    /\ UNCHANGED <<entries, srv, spun, reloading, mtodo, foreign, failed, dead>>

\* SIGINT or SIGTERM: Manager.Shutdown, and the process ends.
Terminate ==
    /\ main = "up"
    /\ main' = "down"
    /\ srv' = [i \in Ids |-> IF Registered(i) THEN Stopped(i) ELSE srv[i]]
    /\ UNCHANGED <<entries, pending, spun, reloading, mtodo, foreign, failed, dead>>

-----------------------------------------------------------------------------
(* The goroutine of a server                                                 *)

Spin(i) ==
    /\ Alive /\ pending[i] > 0
    /\ pending' = [pending EXCEPT ![i] = @ - 1]
    /\ spun' = [spun EXCEPT ![i] = @ + 1]
    /\ LET n == srv[i].name
       IN \/ /\ srv[i].state = "built" /\ (n \in TcpNames \/ ~Held(n))
             /\ srv' = [srv EXCEPT ![i].state = "running"]
             /\ UNCHANGED dead
          \/ \* the bind is held, or Run or Serve fails at once
             /\ srv[i].state = "built"
             /\ srv' = [srv EXCEPT ![i].state = "failed"]
             /\ dead' = IF cur = i THEN dead ELSE dead \cup {n}
          \/ \* it runs already, or Shutdown came first
             /\ srv[i].state # "built"
             /\ UNCHANGED <<srv, dead>>
    /\ UNCHANGED <<entries, reloading, main, mtodo, foreign, failed>>

\* Serve returns an error of its own.
Fails(i) ==
    /\ Alive /\ srv[i].state = "running" /\ cur # i
    /\ srv' = [srv EXCEPT ![i].state = "failed"]
    /\ dead' = dead \cup {srv[i].name}
    /\ UNCHANGED <<entries, pending, spun, reloading, main, mtodo, foreign, failed>>

\* Nothing refers to the server any more; the collector also closes its socket.
Collect(i) ==
    /\ Alive
    /\ srv[i].state \in {"built", "failed", "stopped"}
    /\ ~Registered(i) /\ cur # i /\ pending[i] = 0
    /\ srv' = [srv EXCEPT ![i] = Free]
    /\ spun' = [spun EXCEPT ![i] = 0]
    /\ UNCHANGED <<entries, pending, reloading, main, mtodo, foreign, failed, dead>>

-----------------------------------------------------------------------------
(* applySnapshotReload and reconcileListeners                                *)

\* Startup is over when Start has spawned its goroutines and those of the TCP servers
\* run.  A goroutine of a later reload is only late when its HTTP/3 server timed out.
StartupOver == main = "up" /\ \A i \in Ids : pending[i] > 0 => srv[i].name \in H3Names

\* The reload publishes a newer snapshot, or finds none and reconciles again.
BeginReload ==
    /\ reload = "idle" /\ Alive /\ reloads < MaxReloads
    /\ EarlyReload \/ StartupOver
    /\ reloads' = reloads + 1
    /\ published' \in {published, published + 1} \cap 0..MaxRevision
    /\ reload' = "remove"
    /\ todo' = {n \in Names : entries[n] # None}
    /\ failed' = {}
    /\ UNCHANGED <<manager, cur, main, mtodo, foreign, dead>>

Keep(n) ==
    /\ reload = "remove" /\ n \in todo /\ Alive
    /\ entries[n] # None => Tag(n) = Wanted(n)
    /\ todo' = todo \ {n}
    /\ UNCHANGED <<manager, published, reload, cur, reloads, main, mtodo, foreign,
                   failed, dead>>

\* Mutant: only names that are not wanted any more are removed.
RemoveUnwanted(n) ==
    /\ reload = "remove" /\ n \in todo /\ Alive
    /\ entries[n] # None /\ Tag(n) # Wanted(n)
    /\ IF Wanted(n) = None
       THEN /\ entries' = [entries EXCEPT ![n] = None]
            /\ cur' = entries[n] /\ reload' = "shutdown" /\ dead' = dead \ {n}
       ELSE UNCHANGED <<entries, cur, reload, dead>>
    /\ todo' = todo \ {n}
    /\ UNCHANGED <<srv, pending, spun, published, reloads, main, mtodo, foreign, failed>>

\* Mutant: the server is shut down and its entry stays.
RemoveKept(n) ==
    /\ reload = "remove" /\ n \in todo /\ Alive
    /\ entries[n] # None /\ Tag(n) # Wanted(n)
    /\ cur' = entries[n]
    /\ reload' = "shutdown"
    /\ todo' = todo \ {n}
    /\ dead' = dead \ {n}
    /\ UNCHANGED <<manager, published, reloads, main, mtodo, foreign, failed>>

\* Manager.Remove deletes the entry under its lock and shuts the server down after.
Remove(n) ==
    /\ reload = "remove" /\ n \in todo /\ Alive
    /\ entries[n] # None /\ Tag(n) # Wanted(n)
    /\ entries' = [entries EXCEPT ![n] = None]
    /\ cur' = entries[n]
    /\ reload' = "shutdown"
    /\ todo' = todo \ {n}
    /\ dead' = dead \ {n}
    /\ UNCHANGED <<srv, pending, spun, published, reloads, main, mtodo, foreign, failed>>

\* Mutant: the server that was removed is left running.
RemoveShutdownSkipped ==
    /\ reload = "shutdown" /\ Alive
    /\ cur' = None /\ reload' = "remove"
    /\ UNCHANGED <<manager, published, todo, reloads, main, mtodo, foreign, failed, dead>>

RemoveShutdown ==
    /\ reload = "shutdown" /\ Alive
    /\ srv' = [srv EXCEPT ![cur] = Stopped(cur)]
    /\ cur' = None /\ reload' = "remove"
    /\ UNCHANGED <<entries, pending, spun, published, todo, reloads, main, mtodo,
                   foreign, failed, dead>>

RemoveDone ==
    /\ reload = "remove" /\ todo = {} /\ Alive
    /\ reload' = "add"
    /\ todo' = {n \in Names : Wanted(n) # None}
    /\ UNCHANGED <<manager, published, cur, reloads, main, mtodo, foreign, failed, dead>>

AddSkip(n) ==
    /\ reload = "add" /\ n \in todo /\ Alive
    /\ \/ entries[n] # None /\ UNCHANGED failed
       \/ \* the socket is held, or there is no valid TLS configuration
          /\ entries[n] = None /\ n \in TcpNames
          /\ failed' = failed \cup {n}
    /\ todo' = todo \ {n}
    /\ UNCHANGED <<manager, published, reload, cur, reloads, main, mtodo, foreign, dead>>

\* AddWithTag and StartOne.
Add(n) ==
    /\ reload = "add" /\ n \in todo /\ Alive
    /\ entries[n] = None /\ CanBuild(n)
    /\ \E i \in FreeIds :
          /\ BuildAndAdd(n, Wanted(n), i)
          /\ pending' = [pending EXCEPT ![i] = @ + 1]
          /\ cur' = i
    /\ todo' = todo \ {n}
    /\ reload' = "wait"
    /\ dead' = dead \ {n}
    /\ UNCHANGED <<spun, published, reloads, main, mtodo, foreign, failed>>

\* waitReady sees the server running.
Ready ==
    /\ reload = "wait" /\ Alive
    /\ srv[cur].state = "running"
    /\ cur' = None /\ reload' = "add"
    /\ UNCHANGED <<manager, published, todo, reloads, main, mtodo, foreign, failed, dead>>

\* waitReady sees an error, or its five seconds are over.  A TCP server is running
\* as soon as its goroutine is, which five seconds are taken to be enough for.
TimedOut(i) ==
    srv[i].state = "failed" \/ (srv[i].state = "built" /\ srv[i].name \in H3Names)

\* The entry of a server that did not start is removed, if it is still there.
NotReady ==
    /\ reload = "wait" /\ Alive
    /\ TimedOut(cur)
    /\ LET n == srv[cur].name IN
          /\ cur' = entries[n]
          /\ entries' = [entries EXCEPT ![n] = None]
          /\ failed' = failed \cup {n}
          /\ reload' = IF entries[n] = None THEN "add" ELSE "cancel"
    /\ UNCHANGED <<srv, pending, spun, published, todo, reloads, main, mtodo, foreign, dead>>

CancelShutdown ==
    /\ reload = "cancel" /\ Alive
    /\ srv' = [srv EXCEPT ![cur] = Stopped(cur)]
    /\ cur' = None /\ reload' = "add"
    /\ UNCHANGED <<entries, pending, spun, published, todo, reloads, main, mtodo,
                   foreign, failed, dead>>

EndReload ==
    /\ reload = "add" /\ todo = {} /\ Alive
    /\ reload' = "idle"
    /\ UNCHANGED <<manager, published, todo, cur, reloads, main, mtodo, foreign, failed, dead>>

\* Another process takes or gives back a bind.
Foreign(n) ==
    /\ Alive
    /\ \/ n \notin foreign /\ ~Held(n) /\ foreign' = foreign \cup {n}
       \/ n \in foreign /\ foreign' = foreign \ {n}
    /\ UNCHANGED <<manager, reloading, main, mtodo, failed, dead>>

-----------------------------------------------------------------------------
Init ==
    /\ entries = [n \in Names |-> None]
    /\ srv = [i \in Ids |-> Free]
    /\ pending = [i \in Ids |-> 0] /\ spun = [i \in Ids |-> 0]
    /\ published = 0 /\ reload = "idle" /\ todo = {} /\ cur = None /\ reloads = 0
    /\ main = "register" /\ mtodo = {n \in Names : Plan[0][n] # None}
    /\ foreign = {} /\ failed = {} /\ dead = {}

StartupStep == (\E n \in Names : Register(n)) \/ RegisterDone \/ Start

ReloadStep ==
    \/ \E n \in Names : Keep(n) \/ Remove(n) \/ AddSkip(n) \/ Add(n)
    \/ RemoveShutdown \/ RemoveDone \/ Ready \/ NotReady \/ CancelShutdown \/ EndReload

Next ==
    \/ StartupStep \/ BeginReload \/ ReloadStep \/ Terminate
    \/ \E i \in Ids : Spin(i) \/ Fails(i) \/ Collect(i)
    \/ \E n \in Names : Foreign(n)

Spec == Init /\ [][Next]_vars

-----------------------------------------------------------------------------
Settled == main = "up" /\ reload = "idle"

\* The comment of reconcileListeners: it compares the listeners with the snapshot,
\* starts and stops what that takes, and restarts a listener whose configuration
\* has drifted.  Once startup and the reload are over, every bind the snapshot
\* wants is served from its current fingerprint and no other bind is, short of a
\* start that failed and of a server that failed by itself.
Reconciled ==
    Settled => \A n \in Names :
        /\ Wanted(n) = None => entries[n] = None
        /\ Wanted(n) # None =>
              \/ n \in failed \cup dead
              \/ /\ entries[n] # None /\ Tag(n) = Wanted(n)
                 /\ srv[entries[n]].state = "running" \/ pending[entries[n]] > 0

\* A running server is one the manager knows, or one the reload is shutting down:
\* no other server can ever be stopped, and it keeps its bind.
NoOrphans ==
    \A i \in Ids : srv[i].state = "running" => Registered(i) \/ cur = i

\* What Start and StartOne do not keep: between them they spin a TCP server twice when
\* a reload started it before Start does.  hertzServer.Spin closes its done channel when
\* it returns, and closing it again panics.  Without such a reload it cannot fail, so no
\* run claims it.
SpunOnce ==
    \A i \in Ids : srv[i].name \in TcpNames => spun[i] + pending[i] <= 1
=============================================================================
