------------------------------- MODULE FeedSync -------------------------------
(***************************************************************************)
(* The threat intelligence feeds: the manager of                           *)
(* internal/waf/threatintel/manager.go, the repository it writes through   *)
(* (internal/store/repository/threat_intel.go), and the admin handlers of  *)
(* internal/admin/system/threatintel/threat_intel.go and of                *)
(* internal/admin/system/iplist/iplist.go.                                 *)
(*                                                                         *)
(* A feed is a row: what the admin configured, when it was last synced,    *)
(* with which error and how many entries.  Its entries are rows of the IP  *)
(* lists.  A background loop syncs the enabled feeds that are due, one     *)
(* after the other; an admin request syncs one at once.  A sync reads the  *)
(* row, fetches the list, replaces the entries in one transaction, saves   *)
(* the row it read at the start with the result in it, and reloads.  The   *)
(* syncing set keeps two syncs of one feed apart, but nothing keeps a sync *)
(* and an admin request apart; which feeds that happened to is recorded in *)
(* crossed.  The handlers of the IP lists add, delete and rewrite single   *)
(* entries by hand, those of a feed too; touched records for which feeds.  *)
(*                                                                         *)
(* Of an entry only its identifier is kept, and a fetch returns any set of *)
(* new ones.  LastSyncAt is kept as far as isDue looks at it; the interval *)
(* of a feed does not change.  The table of past syncs is only written     *)
(* here and left out, and what a reload does is the subject of             *)
(* ConfigReload: here it only takes time.                                  *)
(***************************************************************************)
EXTENDS Integers, FiniteSets

CONSTANTS
    Feeds,        \* identifiers; the database never gives one out twice
    EntryIds,     \* identifiers of entries
    Settings,     \* what the admin configures besides Enabled
    Admins,       \* requests to the admin API that run at the same time
    Loop,         \* the goroutine of the manager
    MaxRestarts,  \* bound: restarts of the process
    None

Procs == Admins \cup {Loop}

ASSUME FeedsAssumption == IsFiniteSet(Feeds) /\ IsFiniteSet(EntryIds) /\ None \notin Feeds
ASSUME ProcsAssumption == Loop \notin Admins
ASSUME BoundAssumption == MaxRestarts \in Nat

VARIABLES
    row,         \* threat_intel_feeds
    entries,     \* the entries of each feed in the IP lists
    created,     \* identifiers given out
    syncing,     \* Manager.syncing
    proc,        \* what each goroutine is doing
    pending,     \* feeds the loop's round has still to sync
    stopped,     \* Manager.stopCh is closed
    restarts,    \* restarts so far
    unrecorded,  \* history: feeds whose last sync could not write its result back
    wanted,      \* history: the settings of the last admin request that saved them
    deleted,     \* history: feeds whose deletion was committed
    crossed,     \* history: feeds written by one while another held a copy of the row
    touched      \* history: feeds with entries edited by hand since they were replaced

database == <<row, entries, created>>
history == <<unrecorded, wanted, deleted, crossed, touched>>
vars == <<database, syncing, proc, pending, stopped, restarts, history>>

Rows == [set : Settings, enabled : BOOLEAN, last : {"never", "recent", "old"},
         err : BOOLEAN, count : 0..Cardinality(EntryIds)]

ASSUME RowsAssumption == None \notin Rows

Stages == {"idle", "load", "fetch", "replace", "record", "reload",
           "save", "put", "apply", "done"}

\* A goroutine: its feed, its copy of the row, the entries it is going to write, and
\* whether the sync has failed.
Idle == [at |-> "idle", feed |-> None, copy |-> None, list |-> {}, err |-> FALSE]

\* The goroutines inside syncFeedInternal for feed f.
Syncs(f) == {p \in Procs : /\ proc[p].feed = f
                           /\ proc[p].at \in {"load", "fetch", "replace", "record", "reload"}}

TypeOK ==
    /\ row \in [Feeds -> Rows \cup {None}]
    /\ entries \in [Feeds -> SUBSET EntryIds]
    /\ created \subseteq Feeds /\ syncing \subseteq created /\ pending \subseteq created
    /\ proc \in [Procs -> [at : Stages, feed : Feeds \cup {None}, copy : Rows \cup {None},
                           list : SUBSET EntryIds, err : BOOLEAN]]
    /\ stopped \in BOOLEAN /\ restarts \in 0..MaxRestarts
    /\ unrecorded \subseteq created /\ deleted \subseteq created /\ crossed \subseteq created
    /\ touched \subseteq Feeds
    /\ wanted \in [Feeds -> Settings \cup {None}]
    /\ \A f \in syncing : Cardinality(Syncs(f)) = 1

Exists(f) == row[f] # None

\* isDue of an enabled feed: never synced, or its interval has passed.
isDue(f) == Exists(f) /\ row[f].enabled /\ row[f].last # "recent"

\* The goroutine p goes on to stage s, or returns.
Goes(p, s) == proc' = [proc EXCEPT ![p].at = s]
Returns(p) == proc' = [proc EXCEPT ![p] = Idle]

\* p writes feed f; another goroutine that has read its row, and will write what it
\* makes of it, does not know.
Holds(q, f) == proc[q].feed = f /\ proc[q].at \in {"fetch", "replace", "record", "save"}
Cross(p, f) ==
    crossed' = IF \E q \in Procs \ {p} : Holds(q, f) THEN crossed \cup {f} ELSE crossed

\* An identifier nothing refers to stands for one the database has not given out.
Unused == EntryIds \ (UNION {entries[f] : f \in Feeds} \cup UNION {proc[p].list : p \in Procs})

\* Manager.Start starts the loop, unless AutoMigrate fails.
Start == {[p \in Procs |-> IF p = Loop THEN [Idle EXCEPT !.at = s] ELSE Idle] :
             s \in {"idle", "done"}}

Init ==
    /\ row = [f \in Feeds |-> None] /\ entries = [f \in Feeds |-> {}] /\ created = {}
    /\ syncing = {} /\ proc \in Start /\ pending = {}
    /\ stopped = FALSE /\ restarts = 0
    /\ unrecorded = {} /\ deleted = {} /\ crossed = {} /\ touched = {}
    /\ wanted = [f \in Feeds |-> None]

-----------------------------------------------------------------------------
(* The manager                                                               *)

\* syncDueFeeds: the list of enabled feeds is read once per round.  A query that
\* fails changes nothing and the next tick tries again.  After Stop the select may
\* still take a tick that is ready.
Round ==
    /\ proc[Loop].at = "idle" /\ pending = {}
    /\ pending' = {f \in Feeds : isDue(f)}
    /\ pending' # {}
    /\ UNCHANGED <<database, syncing, proc, stopped, restarts, history>>

\* Mutant: without the syncing set.
ClaimAlways(p, f) ==
    /\ syncing' = syncing \cup {f}
    /\ proc' = [proc EXCEPT ![p] = [Idle EXCEPT !.at = "load", !.feed = f]]

\* The entry of syncFeedInternal: a feed that is being synced is left alone, and the
\* caller is told that all is well.
Claim(p, f) ==
    IF f \in syncing
    THEN UNCHANGED <<syncing, proc>>
    ELSE /\ syncing' = syncing \cup {f}
         /\ proc' = [proc EXCEPT ![p] = [Idle EXCEPT !.at = "load", !.feed = f]]

\* SyncFeed, from the loop.
SyncFeed(f) ==
    /\ proc[Loop].at = "idle" /\ f \in pending
    /\ pending' = pending \ {f}
    /\ Claim(Loop, f)
    /\ UNCHANGED <<database, stopped, restarts, history>>

\* SyncNow, from the admin API, also for a feed that is disabled.
SyncNow(a, f) ==
    /\ proc[a].at = "idle" /\ f \in created
    /\ Claim(a, f)
    /\ UNCHANGED <<database, pending, stopped, restarts, history>>

\* Mutant: the feed is released where the function ends well, and nowhere else.
LeaveClaimed(p) ==
    /\ syncing' = IF proc[p].at = "reload"
                  THEN syncing \ {proc[p].feed} ELSE syncing
    /\ Returns(p)

\* The deferred function of syncFeedInternal, when p returns.
Leave(p) == syncing' = syncing \ {proc[p].feed} /\ Returns(p)

\* Mutant: the error of the query is not looked at and an empty feed is synced.
LoadFeedIgnored(p) ==
    /\ proc[p].at = "load"
    /\ \E s \in Settings :
          proc' = [proc EXCEPT ![p].at = "fetch",
                      ![p].copy = IF Exists(proc[p].feed) THEN row[proc[p].feed]
                                  ELSE [set |-> s, enabled |-> FALSE, last |-> "never",
                                        err |-> FALSE, count |-> 0]]
    /\ UNCHANGED <<database, syncing, pending, stopped, restarts, history>>

\* repo.Get finds the row, or the feed is gone, or the query fails.
LoadFeed(p) ==
    /\ proc[p].at = "load"
    /\ \/ /\ Exists(proc[p].feed)
          /\ proc' = [proc EXCEPT ![p].at = "fetch", ![p].copy = row[proc[p].feed]]
          /\ UNCHANGED syncing
       \/ Leave(p)
    /\ UNCHANGED <<database, pending, stopped, restarts, history>>

\* What the parser makes of a body: lines that are no address or network are skipped
\* and duplicates removed, so any number of entries, possibly none.
parseEntries == SUBSET Unused

\* fetchAndParse returns a list or an error: no answer within the timeout, another
\* status, a body that cannot be unpacked.
fetchAndParse(p) ==
    /\ proc[p].at = "fetch"
    /\ \/ \E l \in parseEntries :
             proc' = [proc EXCEPT ![p].at = "replace", ![p].list = l]
       \/ proc' = [proc EXCEPT ![p].at = "record", ![p].err = TRUE]
    /\ UNCHANGED <<database, syncing, pending, stopped, restarts, history>>

\* ReplaceFeedEntries: one transaction, which may fail as a whole, or be committed
\* although the answer is an error.  It does not ask whether the feed still exists.
ReplaceFeedEntries(p) ==
    /\ proc[p].at = "replace"
    /\ \/ /\ entries' = [entries EXCEPT ![proc[p].feed] = proc[p].list]
          /\ touched' = touched \ {proc[p].feed}
          /\ Goes(p, "record")
       \/ /\ proc' = [proc EXCEPT ![p].at = "record", ![p].err = TRUE, ![p].list = {}]
          /\ entries' \in {entries, [entries EXCEPT ![proc[p].feed] = proc[p].list]}
          /\ UNCHANGED touched
    /\ Cross(p, proc[p].feed)
    /\ UNCHANGED <<row, created, syncing, pending, stopped, restarts, unrecorded, wanted, deleted>>

\* repo.Update is gorm's Save: every column, and an insert when there is no such row.
Save(f, r) == row' = [row EXCEPT ![f] = r]

\* recordResult saves the row that was read before the fetch.  A failed save is only
\* logged.  A sync with an error ends here, the other one reloads.
recordResult(p) ==
    LET f == proc[p].feed IN
    /\ proc[p].at = "record"
    /\ \/ /\ Save(f, [proc[p].copy EXCEPT !.last = "recent", !.err = proc[p].err,
                                          !.count = Cardinality(proc[p].list)])
          /\ unrecorded' = unrecorded \ {f}
       \/ /\ unrecorded' = unrecorded \cup {f}
          /\ UNCHANGED row
    /\ Cross(p, f)
    /\ IF proc[p].err THEN Leave(p) ELSE Goes(p, "reload") /\ UNCHANGED syncing
    /\ UNCHANGED <<entries, created, pending, stopped, restarts, wanted, deleted, touched>>

\* The reload succeeds or fails, and a failure is only logged.
SyncReload(p) ==
    /\ proc[p].at = "reload"
    /\ Leave(p)
    /\ UNCHANGED <<database, pending, stopped, restarts, history>>

SyncStep(p) ==
    LoadFeed(p) \/ fetchAndParse(p) \/ ReplaceFeedEntries(p) \/ recordResult(p) \/ SyncReload(p)

\* Stop closes stopCh; the loop looks at it between two rounds.
Stop ==
    /\ ~stopped /\ stopped' = TRUE
    /\ UNCHANGED <<database, syncing, proc, pending, restarts, history>>

LoopExit ==
    /\ stopped /\ proc[Loop].at = "idle" /\ pending = {}
    /\ Goes(Loop, "done")
    /\ UNCHANGED <<database, syncing, pending, stopped, restarts, history>>

-----------------------------------------------------------------------------
(* The admin handlers                                                        *)

\* CreateThreatIntelFeed; the fields a sync writes start empty.
CreateThreatIntelFeed(a, f) ==
    /\ proc[a].at = "idle" /\ f \notin created
    /\ \E s \in Settings, e \in BOOLEAN :
          /\ Save(f, [set |-> s, enabled |-> e, last |-> "never", err |-> FALSE, count |-> 0])
          /\ wanted' = [wanted EXCEPT ![f] = s]
    /\ created' = created \cup {f}
    /\ proc' = [proc EXCEPT ![a].at = "apply", ![a].feed = f]
    /\ UNCHANGED <<entries, syncing, pending, stopped, restarts, unrecorded, deleted, crossed,
                   touched>>

\* UpdateThreatIntelFeed reads the row and changes the fields of the request in it.
UpdateThreatIntelFeed(a, f) ==
    /\ proc[a].at = "idle" /\ Exists(f)
    /\ \E s \in Settings, e \in BOOLEAN :
          proc' = [proc EXCEPT ![a] = [Idle EXCEPT !.at = "save", !.feed = f,
                      !.copy = [row[f] EXCEPT !.set = s, !.enabled = e]]]
    /\ UNCHANGED <<database, syncing, pending, stopped, restarts, history>>

\* It saves the whole row, or answers with an error.
UpdateSave(a) ==
    LET f == proc[a].feed IN
    /\ proc[a].at = "save"
    /\ \/ /\ Save(f, proc[a].copy)
          /\ wanted' = [wanted EXCEPT ![f] = proc[a].copy.set]
          /\ Cross(a, f)
          /\ Goes(a, "apply")
       \/ /\ Returns(a)
          /\ UNCHANGED <<row, wanted, crossed>>
    /\ UNCHANGED <<entries, created, syncing, pending, stopped, restarts, unrecorded, deleted,
                   touched>>

\* DeleteThreatIntelFeed: the feed and its entries go in one transaction.  One that
\* fails changes nothing.
DeleteThreatIntelFeed(a, f) ==
    /\ proc[a].at = "idle" /\ f \in created
    /\ row' = [row EXCEPT ![f] = None]
    /\ entries' = [entries EXCEPT ![f] = {}]
    /\ deleted' = deleted \cup {f} /\ touched' = touched \ {f}
    /\ Cross(a, f)
    /\ proc' = [proc EXCEPT ![a].at = "apply", ![a].feed = f]
    /\ UNCHANGED <<created, syncing, pending, stopped, restarts, unrecorded, wanted>>

\* CreateIPEntry takes the feed from the request and does not ask whether it exists.
CreateIPEntry(a, f) ==
    /\ proc[a].at = "idle"
    /\ \E e \in Unused : entries' = [entries EXCEPT ![f] = @ \cup {e}]
    /\ touched' = touched \cup {f}
    /\ Goes(a, "apply")
    /\ UNCHANGED <<row, created, syncing, pending, stopped, restarts, unrecorded, wanted,
                   deleted, crossed>>

\* DeleteIPEntry goes by the identifier of the entry, whoever made it.
DeleteIPEntry(a, f) ==
    /\ proc[a].at = "idle"
    /\ \E e \in entries[f] : entries' = [entries EXCEPT ![f] = @ \ {e}]
    /\ touched' = touched \cup {f}
    /\ Goes(a, "apply")
    /\ UNCHANGED <<row, created, syncing, pending, stopped, restarts, unrecorded, wanted,
                   deleted, crossed>>

\* UpdateIPEntry reads an entry and changes none of the columns that are kept here.
UpdateIPEntry(a, f) ==
    /\ proc[a].at = "idle"
    /\ \E e \in entries[f] :
          proc' = [proc EXCEPT ![a] = [Idle EXCEPT !.at = "put", !.feed = f, !.list = {e}]]
    /\ UNCHANGED <<database, syncing, pending, stopped, restarts, history>>

\* It saves the whole entry, or answers with an error.  gorm's Save inserts an entry
\* that is gone: deleted, replaced by a sync, or deleted with its feed.
UpdateIPSave(a) ==
    LET f == proc[a].feed IN
    /\ proc[a].at = "put"
    /\ \/ /\ entries' = [entries EXCEPT ![f] = @ \cup proc[a].list]
          /\ touched' = IF proc[a].list \subseteq entries[f] THEN touched ELSE touched \cup {f}
          /\ Goes(a, "apply")
       \/ /\ Returns(a)
          /\ UNCHANGED <<entries, touched>>
    /\ UNCHANGED <<row, created, syncing, pending, stopped, restarts, unrecorded, wanted,
                   deleted, crossed>>

\* The handlers end with a reload and the answer.
AdminReload(a) ==
    /\ proc[a].at = "apply"
    /\ Returns(a)
    /\ UNCHANGED <<database, syncing, pending, stopped, restarts, history>>

AdminStep(a) == UpdateSave(a) \/ UpdateIPSave(a) \/ AdminReload(a)

-----------------------------------------------------------------------------
(* Time and crashes                                                          *)

Aged(r) == IF r # None /\ r.last = "recent" THEN [r EXCEPT !.last = "old"] ELSE r

\* The interval of f ends.  A copy an admin request holds is not newer than the row,
\* so its interval is over too; it may end before that of the row.
Elapse(f) ==
    /\ proc' = [p \in Procs |-> IF proc[p].feed = f
                                THEN [proc[p] EXCEPT !.copy = Aged(@)] ELSE proc[p]]
    /\ row' = [row EXCEPT ![f] = Aged(@)] \/ row' = row
    /\ UNCHANGED <<entries, created, syncing, pending, stopped, restarts, history>>

\* The process ends, orderly or not, and starts again with what is in the database.
Restart ==
    /\ restarts < MaxRestarts /\ restarts' = restarts + 1
    /\ syncing' = {} /\ pending' = {} /\ proc' \in Start /\ stopped' = FALSE
    /\ unrecorded' = unrecorded \cup {proc[p].feed : p \in {q \in Procs : proc[q].at = "record"}}
    /\ UNCHANGED <<database, wanted, deleted, crossed, touched>>

Next ==
    \/ Round \/ Stop \/ LoopExit \/ Restart
    \/ \E f \in Feeds : SyncFeed(f) \/ Elapse(f)
    \/ \E p \in Procs : SyncStep(p)
    \/ \E a \in Admins : AdminStep(a)
    \/ \E a \in Admins, f \in Feeds :
          \/ SyncNow(a, f) \/ CreateThreatIntelFeed(a, f)
          \/ UpdateThreatIntelFeed(a, f) \/ DeleteThreatIntelFeed(a, f)
          \/ CreateIPEntry(a, f) \/ UpdateIPEntry(a, f) \/ DeleteIPEntry(a, f)

\* The ticker fires and goroutines run; the client's timeout ends every fetch and
\* the database answers every query.
Fairness ==
    /\ WF_vars(Round) /\ WF_vars(\E f \in Feeds : SyncFeed(f))
    /\ \A p \in Procs : WF_vars(SyncStep(p))
    /\ \A a \in Admins : WF_vars(AdminStep(a))

Spec == Init /\ [][Next]_vars /\ Fairness

-----------------------------------------------------------------------------
(* Properties                                                                *)

\* Once a sync has written its result back without an error, the number of entries
\* a feed shows is the number it has in the IP lists, whatever loop, manual syncs
\* and crashes did in between, as long as no edit or deletion of the feed met a sync.
\* Edits of its entries by hand, which nothing counts, put it wrong only until the
\* next sync that replaces them, whenever in a sync they come.
RowTellsEntries ==
    \A f \in Feeds \ (syncing \cup unrecorded \cup crossed \cup touched) :
        (Exists(f) /\ ~row[f].err) => row[f].count = Cardinality(entries[f])

\* Unless an admin's request met a sync or another request on the same feed, the
\* admin has the last word: a sync that was waiting when a feed was deleted brings
\* back neither its row nor its entries, of which it only has what was added by hand
\* later, and what was saved stays until it is saved again.
AdminWritesLast ==
    \A f \in Feeds \ crossed :
        /\ f \in deleted => ~Exists(f) /\ (f \in touched \/ entries[f] = {})
        /\ Exists(f) => row[f].set = wanted[f]

\* A feed that is due is synced, also after any number of failed syncs and whatever
\* the admin does, unless it is disabled or deleted, or the loop was stopped or, as
\* its table could not be migrated, never started.
FeedsSynced ==
    \A f \in Feeds :
        isDue(f) ~> (Syncs(f) # {} \/ ~isDue(f) \/ stopped \/ proc[Loop].at = "done")
=============================================================================
