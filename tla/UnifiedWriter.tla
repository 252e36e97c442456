---------------------------- MODULE UnifiedWriter ----------------------------
(***************************************************************************)
(* The log writer of internal/observability/unified_writer.go.             *)
(*                                                                         *)
(* The request path hands every observability record to Record*, which     *)
(* tries a non-blocking send on the channel of its kind.  One goroutine,   *)
(* loop, gathers records of all kinds in buffers and flushes them in one   *)
(* transaction, with a savepoint per kind.  Close shuts the gate, and loop *)
(* then drains every channel within a time budget and exits; Close itself  *)
(* gives up waiting after a grace period.                                  *)
(*                                                                         *)
(* A record stands for one call; its contents are abstracted away, and so  *)
(* is the order within a channel, which no step looks at: the channels and *)
(* the buffers are sets.  A drain visits the four channels in a fixed      *)
(* order in the code and in any order here.  Redis is best effort and      *)
(* keeps no state here.                                                    *)
(*                                                                         *)
(* A flush invalidates the COUNT cache of the admin API                    *)
(* (cache/query_cache.go).  An entry is modelled by what it is worth:      *)
(* fresh, stale, or stored late by a List query that had counted before a  *)
(* commit it overlapped.                                                   *)
(***************************************************************************)
EXTENDS Integers, FiniteSets

CONSTANTS
    Kinds,        \* security events, access logs, drop events, bot scores
    CachedKinds,  \* the kinds whose counts are cached: all but the bot scores
    Records,      \* the records handed to Record*
    KindOf,       \* the kind of each
    Capacity,     \* EventBufferSize or DropBufferSize, per kind
    BatchSize,
    DrainLimit,   \* 4 * BatchSize in the constructor; the tests set it freely
    Closers       \* goroutines that call Close

\* clampUnifiedWriterOptions leaves no zero or negative knob.
ASSUME KindsAssumption ==
    /\ CachedKinds \subseteq Kinds
    /\ KindOf \in [Records -> Kinds]
    /\ IsFiniteSet(Records) /\ IsFiniteSet(Kinds)
ASSUME OptionsAssumption ==
    /\ Capacity \in [Kinds -> Nat \ {0}]
    /\ BatchSize \in Nat \ {0}
    /\ DrainLimit \in Nat \ {0}

VARIABLES
    pc,          \* where the call of Record* for each record is
    ch,          \* the records in the four channels
    buf,         \* the records in loop's four buffers
    loop,        \* where the writer goroutine is
    resume,      \* where it goes after flushBuffered
    todo,        \* the channels the current drain has not finished
    verdict,     \* what the flush in progress found of each kind
    flushFailed, \* its flag failed
    closed,      \* closed, and stopCh
    closer,      \* where each caller of Close is
    redis,       \* whether a Redis client is set
    dbPresent,   \* whether there is a database handle
    stored,      \* the records committed to the database
    inserts,     \* how often a record was written in a transaction
    dropped, flushed, failed, flushErrors,   \* the counters of Stats
    stmts,       \* the long-lived statements of sqliteBulkFlusher
    count,       \* what the cached COUNT of each kind is worth
    reader       \* the List query under way for each kind

flushVars == <<verdict, flushFailed>>
dbVars == <<stored, inserts, stmts>>
statVars == <<dropped, flushed, failed, flushErrors>>
cacheVars == <<count, reader>>
queueVars == <<ch, buf>>
loopVars == <<loop, resume, todo>>
env == <<redis, dbPresent>>
vars == <<pc, queueVars, loopVars, flushVars, closed, closer, env, dbVars, statVars, cacheVars>>

LoopStates == {"select", "tick", "stop", "flush", "tx", "report", "budget", "exited"}

TypeOK ==
    /\ pc \in [Records -> {"new", "open", "done"}]
    /\ ch \subseteq Records /\ buf \subseteq Records
    /\ \A k \in Kinds : Cardinality({r \in ch : KindOf[r] = k}) <= Capacity[k]
    /\ loop \in LoopStates
    /\ resume \in {"select", "budget"}
    /\ todo \subseteq Kinds
    /\ verdict \in [Kinds -> {"none", "persisted", "failed"}]
    /\ flushFailed \in BOOLEAN
    /\ closed \in BOOLEAN
    /\ closer \in [Closers -> {"idle", "locking", "waiting", "done", "timedOut"}]
    /\ redis \in BOOLEAN /\ dbPresent \in BOOLEAN
    /\ stored \subseteq Records
    /\ inserts \in [Records -> Nat]
    /\ dropped \in [Kinds -> Nat]
    /\ flushed \in Nat /\ failed \in Nat /\ flushErrors \in Nat
    /\ stmts \in {"none", "open", "closed"}
    /\ count \in [CachedKinds -> {"none", "fresh", "stale", "late"}]
    /\ reader \in [CachedKinds -> {"idle", "fresh", "stale"}]

Of(S, k) == {r \in S : KindOf[r] = k}

\* The callers that hold the read side of submitMu.
Readers == {r \in Records : pc[r] = "open"}

\* The sum of the counters n of all kinds: a pair for each time one counted.
Counted(n) == UNION {{k} \X (1..n[k]) : k \in Kinds}
Total(n) == Cardinality(Counted(n))

Drop(k, n) == dropped' = [dropped EXCEPT ![k] = @ + n]

-----------------------------------------------------------------------------
(* RecordEvent, RecordAccessLog, RecordDropEvent, RecordBotScore             *)

\* submitMu.RLock: a Go RWMutex admits no new reader while a writer waits.
CanRLock == \A c \in Closers : closer[c] # "locking"

beginRecord(r) ==
    /\ pc[r] = "new"
    /\ CanRLock
    /\ IF closed
       THEN /\ pc' = [pc EXCEPT ![r] = "done"]
            /\ Drop(KindOf[r], 1)
       ELSE /\ pc' = [pc EXCEPT ![r] = "open"]
            /\ UNCHANGED dropped
    /\ UNCHANGED <<queueVars, loopVars, flushVars, closed, closer, env, dbVars, flushed,
                   failed, flushErrors, cacheVars>>

\* Mutant: the bound of the channel is off by one.
RecordOverfull(r) ==
    /\ pc[r] = "open"
    /\ pc' = [pc EXCEPT ![r] = "done"]
    /\ IF Cardinality(Of(ch, KindOf[r])) <= Capacity[KindOf[r]]
       THEN ch' = ch \cup {r} /\ UNCHANGED dropped
       ELSE Drop(KindOf[r], 1) /\ UNCHANGED ch
    /\ UNCHANGED <<buf, loopVars, flushVars, closed, closer, env, dbVars, flushed, failed,
                   flushErrors, cacheVars>>

\* The non-blocking send, still under the read lock.
Record(r) ==
    /\ pc[r] = "open"
    /\ pc' = [pc EXCEPT ![r] = "done"]
    /\ IF Cardinality(Of(ch, KindOf[r])) < Capacity[KindOf[r]]
       THEN ch' = ch \cup {r} /\ UNCHANGED dropped
       ELSE Drop(KindOf[r], 1) /\ UNCHANGED ch
    /\ UNCHANGED <<buf, loopVars, flushVars, closed, closer, env, dbVars, flushed, failed,
                   flushErrors, cacheVars>>

-----------------------------------------------------------------------------
(* Close                                                                     *)

CloseCall(c) ==
    /\ closer[c] = "idle"
    /\ closer' = [closer EXCEPT ![c] = "locking"]
    /\ UNCHANGED <<pc, queueVars, loopVars, flushVars, closed, env, dbVars, statVars, cacheVars>>

CloseLock(c) ==
    /\ closer[c] = "locking"
    /\ Readers = {}
    /\ closed' = TRUE
    /\ closer' = [closer EXCEPT ![c] = "waiting"]
    /\ UNCHANGED <<pc, queueVars, loopVars, flushVars, env, dbVars, statVars, cacheVars>>

\* The goroutine has ended: the statements can be released.
CloseDone(c) ==
    /\ closer[c] = "waiting"
    /\ loop = "exited"
    /\ closer' = [closer EXCEPT ![c] = "done"]
    /\ stmts' = IF stmts = "none" THEN "none" ELSE "closed"
    /\ UNCHANGED <<pc, queueVars, loopVars, flushVars, closed, env, stored, inserts, statVars,
                   cacheVars>>

\* Mutant: the statements are released on the timeout as well.
CloseTimeoutRelease(c) ==
    /\ closer[c] = "waiting"
    /\ closer' = [closer EXCEPT ![c] = "timedOut"]
    /\ stmts' = IF stmts = "none" THEN "none" ELSE "closed"
    /\ UNCHANGED <<pc, queueVars, loopVars, flushVars, closed, env, stored, inserts, statVars,
                   cacheVars>>

\* unifiedWriterCloseTimeout + unifiedWriterCloseGrace have passed.
CloseTimeout(c) ==
    /\ closer[c] = "waiting"
    /\ closer' = [closer EXCEPT ![c] = "timedOut"]
    /\ UNCHANGED <<pc, queueVars, loopVars, flushVars, closed, env, dbVars, statVars, cacheVars>>

-----------------------------------------------------------------------------
(* loop, drainAllAndFlush                                                    *)

Take(r) ==
    /\ ch' = ch \ {r}
    /\ buf' = buf \cup {r}

LoopRecv(r) ==
    /\ loop = "select"
    /\ r \in ch
    /\ Take(r)
    /\ IF Cardinality(buf) + 1 >= BatchSize
       THEN loop' = "flush" /\ resume' = "select"
       ELSE UNCHANGED <<loop, resume>>
    /\ UNCHANGED <<pc, todo, flushVars, closed, closer, env, dbVars, statVars, cacheVars>>

LoopTick ==
    /\ loop = "select"
    /\ loop' = "tick"
    /\ todo' = Kinds
    /\ UNCHANGED <<pc, queueVars, resume, flushVars, closed, closer, env, dbVars, statVars,
                   cacheVars>>

LoopStop ==
    /\ loop = "select"
    /\ closed
    /\ loop' = "stop"
    /\ todo' = Kinds
    /\ UNCHANGED <<pc, queueVars, resume, flushVars, closed, closer, env, dbVars, statVars,
                   cacheVars>>

\* drainChanInto for one kind: a receive, or its end.
DrainRecv(r) ==
    /\ loop \in {"tick", "stop"}
    /\ r \in ch
    /\ KindOf[r] \in todo
    /\ Cardinality(Of(buf, KindOf[r])) < DrainLimit
    /\ Take(r)
    /\ UNCHANGED <<pc, loopVars, flushVars, closed, closer, env, dbVars, statVars, cacheVars>>

DrainNext(k) ==
    /\ loop \in {"tick", "stop"}
    /\ k \in todo
    /\ Of(ch, k) = {} \/ Cardinality(Of(buf, k)) >= DrainLimit
    /\ todo' = todo \ {k}
    /\ UNCHANGED <<pc, queueVars, loop, resume, flushVars, closed, closer, env, dbVars, statVars,
                   cacheVars>>

TickDone ==
    /\ loop = "tick"
    /\ todo = {}
    /\ resume' = "select"
    /\ loop' = IF buf = {} THEN "select" ELSE "flush"
    /\ UNCHANGED <<pc, queueVars, todo, flushVars, closed, closer, env, dbVars, statVars, cacheVars>>

\* Mutant: a round that found nothing does not end the drain.
StopDoneForever ==
    /\ loop = "stop"
    /\ todo = {}
    /\ resume' = "budget"
    /\ loop' = IF buf = {} THEN "budget" ELSE "flush"
    /\ UNCHANGED <<pc, queueVars, todo, flushVars, closed, closer, env, dbVars, statVars, cacheVars>>

StopDone ==
    /\ loop = "stop"
    /\ todo = {}
    /\ resume' = "budget"
    /\ loop' = IF buf = {} THEN "exited" ELSE "flush"
    /\ UNCHANGED <<pc, queueVars, todo, flushVars, closed, closer, env, dbVars, statVars, cacheVars>>

\* The deadline has not passed: another round.
DrainAgain ==
    /\ loop = "budget"
    /\ loop' = "stop"
    /\ todo' = Kinds
    /\ UNCHANGED <<pc, queueVars, resume, flushVars, closed, closer, env, dbVars, statVars,
                   cacheVars>>

\* Mutant: the loop leaves what the budget did not cover in the channels.
abandonSilently ==
    /\ loop = "budget"
    /\ loop' = "exited"
    /\ ch' = {}
    /\ UNCHANGED <<pc, buf, resume, todo, flushVars, closed, closer, env, dbVars, statVars,
                   cacheVars>>

\* The deadline has passed: what is left is counted as dropped.
abandonRemaining ==
    /\ loop = "budget"
    /\ loop' = "exited"
    /\ ch' = {}
    /\ dropped' = [k \in Kinds |-> dropped[k] + Cardinality(Of(ch, k))]
    /\ UNCHANGED <<pc, buf, resume, todo, flushVars, closed, closer, env, dbVars, flushed,
                   failed, flushErrors, cacheVars>>

-----------------------------------------------------------------------------
(* flushBuffered                                                             *)

\* The push can only raise the failure flag.
pushToRedis == flushFailed' \in IF redis THEN BOOLEAN ELSE {FALSE}

FlushBegin ==
    /\ loop = "flush"
    /\ dbPresent
    /\ loop' = "tx"
    /\ pushToRedis
    /\ UNCHANGED <<pc, queueVars, resume, todo, verdict, closed, closer, env, dbVars, statVars,
                   cacheVars>>

FlushNoDB ==
    /\ loop = "flush"
    /\ ~dbPresent
    /\ loop' = "report"
    /\ flushFailed' = TRUE
    /\ verdict' = [k \in Kinds |-> "failed"]
    /\ UNCHANGED <<pc, queueVars, resume, todo, closed, closer, env, dbVars, statVars, cacheVars>>

\* A transaction commits; or it fails and leaves nothing; or the commit took
\* effect although the driver reports an error.
TxOutcomes == {"commit", "abort", "unclear"}

\* What a commit of new records of the kinds S does to the worth of the counts.
Outdate(S) ==
    /\ count' = [k \in CachedKinds |->
                    IF k \in S /\ count[k] = "fresh" THEN "stale" ELSE count[k]]
    /\ reader' = [k \in CachedKinds |->
                    IF k \in S /\ reader[k] = "fresh" THEN "stale" ELSE reader[k]]

\* The first flush into SQLite prepares the statements, if it can.
sqliteFlusherFor == stmts' \in IF stmts = "none" THEN {"none", "open"} ELSE {stmts}

\* The transaction.  bad are the kinds whose insert failed, left the rows of
\* those that survive because the savepoint could not be set or rolled back to.
FlushTx ==
    /\ loop = "tx"
    /\ loop' = "report"
    /\ \E tx \in TxOutcomes, bad \in SUBSET {k \in Kinds : Of(buf, k) # {}} :
       \E left \in SUBSET {r \in buf : KindOf[r] \in bad} :
         LET rows == IF tx = "abort" THEN {}
                     ELSE left \cup {r \in buf : KindOf[r] \notin bad}
         IN  /\ tx = "abort" => left = {}
             /\ verdict' = [k \in Kinds |->
                               IF tx = "commit" /\ k \notin bad THEN "persisted" ELSE "failed"]
             /\ flushFailed' = (flushFailed \/ tx # "commit" \/ bad # {})
             /\ stored' = stored \cup rows
             /\ inserts' = [r \in Records |-> inserts[r] + IF r \in rows THEN 1 ELSE 0]
             /\ Outdate({k \in Kinds : verdict'[k] = "persisted" /\ Of(buf, k) # {}})
    /\ sqliteFlusherFor
    /\ UNCHANGED <<pc, queueVars, resume, todo, closed, closer, env, statVars>>

\* The counts of the kinds that gained records.
invalidateCountCache ==
    count' = [k \in CachedKinds |->
                 IF verdict[k] = "persisted" /\ Of(buf, k) # {} THEN "none" ELSE count[k]]

recordFlushStats ==
    /\ flushed' = flushed + Cardinality({r \in buf : verdict[KindOf[r]] = "persisted"})
    /\ failed' = failed + Cardinality({r \in buf : verdict[KindOf[r]] = "failed"})
    /\ flushErrors' = flushErrors + (IF flushFailed THEN 1 ELSE 0)

\* Mutant: the buffers are not emptied.
FlushReportKeep ==
    /\ loop = "report"
    /\ loop' = resume
    /\ invalidateCountCache
    /\ recordFlushStats
    /\ verdict' = [k \in Kinds |-> "none"]
    /\ flushFailed' = FALSE
    /\ UNCHANGED <<pc, ch, buf, resume, todo, closed, closer, env, dbVars, dropped, reader>>

\* Mutant: only a flush that met no error at all invalidates the counts.
FlushReportInvalidateClean ==
    /\ loop = "report"
    /\ loop' = resume
    /\ count' = [k \in CachedKinds |->
                    IF ~flushFailed /\ Of(buf, k) # {} THEN "none" ELSE count[k]]
    /\ recordFlushStats
    /\ buf' = {}
    /\ verdict' = [k \in Kinds |-> "none"]
    /\ flushFailed' = FALSE
    /\ UNCHANGED <<pc, ch, resume, todo, closed, closer, env, dbVars, dropped, reader>>

\* The end of flushBuffered, its deferred recordFlushStats included; the caller
\* empties the buffers.
FlushReport ==
    /\ loop = "report"
    /\ loop' = resume
    /\ invalidateCountCache
    /\ recordFlushStats
    /\ buf' = {}
    /\ verdict' = [k \in Kinds |-> "none"]
    /\ flushFailed' = FALSE
    /\ UNCHANGED <<pc, ch, resume, todo, closed, closer, env, dbVars, dropped, reader>>

-----------------------------------------------------------------------------
(* The other goroutines that touch this state                                *)

\* A reload of the Redis configuration sets or removes the client.
SetRedis ==
    /\ redis' = ~redis
    /\ UNCHANGED <<pc, queueVars, loopVars, flushVars, closed, closer, dbPresent, dbVars,
                   statVars, cacheVars>>

\* A List query of the admin API misses the cache and counts in the database ...
ListCount(k) ==
    /\ reader[k] = "idle"
    /\ count[k] = "none"
    /\ reader' = [reader EXCEPT ![k] = "fresh"]
    /\ UNCHANGED <<pc, queueVars, loopVars, flushVars, closed, closer, env, dbVars, statVars,
                   count>>

\* ... and caches what it found.
ListSet(k) ==
    /\ reader[k] # "idle"
    /\ count' = [count EXCEPT ![k] = IF reader[k] = "fresh" THEN "fresh" ELSE "late"]
    /\ reader' = [reader EXCEPT ![k] = "idle"]
    /\ UNCHANGED <<pc, queueVars, loopVars, flushVars, closed, closer, env, dbVars, statVars>>

\* The TTL of the entry ends.
Expire(k) ==
    /\ count[k] # "none"
    /\ count' = [count EXCEPT ![k] = "none"]
    /\ UNCHANGED <<pc, queueVars, loopVars, flushVars, closed, closer, env, dbVars, statVars,
                   reader>>

-----------------------------------------------------------------------------

Init ==
    /\ pc = [r \in Records |-> "new"]
    /\ ch = {} /\ buf = {}
    /\ loop = "select" /\ resume = "select" /\ todo = {}
    /\ verdict = [k \in Kinds |-> "none"]
    /\ flushFailed = FALSE
    /\ closed = FALSE
    /\ closer = [c \in Closers |-> "idle"]
    /\ redis = FALSE
    /\ dbPresent \in BOOLEAN
    /\ stored = {}
    /\ inserts = [r \in Records |-> 0]
    /\ dropped = [k \in Kinds |-> 0]
    /\ flushed = 0 /\ failed = 0 /\ flushErrors = 0
    /\ stmts = "none"
    /\ count = [k \in CachedKinds |-> "none"]
    /\ reader = [k \in CachedKinds |-> "idle"]

Closer(c) == CloseLock(c) \/ CloseDone(c) \/ CloseTimeout(c)

Drain == (\E r \in Records : DrainRecv(r)) \/ (\E k \in Kinds : DrainNext(k))

\* The steps of loop but the transaction, which may hang in the driver.
LoopStep ==
    \/ \E r \in Records : LoopRecv(r)
    \/ LoopTick \/ LoopStop \/ Drain \/ TickDone \/ StopDone
    \/ DrainAgain \/ abandonRemaining
    \/ FlushBegin \/ FlushNoDB \/ FlushReport

Next ==
    \/ \E r \in Records : beginRecord(r) \/ Record(r)
    \/ \E c \in Closers : CloseCall(c) \/ Closer(c)
    \/ LoopStep \/ FlushTx
    \/ SetRedis
    \/ \E k \in CachedKinds : ListCount(k) \/ ListSet(k) \/ Expire(k)

\* Goroutines that can run do run, a call that holds the read lock returns, and
\* select passes no ready case over for ever.  Nothing is assumed of the
\* database: a transaction may hang.
Fairness ==
    /\ \A r \in Records : WF_vars(Record(r))
    /\ \A c \in Closers : WF_vars(Closer(c))
    /\ WF_vars(LoopStep)
    /\ SF_vars(LoopStop)

Spec == Init /\ [][Next]_vars
FairSpec == Spec /\ Fairness
-----------------------------------------------------------------------------
(* Properties                                                                *)

\* "Lost records stay visible to /metrics": total_flushed_records never claims a
\* record that is not in the database, and once the writer has exited each record
\* handed over is in exactly one counter (flushed, failed or dropped), whether the
\* channel was full, the gate shut, a kind, the commit or the database failed, or
\* the drain budget ran out.
LossVisible ==
    /\ flushed <= Cardinality(stored)
    /\ loop = "exited" /\ Readers = {} =>
          Cardinality({r \in Records : pc[r] = "done"})
              = flushed + failed + Total(dropped)

\* No record is written twice, whatever failed in the flush that carried it.
InsertedOnce == \A r \in Records : inserts[r] <= 1

\* The long-lived statements are never released while the writer goroutine may
\* still be writing with them, also when Close gives up waiting for it.
StatementsAlive == loop # "exited" => stmts # "closed"

\* A cached count misses records the writer reported as flushed only if a List
\* query that overlapped the commit stored it late; then the TTL bounds it.
CountsFresh == loop # "report" => \A k \in CachedKinds : count[k] # "stale"

\* After Close the writer goroutine drains and exits, unless a transaction hangs.
WriterExits == <>[](loop = "tx") \/ (closed ~> loop = "exited")
=============================================================================
