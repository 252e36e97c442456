------------------------------ MODULE WriteQueue ------------------------------
(***************************************************************************)
(* The asynchronous database write queue of                                *)
(* internal/observability/write_queue.go.                                  *)
(*                                                                         *)
(* Callers hand closures to Submit (fire and forget), SubmitWait and       *)
(* SubmitPriority (both block for the outcome).  One goroutine, loop,      *)
(* receives them from the buffered channel ch, gathers them in pending and *)
(* runs each batch in one database transaction (flushBatch).  Close raises *)
(* closed and closes stopCh under the write side of submitMu, then waits   *)
(* for loop to drain the channel and exit.                                 *)
(*                                                                         *)
(* A job stands for one call, made by one goroutine; its closure is        *)
(* abstracted to its effect on the database: it is stored or it is not.    *)
(* The nil receiver, the nil closure and the telemetry of the last batch   *)
(* are left out.                                                           *)
(***************************************************************************)
EXTENDS Integers, Sequences, FiniteSets

CONSTANTS
    AsyncJobs,     \* jobs handed over by Submit
    WaitJobs,      \* jobs handed over by SubmitWait
    PriorityJobs,  \* jobs handed over by SubmitPriority
    Closers,       \* goroutines that call Close
    Capacity,      \* capacity of ch
    BatchLimit     \* maxBatchSize

Jobs == AsyncJobs \cup WaitJobs \cup PriorityJobs

\* clampWriteQueueOptions leaves no zero or negative knob.
ASSUME CapacityAssumption == Capacity \in Nat \ {0}
ASSUME BatchLimitAssumption == BatchLimit \in Nat \ {0}
ASSUME JobsAssumption == IsFiniteSet(Jobs)

VARIABLES
    pc,         \* where each caller is
    result,     \* what the call returned
    doneCh,     \* the one-slot reply channel of a waiting job
    ch,         \* the job channel
    pending,    \* loop's current batch
    loop,       \* where the queue goroutine is
    resume,     \* where it goes once flushBatch returns
    batchErr,   \* per job of the batch in flight: the outcome flushBatch found
    closed,     \* closed, and stopCh, which Close closes in the same section
    closer,     \* where each caller of Close is
    stored,     \* jobs whose effect is committed to the database
    runs,       \* how often each closure was invoked
    stats,      \* the counters of WriteQueueStats that account for jobs
    dbPresent   \* whether the queue was built with a database handle

callerVars == <<pc, result, doneCh>>
loopVars == <<ch, pending, loop, resume, batchErr>>
vars == <<callerVars, loopVars, closed, closer, stored, runs, stats, dbPresent>>

Counters == {"submitted", "enqueued", "droppedFull", "droppedClosed",
             "syncFallback", "succeeded", "failed"}

PcStates == {"new", "rlock", "open", "sent", "sync", "waiting", "returned"}
Outcomes == {"none", "nil", "err"}

TypeOK ==
    /\ pc \in [Jobs -> PcStates]
    /\ result \in [Jobs -> Outcomes \cup {"closed", "dropped", "queued"}]
    /\ doneCh \in [Jobs -> Outcomes]
    /\ ch \in Seq(Jobs) /\ Len(ch) <= Capacity
    /\ pending \in Seq(Jobs) /\ Len(pending) <= BatchLimit
    /\ loop \in {"select", "drain", "stop", "flush", "notify", "exited"}
    /\ resume \in {"select", "stop", "exited"}
    /\ batchErr \in [Jobs -> Outcomes]
    /\ closed \in BOOLEAN
    /\ closer \in [Closers -> {"idle", "locking", "waiting", "returned"}]
    /\ stored \subseteq Jobs
    /\ runs \in [Jobs -> Nat]
    /\ stats \in [Counters -> Nat]
    /\ dbPresent \in BOOLEAN

Members(s) == {s[i] : i \in DOMAIN s}

\* The callers that hold the read side of submitMu.
Readers == {j \in Jobs : pc[j] \in {"open", "sent", "sync"}}

Waits(j) == j \notin AsyncJobs

Bump(name, n) == stats' = [stats EXCEPT ![name] = @ + n]

\* A caller leaves with outcome r, releasing submitMu if it held it.
Return(j, r) ==
    /\ pc' = [pc EXCEPT ![j] = "returned"]
    /\ result' = [result EXCEPT ![j] = r]

-----------------------------------------------------------------------------
(* Submit, SubmitWait, SubmitPriority                                        *)

Call(j) ==
    /\ pc[j] = "new"
    /\ pc' = [pc EXCEPT ![j] = "rlock"]
    /\ Bump("submitted", 1)
    /\ UNCHANGED <<result, doneCh, loopVars, closed, closer, stored, runs, dbPresent>>

\* submitMu.RLock and the closed check it protects.  A Go RWMutex admits no new
\* reader while a writer waits for it.
CanRLock == \A c \in Closers : closer[c] # "locking"

RLock(j) ==
    /\ pc[j] = "rlock"
    /\ CanRLock
    /\ ~closed
    /\ pc' = [pc EXCEPT ![j] = "open"]
    /\ UNCHANGED <<result, doneCh, loopVars, closed, closer, stored, runs, stats, dbPresent>>

DropClosed(j) ==
    /\ pc[j] = "rlock"
    /\ CanRLock
    /\ closed
    /\ Return(j, "closed")
    /\ Bump("droppedClosed", 1)
    /\ UNCHANGED <<doneCh, loopVars, closed, closer, stored, runs, dbPresent>>

Send(j) ==
    /\ pc[j] = "open"
    /\ Len(ch) < Capacity
    /\ ch' = Append(ch, j)
    /\ pc' = [pc EXCEPT ![j] = "sent"]
    /\ UNCHANGED <<result, doneCh, pending, loop, resume, batchErr, closed, closer,
                   stored, runs, stats, dbPresent>>

\* enqueuedTotal is raised after the send: loop may already have run the job.
Sent(j) ==
    /\ pc[j] = "sent"
    /\ Bump("enqueued", 1)
    /\ IF Waits(j)
       THEN pc' = [pc EXCEPT ![j] = "waiting"] /\ UNCHANGED result
       ELSE Return(j, "queued")
    /\ UNCHANGED <<doneCh, loopVars, closed, closer, stored, runs, dbPresent>>

DropFull(j) ==
    /\ pc[j] = "open"
    /\ Len(ch) >= Capacity
    /\ ~Waits(j)
    /\ Return(j, "dropped")
    /\ Bump("droppedFull", 1)
    /\ UNCHANGED <<doneCh, loopVars, closed, closer, stored, runs, dbPresent>>

\* Mutant: the fallback without a database returns its error uncounted.
SyncFallbackUncounted(j) ==
    /\ pc[j] = "open"
    /\ Len(ch) >= Capacity
    /\ Waits(j)
    /\ IF dbPresent
       THEN pc' = [pc EXCEPT ![j] = "sync"] /\ UNCHANGED result
       ELSE Return(j, "err")
    /\ Bump("syncFallback", 1)
    /\ UNCHANGED <<doneCh, loopVars, closed, closer, stored, runs, dbPresent>>

\* The channel is full and the caller must know the outcome: it runs the
\* closure itself, still holding submitMu.
SyncFallback(j) ==
    /\ pc[j] = "open"
    /\ Len(ch) >= Capacity
    /\ Waits(j)
    /\ IF dbPresent
       THEN /\ pc' = [pc EXCEPT ![j] = "sync"]
            /\ Bump("syncFallback", 1)
            /\ UNCHANGED result
       ELSE /\ Return(j, "err")
            /\ stats' = [stats EXCEPT !["syncFallback"] = @ + 1, !["failed"] = @ + 1]
    /\ UNCHANGED <<doneCh, loopVars, closed, closer, stored, runs, dbPresent>>

\* A transaction commits; or it fails and leaves nothing; or the commit took
\* effect although the driver reports an error.
TxOutcomes == {"commit", "abort", "unclear"}

runSynchronously(j) ==
    /\ pc[j] = "sync"
    /\ \E tx \in TxOutcomes, n \in 0..1 :
         /\ tx # "abort" => n = 1
         /\ Return(j, IF tx = "commit" THEN "nil" ELSE "err")
         /\ Bump(IF tx = "commit" THEN "succeeded" ELSE "failed", 1)
         /\ stored' = IF tx = "abort" THEN stored ELSE stored \cup {j}
         /\ runs' = [runs EXCEPT ![j] = @ + n]
    /\ UNCHANGED <<doneCh, loopVars, closed, closer, dbPresent>>

ReceiveDone(j) ==
    /\ pc[j] = "waiting"
    /\ doneCh[j] # "none"
    /\ Return(j, doneCh[j])
    /\ doneCh' = [doneCh EXCEPT ![j] = "none"]
    /\ UNCHANGED <<loopVars, closed, closer, stored, runs, stats, dbPresent>>

-----------------------------------------------------------------------------
(* Close                                                                     *)

CloseCall(c) ==
    /\ closer[c] = "idle"
    /\ closer' = [closer EXCEPT ![c] = "locking"]
    /\ UNCHANGED <<callerVars, loopVars, closed, stored, runs, stats, dbPresent>>

\* Mutant: Close does not wait for the callers that hold the read lock.
CloseLockNoWait(c) ==
    /\ closer[c] = "locking"
    /\ closed' = TRUE
    /\ closer' = [closer EXCEPT ![c] = "waiting"]
    /\ UNCHANGED <<callerVars, loopVars, stored, runs, stats, dbPresent>>

\* The write-locked section; closeOnce makes every later one empty.
CloseLock(c) ==
    /\ closer[c] = "locking"
    /\ Readers = {}
    /\ closed' = TRUE
    /\ closer' = [closer EXCEPT ![c] = "waiting"]
    /\ UNCHANGED <<callerVars, loopVars, stored, runs, stats, dbPresent>>

CloseReturn(c) ==
    /\ closer[c] = "waiting"
    /\ loop = "exited"
    /\ closer' = [closer EXCEPT ![c] = "returned"]
    /\ UNCHANGED <<callerVars, loopVars, closed, stored, runs, stats, dbPresent>>

-----------------------------------------------------------------------------
(* loop                                                                      *)

TakeOne ==
    /\ pending' = Append(pending, Head(ch))
    /\ ch' = Tail(ch)

LoopRecv ==
    /\ loop = "select"
    /\ ch # <<>>
    /\ TakeOne
    /\ IF Head(ch) \in PriorityJobs \/ Len(pending) + 1 >= BatchLimit
       THEN loop' = "flush" /\ resume' = "select"
       ELSE UNCHANGED <<loop, resume>>
    /\ UNCHANGED <<callerVars, batchErr, closed, closer, stored, runs, stats, dbPresent>>

LoopTick ==
    /\ loop = "select"
    /\ loop' = "drain"
    /\ UNCHANGED <<callerVars, ch, pending, resume, batchErr, closed, closer, stored, runs,
                   stats, dbPresent>>

LoopStop ==
    /\ loop = "select"
    /\ closed
    /\ loop' = "stop"
    /\ UNCHANGED <<callerVars, ch, pending, resume, batchErr, closed, closer, stored, runs,
                   stats, dbPresent>>

\* The inner receive of the ticker case and of the stopCh case.
Drain ==
    /\ loop \in {"drain", "stop"}
    /\ Len(pending) < BatchLimit
    /\ ch # <<>>
    /\ TakeOne
    /\ UNCHANGED <<callerVars, loop, resume, batchErr, closed, closer, stored, runs, stats,
                   dbPresent>>

\* The ticker case has drained what it may: flush what there is.
DrainDone ==
    /\ loop = "drain"
    /\ Len(pending) >= BatchLimit \/ ch = <<>>
    /\ resume' = "select"
    /\ loop' = IF pending = <<>> THEN "select" ELSE "flush"
    /\ UNCHANGED <<callerVars, ch, pending, batchErr, closed, closer, stored, runs, stats,
                   dbPresent>>

\* The stopCh case: full batches while the channel has jobs, then the rest, then
\* return.
StopDone ==
    /\ loop = "stop"
    /\ Len(pending) >= BatchLimit \/ ch = <<>>
    /\ resume' = IF Len(pending) >= BatchLimit THEN "stop" ELSE "exited"
    /\ loop' = IF pending = <<>> THEN "exited" ELSE "flush"
    /\ UNCHANGED <<callerVars, ch, pending, batchErr, closed, closer, stored, runs, stats,
                   dbPresent>>

\* Mutant: the replies ignore an error of the transaction itself.
FlushTxIgnoreTxError ==
    /\ loop = "flush"
    /\ dbPresent
    /\ \E tx \in TxOutcomes, bad \in SUBSET Members(pending) :
         /\ runs' = [j \in Jobs |->
                        runs[j] + Cardinality({i \in DOMAIN pending : pending[i] = j})]
         /\ batchErr' = [j \in Jobs |->
                            IF j \notin Members(pending) THEN "none"
                            ELSE IF j \notin bad THEN "nil" ELSE "err"]
         /\ stored' = IF tx = "abort" THEN stored
                      ELSE stored \cup (Members(pending) \ bad)
    /\ loop' = "notify"
    /\ UNCHANGED <<callerVars, ch, pending, resume, closed, closer, stats, dbPresent>>

\* flushBatch, the transaction.  Each closure runs behind a savepoint; bad are
\* the closures that fail or panic, leaky those of them whose savepoint could
\* not be set or rolled back to.  A transaction error may come before, between
\* or after the closures: n of them were invoked.
FlushTx ==
    /\ loop = "flush"
    /\ dbPresent
    /\ \E tx \in TxOutcomes, n \in 0..Len(pending) :
       \E bad \in SUBSET Members(SubSeq(pending, 1, n)) :
       \E leaky \in SUBSET bad :
         /\ tx # "abort" => n = Len(pending)
         /\ runs' = [j \in Jobs |->
                        runs[j] + Cardinality({i \in 1..n : pending[i] = j})]
         /\ batchErr' = [j \in Jobs |->
                            IF j \notin Members(pending) THEN "none"
                            ELSE IF tx = "commit" /\ j \notin bad THEN "nil"
                            ELSE "err"]
         /\ stored' = IF tx = "abort" THEN stored
                      ELSE stored \cup (Members(pending) \ bad) \cup leaky
    /\ loop' = "notify"
    /\ UNCHANGED <<callerVars, ch, pending, resume, closed, closer, stats, dbPresent>>

\* Mutant: without a database the batch is skipped and nobody is told.
FlushNoDBSilent ==
    /\ loop = "flush"
    /\ ~dbPresent
    /\ batchErr' = [j \in Jobs |-> "none"]
    /\ loop' = "notify"
    /\ UNCHANGED <<callerVars, ch, pending, resume, closed, closer, stored, runs, stats,
                   dbPresent>>

\* flushBatch without a database: every job of the batch fails.
FlushNoDB ==
    /\ loop = "flush"
    /\ ~dbPresent
    /\ batchErr' = [j \in Jobs |-> IF j \in Members(pending) THEN "err" ELSE "none"]
    /\ loop' = "notify"
    /\ UNCHANGED <<callerVars, ch, pending, resume, closed, closer, stored, runs, stats,
                   dbPresent>>

\* Mutant: the batch is not emptied after it was flushed.
FlushNotifyKeep ==
    /\ loop = "notify"
    /\ doneCh' = [j \in Jobs |->
                     IF j \in Members(pending) /\ Waits(j) THEN batchErr[j] ELSE doneCh[j]]
    /\ stats' = [stats EXCEPT
                    !["succeeded"] = @ + Cardinality({j \in Jobs : batchErr[j] = "nil"}),
                    !["failed"] = @ + Cardinality({j \in Jobs : batchErr[j] = "err"})]
    /\ batchErr' = [j \in Jobs |-> "none"]
    /\ loop' = resume
    /\ UNCHANGED <<pc, result, ch, pending, resume, closed, closer, stored, runs, dbPresent>>

\* flushBatch, the end: replies to the waiting callers, counters, empty batch.
FlushNotify ==
    /\ loop = "notify"
    /\ doneCh' = [j \in Jobs |->
                     IF j \in Members(pending) /\ Waits(j) THEN batchErr[j] ELSE doneCh[j]]
    /\ stats' = [stats EXCEPT
                    !["succeeded"] = @ + Cardinality({j \in Jobs : batchErr[j] = "nil"}),
                    !["failed"] = @ + Cardinality({j \in Jobs : batchErr[j] = "err"})]
    /\ batchErr' = [j \in Jobs |-> "none"]
    /\ pending' = <<>>
    /\ loop' = resume
    /\ UNCHANGED <<pc, result, ch, resume, closed, closer, stored, runs, dbPresent>>

-----------------------------------------------------------------------------

Init ==
    /\ pc = [j \in Jobs |-> "new"]
    /\ result = [j \in Jobs |-> "none"]
    /\ doneCh = [j \in Jobs |-> "none"]
    /\ ch = <<>> /\ pending = <<>>
    /\ loop = "select" /\ resume = "select"
    /\ batchErr = [j \in Jobs |-> "none"]
    /\ closed = FALSE
    /\ closer = [c \in Closers |-> "idle"]
    /\ stored = {}
    /\ runs = [j \in Jobs |-> 0]
    /\ stats = [k \in Counters |-> 0]
    /\ dbPresent \in BOOLEAN

Caller(j) == RLock(j) \/ DropClosed(j) \/ Send(j) \/ Sent(j) \/ DropFull(j)
             \/ SyncFallback(j) \/ runSynchronously(j) \/ ReceiveDone(j)

Closer(c) == CloseLock(c) \/ CloseReturn(c)

Loop == LoopRecv \/ LoopTick \/ LoopStop \/ Drain \/ DrainDone \/ StopDone
        \/ FlushTx \/ FlushNoDB \/ FlushNotify

Next ==
    \/ \E j \in Jobs : Call(j) \/ Caller(j)
    \/ \E c \in Closers : CloseCall(c) \/ Closer(c)
    \/ Loop

\* Goroutines that can run do run, transactions end, and Go's select chooses at
\* random among its ready cases, so no ready case is passed over for ever.
Fairness ==
    /\ \A j \in Jobs : WF_vars(Caller(j))
    /\ \A c \in Closers : WF_vars(Closer(c))
    /\ WF_vars(Loop)
    /\ SF_vars(LoopTick) /\ SF_vars(LoopStop)

Spec == Init /\ [][Next]_vars
FairSpec == Spec /\ Fairness
-----------------------------------------------------------------------------
(* Properties                                                                *)

\* Close "flushes every pending job before it returns": once any call of Close
\* has returned, no job is left in the channel or in the batch, no caller can
\* still put one there, and every blocked caller has its answer.
CloseFlushesAll ==
    (\E c \in Closers : closer[c] = "returned") =>
        /\ ch = <<>> /\ pending = <<>>
        /\ Readers = {}
        /\ \A j \in Jobs : pc[j] = "waiting" => doneCh[j] # "none"

\* flushBatch never retries a closure, which has no idempotence contract: along
\* every path (batch, shutdown drain, synchronous fallback) it runs at most once.
AtMostOnce == \A j \in Jobs : runs[j] <= 1

\* Every loss is observable: when no call and no job is under way, the counters
\* account for each submission and each accepted job exactly once.
LossAccounted ==
    (/\ \A j \in Jobs : pc[j] \in {"new", "returned"}
     /\ ch = <<>> /\ pending = <<>>) =>
        /\ stats["submitted"] = stats["enqueued"] + stats["droppedFull"]
                                  + stats["droppedClosed"] + stats["syncFallback"]
        /\ stats["enqueued"] + stats["syncFallback"]
              = stats["succeeded"] + stats["failed"]

\* Every blocked call comes back: a caller waiting on its reply channel is answered,
\* also when Close overtakes the job in the channel; and Close returns, because no
\* caller keeps the read lock for ever and loop exits.
CallsReturn ==
    /\ \A j \in Jobs : pc[j] = "waiting" ~> pc[j] = "returned"
    /\ \A c \in Closers : closer[c] = "locking" ~> closer[c] = "returned"

Contract == INSTANCE WriteContract WITH
                outcome <- result,
                over <- \E c \in Closers : closer[c] = "returned"

\* The queue keeps the contract of its callers (WriteContract): across the batch,
\* the shutdown drain and the fallback, an answer of success means a committed
\* write, a refused one never happens, none happens twice or after Close returned.
Implements == Contract!Spec
=============================================================================
