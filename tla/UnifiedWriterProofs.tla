-------------------------- MODULE UnifiedWriterProofs --------------------------
(***************************************************************************)
(* Proofs about UnifiedWriter for any records, kinds, capacities and       *)
(* callers of Close: no record is written twice, none is reported as       *)
(* flushed that is not in the database, none is lost without being         *)
(* counted, the statements outlive the goroutine that writes with them,    *)
(* and no cached count stays stale.                                        *)
(***************************************************************************)
EXTENDS UnifiedWriter, FiniteSetTheorems, TLAPS

\* TypeOK without the bound of the channels, which is Bounded.
Types ==
    /\ pc \in [Records -> {"new", "open", "done"}]
    /\ ch \subseteq Records /\ buf \subseteq Records
    /\ loop \in LoopStates
    /\ resume \in {"select", "budget"}
    /\ todo \subseteq Kinds
    /\ verdict \in [Kinds -> {"none", "persisted", "failed"}]
    /\ flushFailed \in BOOLEAN
    /\ closed \in BOOLEAN
    /\ closer \in [Closers -> {"idle", "locking", "waiting", "done", "timedOut"}]
    /\ redis \in BOOLEAN /\ dbPresent \in BOOLEAN
    /\ stored \subseteq Records
    /\ inserts \in [Records -> Nat]
    /\ dropped \in [Kinds -> Nat]
    /\ flushed \in Nat /\ failed \in Nat /\ flushErrors \in Nat
    /\ stmts \in {"none", "open", "closed"}
    /\ count \in [CachedKinds -> {"none", "fresh", "stale", "late"}]
    /\ reader \in [CachedKinds -> {"idle", "fresh", "stale"}]

Bounded == \A k \in Kinds : Cardinality(Of(ch, k)) <= Capacity[k]

\* A record is in one place, and in the database only once it has left the channel
\* and its transaction is over.
Placed ==
    /\ ch \cap buf = {}
    /\ \A r \in ch \cup buf : pc[r] = "done"
    /\ \A r \in Records :
          r \in ch \/ pc[r] # "done" \/ (r \in buf /\ loop # "report") => inserts[r] = 0
    /\ \A r \in Records : inserts[r] <= 1 /\ (r \in stored <=> inserts[r] = 1)

\* What is reported as flushed is in the database and counted once.
Reported ==
    /\ loop = "report" => \A r \in buf : verdict[KindOf[r]] = "persisted" => r \in stored
    /\ flushed <= Cardinality(stored \ buf)

\* A count is stale only while the flush that made it so has not reported.
StaleInFlush ==
    \A k \in CachedKinds : count[k] = "stale" =>
        loop = "report" /\ verdict[k] = "persisted" /\ Of(buf, k) # {}

IInv == Types /\ Bounded /\ Placed /\ Reported /\ StaleInFlush /\ StatementsAlive

\* The first half of LossVisible.
FlushedStored == flushed <= Cardinality(stored)

-----------------------------------------------------------------------------
(* Sets of records                                                           *)

\* Sets of records are finite.
LEMMA Finite ==
    ASSUME NEW S \in SUBSET Records
    PROVE  IsFiniteSet(S) /\ Cardinality(S) \in Nat
    BY KindsAssumption, FS_Subset, FS_CardinalityType

\* A part of a set has no more records of a kind.
LEMMA OfSmaller ==
    ASSUME NEW S \in SUBSET Records, NEW T \in SUBSET S, NEW k
    PROVE  /\ Of(T, k) \in SUBSET Of(S, k) /\ Of(S, k) \in SUBSET Records
           /\ Cardinality(Of(T, k)) <= Cardinality(Of(S, k))
           /\ Cardinality(Of(T, k)) \in Nat /\ Cardinality(Of(S, k)) \in Nat
<1>1. Of(T, k) \in SUBSET Of(S, k) /\ Of(S, k) \in SUBSET Records
    BY DEF Of
<1>2. Of(T, k) \in SUBSET Records
    BY <1>1
<1>3. QED
    BY <1>1, <1>2, Finite, FS_Subset

\* One more record is at most one more of a kind.
LEMMA OfAdded ==
    ASSUME NEW S \in SUBSET Records, NEW r \in Records, NEW k
    PROVE  Cardinality(Of(S \cup {r}, k))
              <= Cardinality(Of(S, k)) + (IF KindOf[r] = k THEN 1 ELSE 0)
<1>1. /\ Cardinality(Of(S, k)) \in Nat /\ IsFiniteSet(Of(S, k))
    BY OfSmaller, Finite
<1>2. CASE KindOf[r] = k
    <2>1. Of(S \cup {r}, k) = Of(S, k) \cup {r}
        BY <1>2 DEF Of
    <2>2. Cardinality(Of(S, k) \cup {r})
             = IF r \in Of(S, k) THEN Cardinality(Of(S, k)) ELSE Cardinality(Of(S, k)) + 1
        BY <1>1, FS_AddElement
    <2>3. Cardinality(Of(S, k) \cup {r}) <= Cardinality(Of(S, k)) + 1
        BY <1>1, <2>2
    <2>4. QED
        BY <1>2, <2>1, <2>3
<1>3. CASE KindOf[r] # k
    <2>1. Of(S \cup {r}, k) = Of(S, k)
        BY <1>3 DEF Of
    <2>2. QED
        BY <1>1, <1>3, <2>1
<1>4. QED
    BY <1>2, <1>3

-----------------------------------------------------------------------------
(* The steps                                                                 *)

\* A step keeps the types.
LEMMA TypesStep ==
    ASSUME IInv, [Next]_vars
    PROVE  Types'
<1>1. ASSUME NEW r \in Records, beginRecord(r) PROVE Types'
    BY <1>1, OptionsAssumption, KindsAssumption
    DEF beginRecord, Types, Drop, LoopStates, IInv, queueVars, loopVars, flushVars, env, dbVars,
        cacheVars
<1>2. ASSUME NEW r \in Records, Record(r) PROVE Types'
    BY <1>2, OptionsAssumption, KindsAssumption
    DEF Record, Types, Drop, LoopStates, Of, IInv, loopVars, flushVars, env, dbVars, cacheVars
<1>3. ASSUME NEW c \in Closers, CloseCall(c) PROVE Types'
    BY <1>3, OptionsAssumption, KindsAssumption
    DEF CloseCall, Types, LoopStates, IInv, queueVars, loopVars, flushVars, env, dbVars,
        statVars, cacheVars
<1>4. ASSUME NEW c \in Closers, CloseLock(c) PROVE Types'
    BY <1>4, OptionsAssumption, KindsAssumption
    DEF CloseLock, Types, LoopStates, Readers, IInv, queueVars, loopVars, flushVars, env,
        dbVars, statVars, cacheVars
<1>5. ASSUME NEW c \in Closers, CloseDone(c) PROVE Types'
    BY <1>5, OptionsAssumption, KindsAssumption
    DEF CloseDone, Types, LoopStates, IInv, queueVars, loopVars, flushVars, env, statVars,
        cacheVars
<1>6. ASSUME NEW c \in Closers, CloseTimeout(c) PROVE Types'
    BY <1>6, OptionsAssumption, KindsAssumption
    DEF CloseTimeout, Types, LoopStates, IInv, queueVars, loopVars, flushVars, env, dbVars,
        statVars, cacheVars
<1>7. ASSUME NEW r \in Records, LoopRecv(r) PROVE Types'
    BY <1>7, OptionsAssumption, KindsAssumption
    DEF LoopRecv, Types, Take, LoopStates, IInv, flushVars, env, dbVars, statVars, cacheVars
<1>8. CASE LoopTick
    BY <1>8, OptionsAssumption, KindsAssumption
    DEF LoopTick, Types, LoopStates, IInv, queueVars, flushVars, env, dbVars, statVars,
        cacheVars
<1>9. CASE LoopStop
    BY <1>9, OptionsAssumption, KindsAssumption
    DEF LoopStop, Types, LoopStates, IInv, queueVars, flushVars, env, dbVars, statVars,
        cacheVars
<1>10. ASSUME NEW r \in Records, DrainRecv(r) PROVE Types'
    BY <1>10, OptionsAssumption, KindsAssumption
    DEF DrainRecv, Types, Take, LoopStates, Of, IInv, loopVars, flushVars, env, dbVars,
        statVars, cacheVars
<1>11. ASSUME NEW k \in Kinds, DrainNext(k) PROVE Types'
    BY <1>11, OptionsAssumption, KindsAssumption
    DEF DrainNext, Types, LoopStates, Of, IInv, queueVars, flushVars, env, dbVars, statVars,
        cacheVars
<1>12. CASE TickDone
    BY <1>12, OptionsAssumption, KindsAssumption
    DEF TickDone, Types, LoopStates, IInv, queueVars, flushVars, env, dbVars, statVars,
        cacheVars
<1>13. CASE StopDone
    BY <1>13, OptionsAssumption, KindsAssumption
    DEF StopDone, Types, LoopStates, IInv, queueVars, flushVars, env, dbVars, statVars,
        cacheVars
<1>14. CASE DrainAgain
    BY <1>14, OptionsAssumption, KindsAssumption
    DEF DrainAgain, Types, LoopStates, IInv, queueVars, flushVars, env, dbVars, statVars,
        cacheVars
<1>15. CASE abandonRemaining
    <2>1. dropped' \in [Kinds -> Nat]
        <3>1. \A k \in Kinds : Cardinality(Of(ch, k)) \in Nat /\ dropped[k] \in Nat
            BY OfSmaller DEF IInv, Types
        <3>2. dropped' = [k \in Kinds |-> dropped[k] + Cardinality(Of(ch, k))]
            BY <1>15 DEF abandonRemaining
        <3>3. QED
            BY <3>1, <3>2
    <2>2. QED
        BY <1>15, <2>1
        DEF abandonRemaining, IInv, Types, LoopStates, flushVars, env, dbVars, cacheVars
<1>16. CASE FlushBegin
    BY <1>16, OptionsAssumption, KindsAssumption
    DEF FlushBegin, Types, pushToRedis, LoopStates, IInv, queueVars, env, dbVars, statVars,
        cacheVars
<1>17. CASE FlushNoDB
    BY <1>17, OptionsAssumption, KindsAssumption
    DEF FlushNoDB, Types, LoopStates, IInv, queueVars, env, dbVars, statVars, cacheVars
<1>18. CASE FlushTx
    BY <1>18, OptionsAssumption, KindsAssumption
    DEF FlushTx, Types, Outdate, sqliteFlusherFor, TxOutcomes, LoopStates, Of, IInv, queueVars,
        env, statVars
<1>19. CASE FlushReport
    <2>1. /\ flushed' \in Nat /\ failed' \in Nat /\ flushErrors' \in Nat
        <3> DEFINE With(x) == {r \in buf : verdict[KindOf[r]] = x}
        <3>1. \A x : With(x) \in SUBSET Records
            BY DEF IInv, Types
        <3>2. \A x : Cardinality(With(x)) \in Nat
            BY <3>1, Finite
        <3>3. /\ flushed' = flushed + Cardinality(With("persisted"))
              /\ failed' = failed + Cardinality(With("failed"))
              /\ flushErrors' \in {flushErrors, flushErrors + 1}
            BY <1>19 DEF FlushReport, recordFlushStats, IInv, Types
        <3> HIDE DEF With
        <3>4. QED
            BY <3>2, <3>3 DEF IInv, Types
    <2>2. QED
        BY <1>19, <2>1
        DEF FlushReport, invalidateCountCache, IInv, Types, LoopStates, env, dbVars
<1>20. CASE SetRedis
    BY <1>20, OptionsAssumption, KindsAssumption
    DEF SetRedis, Types, LoopStates, IInv, queueVars, loopVars, flushVars, dbVars, statVars,
        cacheVars
<1>21. ASSUME NEW k \in CachedKinds, ListCount(k) PROVE Types'
    BY <1>21, OptionsAssumption, KindsAssumption
    DEF ListCount, Types, LoopStates, IInv, queueVars, loopVars, flushVars, env, dbVars,
        statVars
<1>22. ASSUME NEW k \in CachedKinds, ListSet(k) PROVE Types'
    BY <1>22, OptionsAssumption, KindsAssumption
    DEF ListSet, Types, LoopStates, IInv, queueVars, loopVars, flushVars, env, dbVars, statVars
<1>23. ASSUME NEW k \in CachedKinds, Expire(k) PROVE Types'
    BY <1>23, OptionsAssumption, KindsAssumption
    DEF Expire, Types, LoopStates, IInv, queueVars, loopVars, flushVars, env, dbVars, statVars
<1>24. CASE UNCHANGED vars
    BY <1>24
    DEF IInv, Types, queueVars, loopVars, flushVars, env, dbVars, statVars, cacheVars, vars
<1>25. QED
    BY <1>1, <1>2, <1>3, <1>4, <1>5, <1>6, <1>7, <1>8, <1>9, <1>10, <1>11, <1>12, <1>13, <1>14,
       <1>15, <1>16, <1>17, <1>18, <1>19, <1>20, <1>21, <1>22, <1>23, <1>24
    DEF Next, Closer, LoopStep, Drain

\* A step keeps the channels within their capacity.
LEMMA BoundedStep ==
    ASSUME IInv, [Next]_vars
    PROVE  Bounded'
<1>1. ASSUME NEW r \in Records, beginRecord(r) PROVE Bounded'
    BY <1>1, OptionsAssumption, KindsAssumption
    DEF beginRecord, Types, Bounded, Drop, LoopStates, Of, IInv, queueVars, loopVars, flushVars,
        env, dbVars, cacheVars
<1>2. ASSUME NEW r \in Records, Record(r) PROVE Bounded'
    <2>1. CASE Cardinality(Of(ch, KindOf[r])) < Capacity[KindOf[r]]
        <3>1. ch' = ch \cup {r}
            BY <1>2, <2>1 DEF Record
        <3>2. ASSUME NEW k \in Kinds PROVE Cardinality(Of(ch \cup {r}, k)) <= Capacity[k]
            <4>0. ch \in SUBSET Records /\ (ch \cup {r}) \in SUBSET Records
                BY DEF IInv, Types
            <4>1. /\ Cardinality(Of(ch \cup {r}, k))
                        <= Cardinality(Of(ch, k)) + (IF KindOf[r] = k THEN 1 ELSE 0)
                  /\ Cardinality(Of(ch, k)) \in Nat
                  /\ Cardinality(Of(ch \cup {r}, k)) \in Nat
                BY <4>0, OfAdded, OfSmaller
            <4>2. Cardinality(Of(ch, k)) <= Capacity[k] /\ Capacity[k] \in Nat
                BY OptionsAssumption DEF IInv, Bounded
            <4>3. QED
                BY <2>1, <4>1, <4>2
        <3>3. QED
            BY <3>1, <3>2 DEF Bounded, Of
    <2>2. CASE ~(Cardinality(Of(ch, KindOf[r])) < Capacity[KindOf[r]])
        BY <1>2, <2>2 DEF Record, IInv, Bounded, Of
    <2>3. QED
        BY <2>1, <2>2
<1>3. ASSUME NEW c \in Closers, CloseCall(c) PROVE Bounded'
    BY <1>3, OptionsAssumption, KindsAssumption
    DEF CloseCall, Types, Bounded, LoopStates, Of, IInv, queueVars, loopVars, flushVars, env,
        dbVars, statVars, cacheVars
<1>4. ASSUME NEW c \in Closers, CloseLock(c) PROVE Bounded'
    BY <1>4, OptionsAssumption, KindsAssumption
    DEF CloseLock, Types, Bounded, LoopStates, Of, Readers, IInv, queueVars, loopVars,
        flushVars, env, dbVars, statVars, cacheVars
<1>5. ASSUME NEW c \in Closers, CloseDone(c) PROVE Bounded'
    BY <1>5, OptionsAssumption, KindsAssumption
    DEF CloseDone, Types, Bounded, LoopStates, Of, IInv, queueVars, loopVars, flushVars, env,
        statVars, cacheVars
<1>6. ASSUME NEW c \in Closers, CloseTimeout(c) PROVE Bounded'
    BY <1>6, OptionsAssumption, KindsAssumption
    DEF CloseTimeout, Types, Bounded, LoopStates, Of, IInv, queueVars, loopVars, flushVars, env,
        dbVars, statVars, cacheVars
<1>7. ASSUME NEW r \in Records, LoopRecv(r) PROVE Bounded'
    <2>1. ch' \in SUBSET ch /\ ch \in SUBSET Records
        BY <1>7 DEF LoopRecv, Take, IInv, Types
    <2>2. ASSUME NEW k \in Kinds PROVE Cardinality(Of(ch', k)) <= Capacity[k]
        <3>1. /\ Cardinality(Of(ch', k)) <= Cardinality(Of(ch, k))
              /\ Cardinality(Of(ch', k)) \in Nat /\ Cardinality(Of(ch, k)) \in Nat
            BY <2>1, OfSmaller
        <3>2. Cardinality(Of(ch, k)) <= Capacity[k] /\ Capacity[k] \in Nat
            BY OptionsAssumption DEF IInv, Bounded
        <3>3. QED
            BY <3>1, <3>2
    <2>3. QED
        BY <2>2 DEF Bounded, Of
<1>8. CASE LoopTick
    BY <1>8, OptionsAssumption, KindsAssumption
    DEF LoopTick, Types, Bounded, LoopStates, Of, IInv, queueVars, flushVars, env, dbVars,
        statVars, cacheVars
<1>9. CASE LoopStop
    BY <1>9, OptionsAssumption, KindsAssumption
    DEF LoopStop, Types, Bounded, LoopStates, Of, IInv, queueVars, flushVars, env, dbVars,
        statVars, cacheVars
<1>10. ASSUME NEW r \in Records, DrainRecv(r) PROVE Bounded'
    <2>1. ch' \in SUBSET ch /\ ch \in SUBSET Records
        BY <1>10 DEF DrainRecv, Take, IInv, Types
    <2>2. ASSUME NEW k \in Kinds PROVE Cardinality(Of(ch', k)) <= Capacity[k]
        <3>1. /\ Cardinality(Of(ch', k)) <= Cardinality(Of(ch, k))
              /\ Cardinality(Of(ch', k)) \in Nat /\ Cardinality(Of(ch, k)) \in Nat
            BY <2>1, OfSmaller
        <3>2. Cardinality(Of(ch, k)) <= Capacity[k] /\ Capacity[k] \in Nat
            BY OptionsAssumption DEF IInv, Bounded
        <3>3. QED
            BY <3>1, <3>2
    <2>3. QED
        BY <2>2 DEF Bounded, Of
<1>11. ASSUME NEW k \in Kinds, DrainNext(k) PROVE Bounded'
    BY <1>11, OptionsAssumption, KindsAssumption
    DEF DrainNext, Types, Bounded, LoopStates, Of, IInv, queueVars, flushVars, env, dbVars,
        statVars, cacheVars
<1>12. CASE TickDone
    BY <1>12, OptionsAssumption, KindsAssumption
    DEF TickDone, Types, Bounded, LoopStates, Of, IInv, queueVars, flushVars, env, dbVars,
        statVars, cacheVars
<1>13. CASE StopDone
    BY <1>13, OptionsAssumption, KindsAssumption
    DEF StopDone, Types, Bounded, LoopStates, Of, IInv, queueVars, flushVars, env, dbVars,
        statVars, cacheVars
<1>14. CASE DrainAgain
    BY <1>14, OptionsAssumption, KindsAssumption
    DEF DrainAgain, Types, Bounded, LoopStates, Of, IInv, queueVars, flushVars, env, dbVars,
        statVars, cacheVars
<1>15. CASE abandonRemaining
    <2>1. ch' \in SUBSET ch /\ ch \in SUBSET Records
        BY <1>15 DEF abandonRemaining, IInv, Types
    <2>2. ASSUME NEW k \in Kinds PROVE Cardinality(Of(ch', k)) <= Capacity[k]
        <3>1. /\ Cardinality(Of(ch', k)) <= Cardinality(Of(ch, k))
              /\ Cardinality(Of(ch', k)) \in Nat /\ Cardinality(Of(ch, k)) \in Nat
            BY <2>1, OfSmaller
        <3>2. Cardinality(Of(ch, k)) <= Capacity[k] /\ Capacity[k] \in Nat
            BY OptionsAssumption DEF IInv, Bounded
        <3>3. QED
            BY <3>1, <3>2
    <2>3. QED
        BY <2>2 DEF Bounded, Of
<1>16. CASE FlushBegin
    BY <1>16, OptionsAssumption, KindsAssumption
    DEF FlushBegin, Types, Bounded, pushToRedis, LoopStates, Of, IInv, queueVars, env, dbVars,
        statVars, cacheVars
<1>17. CASE FlushNoDB
    BY <1>17, OptionsAssumption, KindsAssumption
    DEF FlushNoDB, Types, Bounded, LoopStates, Of, IInv, queueVars, env, dbVars, statVars,
        cacheVars
<1>18. CASE FlushTx
    BY <1>18, OptionsAssumption, KindsAssumption
    DEF FlushTx, Types, Bounded, Outdate, sqliteFlusherFor, TxOutcomes, LoopStates, Of, IInv,
        queueVars, env, statVars
<1>19. CASE FlushReport
    BY <1>19, OptionsAssumption, KindsAssumption
    DEF FlushReport, Types, Bounded, invalidateCountCache, recordFlushStats, LoopStates, Of,
        IInv, env, dbVars
<1>20. CASE SetRedis
    BY <1>20, OptionsAssumption, KindsAssumption
    DEF SetRedis, Types, Bounded, LoopStates, Of, IInv, queueVars, loopVars, flushVars, dbVars,
        statVars, cacheVars
<1>21. ASSUME NEW k \in CachedKinds, ListCount(k) PROVE Bounded'
    BY <1>21, OptionsAssumption, KindsAssumption
    DEF ListCount, Types, Bounded, LoopStates, Of, IInv, queueVars, loopVars, flushVars, env,
        dbVars, statVars
<1>22. ASSUME NEW k \in CachedKinds, ListSet(k) PROVE Bounded'
    BY <1>22, OptionsAssumption, KindsAssumption
    DEF ListSet, Types, Bounded, LoopStates, Of, IInv, queueVars, loopVars, flushVars, env,
        dbVars, statVars
<1>23. ASSUME NEW k \in CachedKinds, Expire(k) PROVE Bounded'
    BY <1>23, OptionsAssumption, KindsAssumption
    DEF Expire, Types, Bounded, LoopStates, Of, IInv, queueVars, loopVars, flushVars, env,
        dbVars, statVars
<1>24. CASE UNCHANGED vars
    BY <1>24
    DEF IInv, Bounded, Of, queueVars, loopVars, flushVars, env, dbVars, statVars, cacheVars,
        vars
<1>25. QED
    BY <1>1, <1>2, <1>3, <1>4, <1>5, <1>6, <1>7, <1>8, <1>9, <1>10, <1>11, <1>12, <1>13, <1>14,
       <1>15, <1>16, <1>17, <1>18, <1>19, <1>20, <1>21, <1>22, <1>23, <1>24
    DEF Next, Closer, LoopStep, Drain

\* A step keeps every record in one place.
LEMMA PlacedStep ==
    ASSUME IInv, [Next]_vars
    PROVE  Placed'
<1>1. ASSUME NEW r \in Records, beginRecord(r) PROVE Placed'
    BY <1>1
    DEF beginRecord, Types, Placed, Drop, LoopStates, IInv, queueVars, loopVars, flushVars, env,
        dbVars, cacheVars
<1>2. ASSUME NEW r \in Records, Record(r) PROVE Placed'
    BY <1>2
    DEF Record, Types, Placed, Drop, LoopStates, Of, IInv, loopVars, flushVars, env, dbVars,
        cacheVars
<1>3. ASSUME NEW c \in Closers, CloseCall(c) PROVE Placed'
    BY <1>3
    DEF CloseCall, Types, Placed, LoopStates, IInv, queueVars, loopVars, flushVars, env, dbVars,
        statVars, cacheVars
<1>4. ASSUME NEW c \in Closers, CloseLock(c) PROVE Placed'
    BY <1>4
    DEF CloseLock, Types, Placed, LoopStates, Readers, IInv, queueVars, loopVars, flushVars,
        env, dbVars, statVars, cacheVars
<1>5. ASSUME NEW c \in Closers, CloseDone(c) PROVE Placed'
    BY <1>5
    DEF CloseDone, Types, Placed, LoopStates, IInv, queueVars, loopVars, flushVars, env,
        statVars, cacheVars
<1>6. ASSUME NEW c \in Closers, CloseTimeout(c) PROVE Placed'
    BY <1>6
    DEF CloseTimeout, Types, Placed, LoopStates, IInv, queueVars, loopVars, flushVars, env,
        dbVars, statVars, cacheVars
<1>7. ASSUME NEW r \in Records, LoopRecv(r) PROVE Placed'
    BY <1>7
    DEF LoopRecv, Types, Placed, Take, LoopStates, IInv, flushVars, env, dbVars, statVars,
        cacheVars
<1>8. CASE LoopTick
    BY <1>8
    DEF LoopTick, Types, Placed, LoopStates, IInv, queueVars, flushVars, env, dbVars, statVars,
        cacheVars
<1>9. CASE LoopStop
    BY <1>9
    DEF LoopStop, Types, Placed, LoopStates, IInv, queueVars, flushVars, env, dbVars, statVars,
        cacheVars
<1>10. ASSUME NEW r \in Records, DrainRecv(r) PROVE Placed'
    BY <1>10
    DEF DrainRecv, Types, Placed, Take, LoopStates, Of, IInv, loopVars, flushVars, env, dbVars,
        statVars, cacheVars
<1>11. ASSUME NEW k \in Kinds, DrainNext(k) PROVE Placed'
    BY <1>11
    DEF DrainNext, Types, Placed, LoopStates, Of, IInv, queueVars, flushVars, env, dbVars,
        statVars, cacheVars
<1>12. CASE TickDone
    BY <1>12
    DEF TickDone, Types, Placed, LoopStates, IInv, queueVars, flushVars, env, dbVars, statVars,
        cacheVars
<1>13. CASE StopDone
    BY <1>13
    DEF StopDone, Types, Placed, LoopStates, IInv, queueVars, flushVars, env, dbVars, statVars,
        cacheVars
<1>14. CASE DrainAgain
    BY <1>14
    DEF DrainAgain, Types, Placed, LoopStates, IInv, queueVars, flushVars, env, dbVars,
        statVars, cacheVars
<1>15. CASE abandonRemaining
    BY <1>15
    DEF abandonRemaining, Types, Placed, LoopStates, Of, IInv, flushVars, env, dbVars, cacheVars
<1>16. CASE FlushBegin
    BY <1>16
    DEF FlushBegin, Types, Placed, pushToRedis, LoopStates, IInv, queueVars, env, dbVars,
        statVars, cacheVars
<1>17. CASE FlushNoDB
    BY <1>17
    DEF FlushNoDB, Types, Placed, LoopStates, IInv, queueVars, env, dbVars, statVars, cacheVars
<1>18. CASE FlushTx
    BY <1>18
    DEF FlushTx, Types, Placed, Outdate, sqliteFlusherFor, TxOutcomes, LoopStates, Of, IInv,
        queueVars, env, statVars
<1>19. CASE FlushReport
    BY <1>19
    DEF FlushReport, Types, Placed, invalidateCountCache, recordFlushStats, LoopStates, Of,
        IInv, env, dbVars
<1>20. CASE SetRedis
    BY <1>20
    DEF SetRedis, Types, Placed, LoopStates, IInv, queueVars, loopVars, flushVars, dbVars,
        statVars, cacheVars
<1>21. ASSUME NEW k \in CachedKinds, ListCount(k) PROVE Placed'
    BY <1>21
    DEF ListCount, Types, Placed, LoopStates, IInv, queueVars, loopVars, flushVars, env, dbVars,
        statVars
<1>22. ASSUME NEW k \in CachedKinds, ListSet(k) PROVE Placed'
    BY <1>22
    DEF ListSet, Types, Placed, LoopStates, IInv, queueVars, loopVars, flushVars, env, dbVars,
        statVars
<1>23. ASSUME NEW k \in CachedKinds, Expire(k) PROVE Placed'
    BY <1>23
    DEF Expire, Types, Placed, LoopStates, IInv, queueVars, loopVars, flushVars, env, dbVars,
        statVars
<1>24. CASE UNCHANGED vars
    BY <1>24
    DEF IInv, Placed, queueVars, loopVars, flushVars, env, dbVars, statVars, cacheVars, vars
<1>25. QED
    BY <1>1, <1>2, <1>3, <1>4, <1>5, <1>6, <1>7, <1>8, <1>9, <1>10, <1>11, <1>12, <1>13, <1>14,
       <1>15, <1>16, <1>17, <1>18, <1>19, <1>20, <1>21, <1>22, <1>23, <1>24
    DEF Next, Closer, LoopStep, Drain

\* A step reports as flushed only what is in the database.
LEMMA ReportedStep ==
    ASSUME IInv, [Next]_vars
    PROVE  Reported'
<1>1. ASSUME NEW r \in Records, beginRecord(r) PROVE Reported'
    BY <1>1
    DEF beginRecord, Types, Placed, Reported, Drop, LoopStates, IInv, queueVars, loopVars,
        flushVars, env, dbVars, cacheVars
<1>2. ASSUME NEW r \in Records, Record(r) PROVE Reported'
    BY <1>2
    DEF Record, Types, Placed, Reported, Drop, LoopStates, Of, IInv, loopVars, flushVars, env,
        dbVars, cacheVars
<1>3. ASSUME NEW c \in Closers, CloseCall(c) PROVE Reported'
    BY <1>3
    DEF CloseCall, Types, Placed, Reported, LoopStates, IInv, queueVars, loopVars, flushVars,
        env, dbVars, statVars, cacheVars
<1>4. ASSUME NEW c \in Closers, CloseLock(c) PROVE Reported'
    BY <1>4
    DEF CloseLock, Types, Placed, Reported, LoopStates, Readers, IInv, queueVars, loopVars,
        flushVars, env, dbVars, statVars, cacheVars
<1>5. ASSUME NEW c \in Closers, CloseDone(c) PROVE Reported'
    BY <1>5
    DEF CloseDone, Types, Placed, Reported, LoopStates, IInv, queueVars, loopVars, flushVars,
        env, statVars, cacheVars
<1>6. ASSUME NEW c \in Closers, CloseTimeout(c) PROVE Reported'
    BY <1>6
    DEF CloseTimeout, Types, Placed, Reported, LoopStates, IInv, queueVars, loopVars, flushVars,
        env, dbVars, statVars, cacheVars
<1>7. ASSUME NEW r \in Records, LoopRecv(r) PROVE Reported'
    BY <1>7
    DEF LoopRecv, Types, Placed, Reported, Take, LoopStates, IInv, flushVars, env, dbVars,
        statVars, cacheVars
<1>8. CASE LoopTick
    BY <1>8
    DEF LoopTick, Types, Placed, Reported, LoopStates, IInv, queueVars, flushVars, env, dbVars,
        statVars, cacheVars
<1>9. CASE LoopStop
    BY <1>9
    DEF LoopStop, Types, Placed, Reported, LoopStates, IInv, queueVars, flushVars, env, dbVars,
        statVars, cacheVars
<1>10. ASSUME NEW r \in Records, DrainRecv(r) PROVE Reported'
    BY <1>10, SMTT(40)
    DEF DrainRecv, Types, Placed, Reported, Take, LoopStates, Of, IInv, loopVars, flushVars,
        env, dbVars, statVars, cacheVars
<1>11. ASSUME NEW k \in Kinds, DrainNext(k) PROVE Reported'
    BY <1>11
    DEF DrainNext, Types, Placed, Reported, LoopStates, Of, IInv, queueVars, flushVars, env,
        dbVars, statVars, cacheVars
<1>12. CASE TickDone
    BY <1>12
    DEF TickDone, Types, Placed, Reported, LoopStates, IInv, queueVars, flushVars, env, dbVars,
        statVars, cacheVars
<1>13. CASE StopDone
    BY <1>13
    DEF StopDone, Types, Placed, Reported, LoopStates, IInv, queueVars, flushVars, env, dbVars,
        statVars, cacheVars
<1>14. CASE DrainAgain
    BY <1>14
    DEF DrainAgain, Types, Placed, Reported, LoopStates, IInv, queueVars, flushVars, env,
        dbVars, statVars, cacheVars
<1>15. CASE abandonRemaining
    BY <1>15
    DEF abandonRemaining, Types, Placed, Reported, LoopStates, Of, IInv, flushVars, env, dbVars,
        cacheVars
<1>16. CASE FlushBegin
    BY <1>16
    DEF FlushBegin, Types, Placed, Reported, pushToRedis, LoopStates, IInv, queueVars, env,
        dbVars, statVars, cacheVars
<1>17. CASE FlushNoDB
    <2>1. \A r \in buf' : verdict'[KindOf[r]] = "failed"
        BY <1>17, KindsAssumption DEF FlushNoDB, queueVars, IInv, Types
    <2>2. UNCHANGED <<stored, buf, flushed>>
        BY <1>17 DEF FlushNoDB, queueVars, dbVars, statVars
    <2>3. QED
        BY <2>1, <2>2 DEF IInv, Reported
<1>18. CASE FlushTx
    <2>1. PICK tx \in TxOutcomes, bad \in SUBSET {k \in Kinds : Of(buf, k) # {}} :
          \E left \in SUBSET {r \in buf : KindOf[r] \in bad} :
            LET rows == IF tx = "abort" THEN {}
                        ELSE left \cup {r \in buf : KindOf[r] \notin bad}
            IN  /\ verdict' = [k \in Kinds |-> IF tx = "commit" /\ k \notin bad
                                               THEN "persisted" ELSE "failed"]
                /\ stored' = stored \cup rows
        BY <1>18, SMTT(40) DEF FlushTx
    <2>2. PICK rows \in SUBSET buf :
            /\ tx # "abort" => {r \in buf : KindOf[r] \notin bad} \subseteq rows
            /\ verdict' = [k \in Kinds |-> IF tx = "commit" /\ k \notin bad
                                           THEN "persisted" ELSE "failed"]
            /\ stored' = stored \cup rows
        BY <2>1
    <2>3. UNCHANGED <<buf, flushed>>
        BY <1>18 DEF FlushTx, queueVars, statVars
    <2>4. \A r \in buf : verdict'[KindOf[r]] = "persisted" => r \in stored'
        BY <2>2, KindsAssumption DEF IInv, Types
    <2>5. stored' \ buf' = stored \ buf
        BY <2>2, <2>3
    <2>6. QED
        BY <2>3, <2>4, <2>5 DEF IInv, Reported
<1>19. CASE FlushReport
    <2> DEFINE good == {r \in buf : verdict[KindOf[r]] = "persisted"}
    <2>1. /\ flushed' = flushed + Cardinality(good) /\ buf' = {} /\ stored' = stored
          /\ loop = "report" /\ loop' = resume
        BY <1>19 DEF FlushReport, recordFlushStats, dbVars
    <2>2. good \in SUBSET stored
        BY <2>1 DEF IInv, Reported
    <2>3. /\ good \in SUBSET Records /\ (stored \ buf) \in SUBSET Records
          /\ (stored \ buf) \cap good = {} /\ stored \in SUBSET Records
          /\ ((stored \ buf) \cup good) \in SUBSET stored
        BY <2>2 DEF IInv, Types
    <2>4. flushed <= Cardinality(stored \ buf) /\ flushed \in Nat
        BY DEF IInv, Reported, Types
    <2> HIDE DEF good
    <2>5. /\ IsFiniteSet(good) /\ IsFiniteSet(stored \ buf) /\ IsFiniteSet(stored)
          /\ Cardinality(good) \in Nat /\ Cardinality(stored \ buf) \in Nat
          /\ Cardinality(stored) \in Nat
        BY <2>3, Finite
    <2>6. Cardinality((stored \ buf) \cup good) = Cardinality(stored \ buf) + Cardinality(good)
        <3>1. Cardinality((stored \ buf) \cap good) = 0
            BY <2>3, FS_EmptySet
        <3>2. Cardinality((stored \ buf) \cup good)
                 = Cardinality(stored \ buf) + Cardinality(good)
                      - Cardinality((stored \ buf) \cap good)
            BY <2>5, FS_Union
        <3>3. QED
            BY <2>5, <3>1, <3>2
    <2>7. Cardinality((stored \ buf) \cup good) <= Cardinality(stored)
        BY <2>3, <2>5, FS_Subset
    <2>8. flushed' <= Cardinality(stored)
        BY <2>1, <2>4, <2>5, <2>6, <2>7
    <2>9. stored' \ buf' = stored /\ loop' # "report"
        BY <2>1 DEF IInv, Types
    <2>10. QED
        BY <2>8, <2>9 DEF Reported
<1>20. CASE SetRedis
    BY <1>20
    DEF SetRedis, Types, Placed, Reported, LoopStates, IInv, queueVars, loopVars, flushVars,
        dbVars, statVars, cacheVars
<1>21. ASSUME NEW k \in CachedKinds, ListCount(k) PROVE Reported'
    BY <1>21
    DEF ListCount, Types, Placed, Reported, LoopStates, IInv, queueVars, loopVars, flushVars,
        env, dbVars, statVars
<1>22. ASSUME NEW k \in CachedKinds, ListSet(k) PROVE Reported'
    BY <1>22
    DEF ListSet, Types, Placed, Reported, LoopStates, IInv, queueVars, loopVars, flushVars, env,
        dbVars, statVars
<1>23. ASSUME NEW k \in CachedKinds, Expire(k) PROVE Reported'
    BY <1>23
    DEF Expire, Types, Placed, Reported, LoopStates, IInv, queueVars, loopVars, flushVars, env,
        dbVars, statVars
<1>24. CASE UNCHANGED vars
    BY <1>24
    DEF IInv, Reported, queueVars, loopVars, flushVars, env, dbVars, statVars, cacheVars, vars
<1>25. QED
    BY <1>1, <1>2, <1>3, <1>4, <1>5, <1>6, <1>7, <1>8, <1>9, <1>10, <1>11, <1>12, <1>13, <1>14,
       <1>15, <1>16, <1>17, <1>18, <1>19, <1>20, <1>21, <1>22, <1>23, <1>24
    DEF Next, Closer, LoopStep, Drain

\* A step leaves no count stale but that of the flush in progress.
LEMMA StaleStep ==
    ASSUME IInv, [Next]_vars
    PROVE  StaleInFlush'
<1>1. ASSUME NEW r \in Records, beginRecord(r) PROVE StaleInFlush'
    BY <1>1, KindsAssumption
    DEF beginRecord, Types, StaleInFlush, Drop, LoopStates, Of, IInv, queueVars, loopVars,
        flushVars, env, dbVars, cacheVars
<1>2. ASSUME NEW r \in Records, Record(r) PROVE StaleInFlush'
    BY <1>2, KindsAssumption
    DEF Record, Types, StaleInFlush, Drop, LoopStates, Of, IInv, loopVars, flushVars, env,
        dbVars, cacheVars
<1>3. ASSUME NEW c \in Closers, CloseCall(c) PROVE StaleInFlush'
    BY <1>3, KindsAssumption
    DEF CloseCall, Types, StaleInFlush, LoopStates, Of, IInv, queueVars, loopVars, flushVars,
        env, dbVars, statVars, cacheVars
<1>4. ASSUME NEW c \in Closers, CloseLock(c) PROVE StaleInFlush'
    BY <1>4, KindsAssumption
    DEF CloseLock, Types, StaleInFlush, LoopStates, Of, Readers, IInv, queueVars, loopVars,
        flushVars, env, dbVars, statVars, cacheVars
<1>5. ASSUME NEW c \in Closers, CloseDone(c) PROVE StaleInFlush'
    BY <1>5, KindsAssumption
    DEF CloseDone, Types, StaleInFlush, LoopStates, Of, IInv, queueVars, loopVars, flushVars,
        env, statVars, cacheVars
<1>6. ASSUME NEW c \in Closers, CloseTimeout(c) PROVE StaleInFlush'
    BY <1>6, KindsAssumption
    DEF CloseTimeout, Types, StaleInFlush, LoopStates, Of, IInv, queueVars, loopVars, flushVars,
        env, dbVars, statVars, cacheVars
<1>7. ASSUME NEW r \in Records, LoopRecv(r) PROVE StaleInFlush'
    BY <1>7, KindsAssumption
    DEF LoopRecv, Types, StaleInFlush, Take, LoopStates, Of, IInv, flushVars, env, dbVars,
        statVars, cacheVars
<1>8. CASE LoopTick
    BY <1>8, KindsAssumption
    DEF LoopTick, Types, StaleInFlush, LoopStates, Of, IInv, queueVars, flushVars, env, dbVars,
        statVars, cacheVars
<1>9. CASE LoopStop
    BY <1>9, KindsAssumption
    DEF LoopStop, Types, StaleInFlush, LoopStates, Of, IInv, queueVars, flushVars, env, dbVars,
        statVars, cacheVars
<1>10. ASSUME NEW r \in Records, DrainRecv(r) PROVE StaleInFlush'
    BY <1>10, KindsAssumption
    DEF DrainRecv, Types, StaleInFlush, Take, LoopStates, Of, IInv, loopVars, flushVars, env,
        dbVars, statVars, cacheVars
<1>11. ASSUME NEW k \in Kinds, DrainNext(k) PROVE StaleInFlush'
    BY <1>11, KindsAssumption
    DEF DrainNext, Types, StaleInFlush, LoopStates, Of, IInv, queueVars, flushVars, env, dbVars,
        statVars, cacheVars
<1>12. CASE TickDone
    BY <1>12, KindsAssumption
    DEF TickDone, Types, StaleInFlush, LoopStates, Of, IInv, queueVars, flushVars, env, dbVars,
        statVars, cacheVars
<1>13. CASE StopDone
    BY <1>13, KindsAssumption
    DEF StopDone, Types, StaleInFlush, LoopStates, Of, IInv, queueVars, flushVars, env, dbVars,
        statVars, cacheVars
<1>14. CASE DrainAgain
    BY <1>14, KindsAssumption
    DEF DrainAgain, Types, StaleInFlush, LoopStates, Of, IInv, queueVars, flushVars, env,
        dbVars, statVars, cacheVars
<1>15. CASE abandonRemaining
    BY <1>15, KindsAssumption
    DEF abandonRemaining, Types, StaleInFlush, LoopStates, Of, IInv, flushVars, env, dbVars,
        cacheVars
<1>16. CASE FlushBegin
    BY <1>16, KindsAssumption
    DEF FlushBegin, Types, StaleInFlush, pushToRedis, LoopStates, Of, IInv, queueVars, env,
        dbVars, statVars, cacheVars
<1>17. CASE FlushNoDB
    BY <1>17, KindsAssumption
    DEF FlushNoDB, Types, StaleInFlush, LoopStates, Of, IInv, queueVars, env, dbVars, statVars,
        cacheVars
<1>18. CASE FlushTx
    BY <1>18, KindsAssumption
    DEF FlushTx, Types, StaleInFlush, Outdate, sqliteFlusherFor, TxOutcomes, LoopStates, Of,
        IInv, queueVars, env, statVars
<1>19. CASE FlushReport
    BY <1>19, KindsAssumption
    DEF FlushReport, Types, StaleInFlush, invalidateCountCache, recordFlushStats, LoopStates,
        Of, IInv, env, dbVars
<1>20. CASE SetRedis
    BY <1>20, KindsAssumption
    DEF SetRedis, Types, StaleInFlush, LoopStates, Of, IInv, queueVars, loopVars, flushVars,
        dbVars, statVars, cacheVars
<1>21. ASSUME NEW k \in CachedKinds, ListCount(k) PROVE StaleInFlush'
    BY <1>21, KindsAssumption
    DEF ListCount, Types, StaleInFlush, LoopStates, Of, IInv, queueVars, loopVars, flushVars,
        env, dbVars, statVars
<1>22. ASSUME NEW k \in CachedKinds, ListSet(k) PROVE StaleInFlush'
    BY <1>22, KindsAssumption
    DEF ListSet, Types, StaleInFlush, LoopStates, Of, IInv, queueVars, loopVars, flushVars, env,
        dbVars, statVars
<1>23. ASSUME NEW k \in CachedKinds, Expire(k) PROVE StaleInFlush'
    BY <1>23, KindsAssumption
    DEF Expire, Types, StaleInFlush, LoopStates, Of, IInv, queueVars, loopVars, flushVars, env,
        dbVars, statVars
<1>24. CASE UNCHANGED vars
    BY <1>24
    DEF IInv, StaleInFlush, Of, queueVars, loopVars, flushVars, env, dbVars, statVars,
        cacheVars, vars
<1>25. QED
    BY <1>1, <1>2, <1>3, <1>4, <1>5, <1>6, <1>7, <1>8, <1>9, <1>10, <1>11, <1>12, <1>13, <1>14,
       <1>15, <1>16, <1>17, <1>18, <1>19, <1>20, <1>21, <1>22, <1>23, <1>24
    DEF Next, Closer, LoopStep, Drain

\* A step releases no statement in use.
LEMMA StatementsStep ==
    ASSUME IInv, [Next]_vars
    PROVE  StatementsAlive'
<1>1. ASSUME NEW r \in Records, beginRecord(r) PROVE StatementsAlive'
    BY <1>1
    DEF beginRecord, Types, StatementsAlive, Drop, LoopStates, IInv, queueVars, loopVars,
        flushVars, env, dbVars, cacheVars
<1>2. ASSUME NEW r \in Records, Record(r) PROVE StatementsAlive'
    BY <1>2
    DEF Record, Types, StatementsAlive, Drop, LoopStates, Of, IInv, loopVars, flushVars, env,
        dbVars, cacheVars
<1>3. ASSUME NEW c \in Closers, CloseCall(c) PROVE StatementsAlive'
    BY <1>3
    DEF CloseCall, Types, StatementsAlive, LoopStates, IInv, queueVars, loopVars, flushVars,
        env, dbVars, statVars, cacheVars
<1>4. ASSUME NEW c \in Closers, CloseLock(c) PROVE StatementsAlive'
    BY <1>4
    DEF CloseLock, Types, StatementsAlive, LoopStates, Readers, IInv, queueVars, loopVars,
        flushVars, env, dbVars, statVars, cacheVars
<1>5. ASSUME NEW c \in Closers, CloseDone(c) PROVE StatementsAlive'
    BY <1>5
    DEF CloseDone, Types, StatementsAlive, LoopStates, IInv, queueVars, loopVars, flushVars,
        env, statVars, cacheVars
<1>6. ASSUME NEW c \in Closers, CloseTimeout(c) PROVE StatementsAlive'
    BY <1>6
    DEF CloseTimeout, Types, StatementsAlive, LoopStates, IInv, queueVars, loopVars, flushVars,
        env, dbVars, statVars, cacheVars
<1>7. ASSUME NEW r \in Records, LoopRecv(r) PROVE StatementsAlive'
    BY <1>7
    DEF LoopRecv, Types, StatementsAlive, Take, LoopStates, IInv, flushVars, env, dbVars,
        statVars, cacheVars
<1>8. CASE LoopTick
    BY <1>8
    DEF LoopTick, Types, StatementsAlive, LoopStates, IInv, queueVars, flushVars, env, dbVars,
        statVars, cacheVars
<1>9. CASE LoopStop
    BY <1>9
    DEF LoopStop, Types, StatementsAlive, LoopStates, IInv, queueVars, flushVars, env, dbVars,
        statVars, cacheVars
<1>10. ASSUME NEW r \in Records, DrainRecv(r) PROVE StatementsAlive'
    BY <1>10
    DEF DrainRecv, Types, StatementsAlive, Take, LoopStates, Of, IInv, loopVars, flushVars, env,
        dbVars, statVars, cacheVars
<1>11. ASSUME NEW k \in Kinds, DrainNext(k) PROVE StatementsAlive'
    BY <1>11
    DEF DrainNext, Types, StatementsAlive, LoopStates, Of, IInv, queueVars, flushVars, env,
        dbVars, statVars, cacheVars
<1>12. CASE TickDone
    BY <1>12
    DEF TickDone, Types, StatementsAlive, LoopStates, IInv, queueVars, flushVars, env, dbVars,
        statVars, cacheVars
<1>13. CASE StopDone
    BY <1>13
    DEF StopDone, Types, StatementsAlive, LoopStates, IInv, queueVars, flushVars, env, dbVars,
        statVars, cacheVars
<1>14. CASE DrainAgain
    BY <1>14
    DEF DrainAgain, Types, StatementsAlive, LoopStates, IInv, queueVars, flushVars, env, dbVars,
        statVars, cacheVars
<1>15. CASE abandonRemaining
    BY <1>15
    DEF abandonRemaining, Types, StatementsAlive, LoopStates, Of, IInv, flushVars, env, dbVars,
        cacheVars
<1>16. CASE FlushBegin
    BY <1>16
    DEF FlushBegin, Types, StatementsAlive, pushToRedis, LoopStates, IInv, queueVars, env,
        dbVars, statVars, cacheVars
<1>17. CASE FlushNoDB
    BY <1>17
    DEF FlushNoDB, Types, StatementsAlive, LoopStates, IInv, queueVars, env, dbVars, statVars,
        cacheVars
<1>18. CASE FlushTx
    BY <1>18
    DEF FlushTx, Types, StatementsAlive, Outdate, sqliteFlusherFor, TxOutcomes, LoopStates, Of,
        IInv, queueVars, env, statVars
<1>19. CASE FlushReport
    BY <1>19
    DEF FlushReport, Types, StatementsAlive, invalidateCountCache, recordFlushStats, LoopStates,
        Of, IInv, env, dbVars
<1>20. CASE SetRedis
    BY <1>20
    DEF SetRedis, Types, StatementsAlive, LoopStates, IInv, queueVars, loopVars, flushVars,
        dbVars, statVars, cacheVars
<1>21. ASSUME NEW k \in CachedKinds, ListCount(k) PROVE StatementsAlive'
    BY <1>21
    DEF ListCount, Types, StatementsAlive, LoopStates, IInv, queueVars, loopVars, flushVars,
        env, dbVars, statVars
<1>22. ASSUME NEW k \in CachedKinds, ListSet(k) PROVE StatementsAlive'
    BY <1>22
    DEF ListSet, Types, StatementsAlive, LoopStates, IInv, queueVars, loopVars, flushVars, env,
        dbVars, statVars
<1>23. ASSUME NEW k \in CachedKinds, Expire(k) PROVE StatementsAlive'
    BY <1>23
    DEF Expire, Types, StatementsAlive, LoopStates, IInv, queueVars, loopVars, flushVars, env,
        dbVars, statVars
<1>24. CASE UNCHANGED vars
    BY <1>24
    DEF IInv, StatementsAlive, queueVars, loopVars, flushVars, env, dbVars, statVars, cacheVars,
        vars
<1>25. QED
    BY <1>1, <1>2, <1>3, <1>4, <1>5, <1>6, <1>7, <1>8, <1>9, <1>10, <1>11, <1>12, <1>13, <1>14,
       <1>15, <1>16, <1>17, <1>18, <1>19, <1>20, <1>21, <1>22, <1>23, <1>24
    DEF Next, Closer, LoopStep, Drain

\* The initial states satisfy the invariant.
LEMMA InitIInv == Init => IInv
<1> SUFFICES ASSUME Init PROVE IInv
    OBVIOUS
<1>1. Types /\ Placed /\ StaleInFlush /\ StatementsAlive
    <2>1. Types
        BY DEF Init, Types, LoopStates
    <2>2. Placed
        BY DEF Init, Placed
    <2>3. StaleInFlush /\ StatementsAlive
        BY DEF Init, StaleInFlush, StatementsAlive
    <2>4. QED
        BY <2>1, <2>2, <2>3
<1>2. ch = {} /\ buf = {} /\ stored = {} /\ flushed = 0
    BY DEF Init
<1>3. Cardinality({}) = 0
    BY FS_EmptySet
<1>4. Bounded
    <2>1. \A k \in Kinds : Of(ch, k) = {} /\ 0 <= Capacity[k]
        BY <1>2, OptionsAssumption DEF Of
    <2>2. QED
        BY <1>3, <2>1 DEF Bounded
<1>5. Reported
    <2>1. stored \ buf = {}
        BY <1>2
    <2>2. QED
        BY <1>2, <1>3, <2>1 DEF Reported
<1>6. QED
    BY <1>1, <1>4, <1>5 DEF IInv

-----------------------------------------------------------------------------
(* The theorems                                                              *)

\* Whatever the callers, the writer, the database and the List queries do, in any
\* order, the invariant holds.
THEOREM Inductive == Spec => []IInv
<1>1. IInv /\ [Next]_vars => IInv'
    BY TypesStep, BoundedStep, PlacedStep, ReportedStep, StaleStep, StatementsStep DEF IInv
<1>2. QED
    BY InitIInv, <1>1, PTL DEF Spec

\* Every variable keeps its type, and no channel holds more than its capacity.
THEOREM TypeCorrect == Spec => []TypeOK
<1>1. IInv => TypeOK
    BY DEF IInv, Types, Bounded, Of, TypeOK
<1>2. QED
    BY Inductive, <1>1, PTL

\* flushBuffered writes no record a second time, whichever kind, savepoint or commit
\* failed in the flush that carried it.
THEOREM WrittenOnce == Spec => []InsertedOnce
<1>1. IInv => InsertedOnce
    BY DEF IInv, Placed, InsertedOnce
<1>2. QED
    BY Inductive, <1>1, PTL

\* Close releases the long-lived statements only when the goroutine that writes with
\* them has exited, not when it gives up waiting.
THEOREM StatementsKept == Spec => []StatementsAlive
<1>1. IInv => StatementsAlive
    BY DEF IInv
<1>2. QED
    BY Inductive, <1>1, PTL

\* invalidateCountCache: between two flushes no cached count misses a record that was
\* reported as flushed, unless a query that overlapped the commit stored it late.
THEOREM CountsKeptFresh == Spec => []CountsFresh
<1>1. IInv => CountsFresh
    BY DEF IInv, StaleInFlush, CountsFresh
<1>2. QED
    BY Inductive, <1>1, PTL

\* recordFlushStats: total_flushed_records never claims a record that is not in the
\* database.
THEOREM FlushedInDatabase == Spec => []FlushedStored
<1>1. IInv => FlushedStored
    <2> SUFFICES ASSUME IInv PROVE FlushedStored
        OBVIOUS
    <2>1. stored \in SUBSET Records /\ (stored \ buf) \in SUBSET stored
        BY DEF IInv, Types
    <2>2. /\ Cardinality(stored \ buf) <= Cardinality(stored)
          /\ Cardinality(stored \ buf) \in Nat /\ Cardinality(stored) \in Nat
        BY <2>1, Finite, FS_Subset
    <2>3. QED
        BY <2>2 DEF IInv, Types, Reported, FlushedStored
<1>2. QED
    BY Inductive, <1>1, PTL

-----------------------------------------------------------------------------
(* The sum of the counters                                                   *)

\* The pairs that a sum counts.
LEMMA CountedPairs ==
    ASSUME NEW n \in [Kinds -> Nat]
    PROVE  \A c : c \in Counted(n) <=> /\ c \in Kinds \X Nat
                                       /\ 1 <= c[2] /\ c[2] <= n[c[1]]
<1>1. ASSUME NEW c, c \in Counted(n)
      PROVE  c \in Kinds \X Nat /\ 1 <= c[2] /\ c[2] <= n[c[1]]
    <2>1. PICK k \in Kinds : c \in {k} \X (1..n[k])
        BY <1>1 DEF Counted
    <2>2. QED
        BY <2>1
<1>2. ASSUME NEW c \in Kinds \X Nat, 1 <= c[2], c[2] <= n[c[1]]
      PROVE  c \in Counted(n)
    <2>1. c[1] \in Kinds /\ c \in {c[1]} \X (1..n[c[1]])
        BY <1>2
    <2>2. QED
        BY <2>1 DEF Counted
<1>3. QED
    BY <1>1, <1>2

\* There are finitely many.
LEMMA TotalType ==
    ASSUME NEW n \in [Kinds -> Nat]
    PROVE  IsFiniteSet(Counted(n)) /\ Total(n) \in Nat
<1> DEFINE f == [k \in Kinds |-> {k} \X (1..n[k])]
           R == {{k} \X (1..n[k]) : k \in Kinds}
<1>1. f \in Surjection(Kinds, R)
    BY DEF Surjection
<1>2. IsFiniteSet(R)
    BY <1>1, KindsAssumption, FS_Surjection
<1>3. ASSUME NEW T \in R PROVE IsFiniteSet(T)
    <2>1. PICK k \in Kinds : T = {k} \X (1..n[k])
        BY <1>3
    <2>2. IsFiniteSet({k})
        BY FS_Singleton
    <2>3. IsFiniteSet(1..n[k])
        <3>1. 1 \in Int /\ n[k] \in Int
            OBVIOUS
        <3>2. QED
            BY <3>1, FS_Interval
    <2>4. QED
        BY <2>1, <2>2, <2>3, FS_Product
<1>4. IsFiniteSet(Counted(n))
    BY <1>2, <1>3, FS_UNION DEF Counted
<1>5. QED
    BY <1>4, FS_CardinalityType DEF Total

\* Counters that each go up by the records of their kind in S go up by those of S.
LEMMA TotalAdd ==
    ASSUME NEW n \in [Kinds -> Nat], NEW m \in [Kinds -> Nat], NEW S \in SUBSET Records,
           \A k \in Kinds : m[k] = n[k] + Cardinality(Of(S, k))
    PROVE  Total(m) = Total(n) + Cardinality(S)
<1> DEFINE Added == Counted(m) \ Counted(n)
           Places(k) == Bijection(1..Cardinality(Of(S, k)), Of(S, k))
           h == [k \in Kinds |-> CHOOSE p \in Places(k) : TRUE]
           b == [c \in Added |-> h[c[1]][c[2] - n[c[1]]]]
<1>1. \A k \in Kinds : Cardinality(Of(S, k)) \in Nat /\ h[k] \in Places(k)
    <2>1. \A k \in Kinds : IsFiniteSet(Of(S, k)) /\ Cardinality(Of(S, k)) \in Nat
        BY Finite DEF Of
    <2>2. \A k \in Kinds : Places(k) # {}
        BY <2>1, FS_CardinalityType DEF ExistsBijection
    <2>3. QED
        BY <2>1, <2>2
<1>2. ASSUME NEW k \in Kinds
      PROVE  /\ h[k] \in [1..Cardinality(Of(S, k)) -> Of(S, k)]
             /\ \A i, j \in 1..Cardinality(Of(S, k)) : h[k][i] = h[k][j] => i = j
             /\ \A r \in Of(S, k) : \E i \in 1..Cardinality(Of(S, k)) : h[k][i] = r
    <2>1. h[k] \in Bijection(1..Cardinality(Of(S, k)), Of(S, k))
        BY <1>1
    <2> HIDE DEF h
    <2>2. QED
        BY <2>1 DEF Bijection, Injection, Surjection, IsInjective
<1> HIDE DEF h
<1>3. \A c : c \in Added <=> /\ c \in Kinds \X Nat
                             /\ n[c[1]] < c[2] /\ c[2] <= n[c[1]] + Cardinality(Of(S, c[1]))
    <2>1. \A c : c \in Counted(m) <=> c \in Kinds \X Nat /\ 1 <= c[2] /\ c[2] <= m[c[1]]
        BY CountedPairs
    <2>2. \A c : c \in Counted(n) <=> c \in Kinds \X Nat /\ 1 <= c[2] /\ c[2] <= n[c[1]]
        BY CountedPairs
    <2>3. ASSUME NEW c \in Kinds \X Nat
          PROVE  /\ m[c[1]] = n[c[1]] + Cardinality(Of(S, c[1]))
                 /\ m[c[1]] \in Nat /\ n[c[1]] \in Nat /\ c[2] \in Nat
        OBVIOUS
    <2>4. QED
        BY <2>1, <2>2, <2>3
<1> HIDE DEF Added
<1>4. ASSUME NEW c \in Added
      PROVE  /\ c[1] \in Kinds /\ c[2] \in Nat /\ c = <<c[1], c[2]>>
             /\ c[2] - n[c[1]] \in 1..Cardinality(Of(S, c[1]))
             /\ b[c] \in Of(S, c[1]) /\ b[c] = h[c[1]][c[2] - n[c[1]]]
    <2>1. c[1] \in Kinds /\ c[2] \in Nat /\ c = <<c[1], c[2]>>
        BY <1>3
    <2>2. c[2] - n[c[1]] \in 1..Cardinality(Of(S, c[1]))
        BY <1>1, <1>3, <2>1
    <2>3. QED
        BY <1>2, <2>1, <2>2
<1>5. b \in Injection(Added, S)
    <2>1. b \in [Added -> S]
        BY <1>4 DEF Of
    <2>2. ASSUME NEW c \in Added, NEW d \in Added, b[c] = b[d] PROVE c = d
        <3>1. /\ c[1] \in Kinds /\ c[2] \in Nat /\ c = <<c[1], c[2]>>
              /\ c[2] - n[c[1]] \in 1..Cardinality(Of(S, c[1]))
              /\ b[c] \in Of(S, c[1]) /\ b[c] = h[c[1]][c[2] - n[c[1]]]
            BY <1>4
        <3>2. /\ d[1] \in Kinds /\ d[2] \in Nat /\ d = <<d[1], d[2]>>
              /\ d[2] - n[d[1]] \in 1..Cardinality(Of(S, d[1]))
              /\ b[d] \in Of(S, d[1]) /\ b[d] = h[d[1]][d[2] - n[d[1]]]
            BY <1>4
        <3> HIDE DEF b
        <3>3. c[1] = d[1]
            BY <2>2, <3>1, <3>2 DEF Of
        <3>4. /\ d[2] - n[c[1]] \in 1..Cardinality(Of(S, c[1]))
              /\ h[c[1]][c[2] - n[c[1]]] = h[c[1]][d[2] - n[c[1]]]
            BY <2>2, <3>1, <3>2, <3>3
        <3>5. c[2] - n[c[1]] = d[2] - n[c[1]]
            BY <1>2, <3>1, <3>4, SMTT(40)
        <3>6. c[2] = d[2]
            <4>1. c[2] \in Nat /\ d[2] \in Nat /\ n[c[1]] \in Nat
                BY <3>1, <3>2
            <4>2. QED
                BY <3>5, <4>1
        <3>7. QED
            BY <3>1, <3>2, <3>3, <3>6
    <2> HIDE DEF b
    <2>3. QED
        BY <2>1, <2>2 DEF Injection, IsInjective
<1>6. b \in Surjection(Added, S)
    <2>1. ASSUME NEW r \in S PROVE \E c \in Added : b[c] = r
        <3>1. KindOf[r] \in Kinds /\ r \in Of(S, KindOf[r])
            BY KindsAssumption DEF Of
        <3>2. PICK i \in 1..Cardinality(Of(S, KindOf[r])) : h[KindOf[r]][i] = r
            BY <1>2, <3>1
        <3> DEFINE c == <<KindOf[r], n[KindOf[r]] + i>>
        <3>3. c \in Added
            BY <1>1, <1>3, <3>1
        <3>4. c[2] - n[c[1]] = i
            BY <1>1, <3>1
        <3>5. QED
            BY <3>2, <3>3, <3>4
    <2>2. QED
        BY <1>5, <2>1 DEF Injection, Surjection
<1>7. IsFiniteSet(Counted(m)) /\ Total(m) \in Nat /\ Total(n) \in Nat
    BY TotalType
<1>8. Cardinality(Added) = Cardinality(S) /\ Cardinality(S) \in Nat
    <2>1. IsFiniteSet(S) /\ Cardinality(S) \in Nat
        BY Finite
    <2>2. QED
        BY <1>5, <1>6, <2>1, FS_Injection
<1>9. Counted(m) \cap Counted(n) = Counted(n)
    BY CountedPairs, <1>1
<1>10. Cardinality(Added) = Total(m) - Total(n)
    <2>1. Cardinality(Counted(m) \ Counted(n))
             = Cardinality(Counted(m)) - Cardinality(Counted(m) \cap Counted(n))
        BY <1>7, FS_Difference
    <2>2. QED
        BY <1>9, <2>1 DEF Added, Total
<1>11. QED
    BY <1>7, <1>8, <1>10

-----------------------------------------------------------------------------
(* Every record is accounted for                                             *)

\* The records whose call is over.
Over == {r \in Records : pc[r] = "done"}

\* Close shuts the gate when no caller is inside it, and the last drain starts behind
\* the gate.
Gate ==
    /\ closed => Readers = {}
    /\ resume = "budget" \/ loop \in {"stop", "budget", "exited"} => closed

\* A round of the last drain that has brought nothing has seen each channel it is
\* through with empty; the goroutine leaves nothing behind.
Drained ==
    /\ loop = "stop" /\ buf = {} => \A k \in Kinds \ todo : Of(ch, k) = {}
    /\ loop \in {"budget", "exited"} => buf = {}
    /\ loop = "exited" => ch = {}

\* A flush has a verdict on every kind before it reports.
Judged == loop = "report" => \A k \in Kinds : verdict[k] # "none"

\* A record whose call is over is waiting or in one of the counters.
Balanced ==
    Cardinality(Over)
        = flushed + failed + Total(dropped) + Cardinality(ch) + Cardinality(buf)

Accounts == Gate /\ Drained /\ Judged /\ Balanced

books == <<pc, ch, buf, dropped, flushed, failed>>

\* The steps that move a record, and the others.
LEMMA BookKinds ==
    ASSUME [Next]_vars
    PROVE  \/ UNCHANGED books
           \/ \E r \in Records : beginRecord(r) \/ Record(r) \/ LoopRecv(r) \/ DrainRecv(r)
           \/ abandonRemaining \/ FlushReport
<1> USE DEF books, queueVars, statVars
<1>1. ASSUME NEW c \in Closers, CloseCall(c) \/ Closer(c) PROVE UNCHANGED books
    BY <1>1 DEF CloseCall, Closer, CloseLock, CloseDone, CloseTimeout
<1>2. CASE LoopTick \/ LoopStop \/ TickDone \/ StopDone \/ DrainAgain
    BY <1>2 DEF LoopTick, LoopStop, TickDone, StopDone, DrainAgain
<1>3. ASSUME NEW k \in Kinds, DrainNext(k) PROVE UNCHANGED books
    BY <1>3 DEF DrainNext
<1>4. CASE FlushBegin \/ FlushNoDB \/ FlushTx \/ SetRedis
    BY <1>4 DEF FlushBegin, FlushNoDB, FlushTx, SetRedis
<1>5. ASSUME NEW k \in CachedKinds, ListCount(k) \/ ListSet(k) \/ Expire(k)
      PROVE  UNCHANGED books
    BY <1>5 DEF ListCount, ListSet, Expire
<1>6. CASE UNCHANGED vars
    BY <1>6 DEF vars
<1>7. QED
    BY <1>1, <1>2, <1>3, <1>4, <1>5, <1>6 DEF Next, LoopStep, Drain

\* Sets of records without a common record add up.
LEMMA Disjoint ==
    ASSUME NEW S \in SUBSET Records, NEW T \in SUBSET Records, S \cap T = {}
    PROVE  Cardinality(S \cup T) = Cardinality(S) + Cardinality(T)
<1>1. /\ IsFiniteSet(S) /\ IsFiniteSet(T)
      /\ Cardinality(S) \in Nat /\ Cardinality(T) \in Nat
    BY Finite
<1>2. Cardinality(S \cup T) = Cardinality(S) + Cardinality(T) - Cardinality(S \cap T)
    BY <1>1, FS_Union
<1>3. Cardinality(S \cap T) = 0
    BY FS_EmptySet
<1>4. QED
    BY <1>1, <1>2, <1>3

\* One record more is one more.
LEMMA Another ==
    ASSUME NEW S \in SUBSET Records, NEW r \in Records \ S
    PROVE  Cardinality(S \cup {r}) = Cardinality(S) + 1
    BY Finite, FS_AddElement

\* A record refused is one more of the sum.
LEMMA DropEffect ==
    ASSUME Types, NEW r \in Records, Drop(KindOf[r], 1)
    PROVE  Total(dropped') = Total(dropped) + 1
<1>1. KindOf[r] \in Kinds
    BY KindsAssumption
<1>2. dropped \in [Kinds -> Nat] /\ dropped' \in [Kinds -> Nat]
    BY <1>1 DEF Types, Drop
<1>3. \A k \in Kinds : dropped'[k] = dropped[k] + Cardinality(Of({r}, k))
    <2>1. Of({r}, KindOf[r]) = {r} /\ \A k \in Kinds \ {KindOf[r]} : Of({r}, k) = {}
        BY DEF Of
    <2>2. Cardinality({r}) = 1 /\ Cardinality({}) = 0
        BY FS_Singleton, FS_EmptySet
    <2>3. dropped' = [dropped EXCEPT ![KindOf[r]] = @ + 1]
        BY DEF Drop
    <2>4. ASSUME NEW k \in Kinds, k = KindOf[r]
          PROVE  dropped'[k] = dropped[k] + Cardinality(Of({r}, k))
        <3>1. Cardinality(Of({r}, k)) = 1
            BY <2>1, <2>2, <2>4
        <3>2. QED
            BY <1>2, <2>3, <2>4, <3>1
    <2>5. ASSUME NEW k \in Kinds, k # KindOf[r]
          PROVE  dropped'[k] = dropped[k] + Cardinality(Of({r}, k))
        <3>1. Cardinality(Of({r}, k)) = 0 /\ dropped[k] \in Nat
            BY <1>2, <2>1, <2>2, <2>5
        <3>2. QED
            BY <1>2, <2>3, <2>5, <3>1
    <2>6. QED
        BY <2>4, <2>5
<1>4. Cardinality({r}) = 1
    BY FS_Singleton
<1>5. QED
    BY <1>2, <1>3, <1>4, TotalAdd

\* A record that leaves a channel for its buffer is still waiting.
LEMMA TakeEffect ==
    ASSUME IInv, NEW r \in ch, Take(r)
    PROVE  Cardinality(ch') + Cardinality(buf') = Cardinality(ch) + Cardinality(buf)
<1>1. /\ ch' = ch \ {r} /\ buf' = buf \cup {r} /\ r \notin buf
      /\ ch \in SUBSET Records /\ buf \in SUBSET Records
    BY DEF Take, IInv, Types, Placed
<1>2. Cardinality(ch \ {r}) = Cardinality(ch) - 1
    BY <1>1, Finite, FS_RemoveElement
<1>3. Cardinality(buf \cup {r}) = Cardinality(buf) + 1
    BY <1>1, Another
<1>4. Cardinality(ch) \in Nat /\ Cardinality(buf) \in Nat
    BY <1>1, Finite
<1>5. QED
    BY <1>1, <1>2, <1>3, <1>4

\* The end of the call of r is one more call that is over.
LEMMA OverEffect ==
    ASSUME Types, NEW r \in Records, pc[r] # "done", pc' = [pc EXCEPT ![r] = "done"]
    PROVE  Cardinality(Over') = Cardinality(Over) + 1
<1>1. Over \in SUBSET Records /\ r \in Records \ Over /\ Over' = Over \cup {r}
    BY DEF Over, Types
<1>2. QED
    BY <1>1, Another

\* The gate stays shut, and nobody is inside it then.
LEMMA GateStep == IInv /\ Gate /\ [Next]_vars => Gate'
<1> SUFFICES ASSUME IInv, Gate, [Next]_vars PROVE Gate'
    OBVIOUS
<1> USE DEF Gate, Readers, queueVars, loopVars, flushVars, env, dbVars, statVars, cacheVars
<1>1. ASSUME NEW r \in Records, beginRecord(r) PROVE Gate'
    BY <1>1 DEF beginRecord, IInv, Types
<1>2. ASSUME NEW r \in Records, Record(r) PROVE Gate'
    BY <1>2 DEF Record, IInv, Types
<1>3. ASSUME NEW c \in Closers, CloseCall(c) \/ Closer(c) PROVE Gate'
    BY <1>3 DEF CloseCall, Closer, CloseLock, CloseDone, CloseTimeout
<1>4. ASSUME NEW r \in Records, LoopRecv(r) \/ DrainRecv(r) PROVE Gate'
    BY <1>4 DEF LoopRecv, DrainRecv
<1>5. CASE LoopTick \/ LoopStop \/ TickDone \/ StopDone \/ DrainAgain \/ abandonRemaining
    BY <1>5 DEF LoopTick, LoopStop, TickDone, StopDone, DrainAgain, abandonRemaining
<1>6. ASSUME NEW k \in Kinds, DrainNext(k) PROVE Gate'
    BY <1>6 DEF DrainNext
<1>7. CASE FlushBegin \/ FlushNoDB \/ FlushTx
    BY <1>7 DEF FlushBegin, FlushNoDB, FlushTx
<1>8. CASE FlushReport
    BY <1>8 DEF FlushReport, IInv, Types
<1>9. CASE SetRedis \/ \E k \in CachedKinds : ListCount(k) \/ ListSet(k) \/ Expire(k)
    BY <1>9 DEF SetRedis, ListCount, ListSet, Expire
<1>10. CASE UNCHANGED vars
    BY <1>10 DEF vars
<1>11. QED
    BY <1>1, <1>2, <1>3, <1>4, <1>5, <1>6, <1>7, <1>8, <1>9, <1>10 DEF Next, LoopStep, Drain

\* The last drain leaves neither channel nor buffer unlooked at.
LEMMA DrainedStep == IInv /\ Gate /\ Drained /\ [Next]_vars => Drained'
<1> SUFFICES ASSUME IInv, Gate, Drained, [Next]_vars PROVE Drained'
    OBVIOUS
<1> USE DEF Drained, Of, queueVars, loopVars, flushVars, env, dbVars, statVars, cacheVars
<1>1. ASSUME NEW r \in Records, beginRecord(r) PROVE Drained'
    BY <1>1 DEF beginRecord
<1>2. ASSUME NEW r \in Records, Record(r) PROVE Drained'
    <2>1. loop \notin {"stop", "budget", "exited"}
        BY <1>2 DEF Record, Gate, Readers
    <2>2. QED
        BY <1>2, <2>1 DEF Record
<1>3. ASSUME NEW c \in Closers, CloseCall(c) \/ Closer(c) PROVE Drained'
    BY <1>3 DEF CloseCall, Closer, CloseLock, CloseDone, CloseTimeout
<1>4. ASSUME NEW r \in Records, LoopRecv(r) \/ DrainRecv(r) PROVE Drained'
    BY <1>4 DEF LoopRecv, DrainRecv, Take
<1>5. CASE LoopTick \/ LoopStop \/ TickDone \/ DrainAgain \/ abandonRemaining
    BY <1>5 DEF LoopTick, LoopStop, TickDone, DrainAgain, abandonRemaining
<1>6. CASE StopDone
    <2>1. UNCHANGED <<ch, buf>> /\ loop = "stop" /\ todo = {}
          /\ loop' = IF buf = {} THEN "exited" ELSE "flush"
        BY <1>6 DEF StopDone
    <2>2. buf = {} => ch = {}
        BY <2>1, KindsAssumption DEF IInv, Types
    <2>3. QED
        BY <2>1, <2>2
<1>7. ASSUME NEW k \in Kinds, DrainNext(k) PROVE Drained'
    <2>1. /\ UNCHANGED <<ch, buf, loop>> /\ todo' = todo \ {k}
          /\ Of(ch, k) = {} \/ Cardinality(Of(buf, k)) >= DrainLimit
        BY <1>7 DEF DrainNext
    <2>2. buf = {} => Cardinality(Of(buf, k)) = 0
        BY FS_EmptySet
    <2>3. buf = {} => Of(ch, k) = {}
        BY <2>1, <2>2, OptionsAssumption
    <2>4. QED
        BY <2>1, <2>3
<1>8. CASE FlushBegin \/ FlushNoDB \/ FlushTx
    BY <1>8 DEF FlushBegin, FlushNoDB, FlushTx
<1>9. CASE FlushReport
    BY <1>9 DEF FlushReport, IInv, Types
<1>10. CASE SetRedis \/ \E k \in CachedKinds : ListCount(k) \/ ListSet(k) \/ Expire(k)
    BY <1>10 DEF SetRedis, ListCount, ListSet, Expire
<1>11. CASE UNCHANGED vars
    BY <1>11 DEF vars
<1>12. QED
    BY <1>1, <1>2, <1>3, <1>4, <1>5, <1>6, <1>7, <1>8, <1>9, <1>10, <1>11
    DEF Next, LoopStep, Drain

\* No kind of a flush that reports is without a verdict.
LEMMA JudgedStep == IInv /\ Judged /\ [Next]_vars => Judged'
<1> SUFFICES ASSUME IInv, Judged, [Next]_vars PROVE Judged'
    OBVIOUS
<1> USE DEF Judged, queueVars, loopVars, flushVars, env, dbVars, statVars, cacheVars
<1>1. ASSUME NEW r \in Records,
             beginRecord(r) \/ Record(r) \/ LoopRecv(r) \/ DrainRecv(r)
      PROVE  Judged'
    BY <1>1 DEF beginRecord, Record, LoopRecv, DrainRecv
<1>2. ASSUME NEW c \in Closers, CloseCall(c) \/ Closer(c) PROVE Judged'
    BY <1>2 DEF CloseCall, Closer, CloseLock, CloseDone, CloseTimeout
<1>3. CASE LoopTick \/ LoopStop \/ TickDone \/ StopDone \/ DrainAgain \/ abandonRemaining
    BY <1>3 DEF LoopTick, LoopStop, TickDone, StopDone, DrainAgain, abandonRemaining
<1>4. ASSUME NEW k \in Kinds, DrainNext(k) PROVE Judged'
    BY <1>4 DEF DrainNext
<1>5. CASE FlushBegin \/ FlushNoDB
    BY <1>5 DEF FlushBegin, FlushNoDB
<1>6. CASE FlushTx
    <2>1. \E tx, bad : verdict' = [k \in Kinds |->
              IF tx = "commit" /\ k \notin bad THEN "persisted" ELSE "failed"]
        BY <1>6 DEF FlushTx
    <2>2. QED
        BY <2>1
<1>7. CASE FlushReport
    BY <1>7 DEF FlushReport, IInv, Types
<1>8. CASE SetRedis \/ \E k \in CachedKinds : ListCount(k) \/ ListSet(k) \/ Expire(k)
    BY <1>8 DEF SetRedis, ListCount, ListSet, Expire
<1>9. CASE UNCHANGED vars
    BY <1>9 DEF vars
<1>10. QED
    BY <1>1, <1>2, <1>3, <1>4, <1>5, <1>6, <1>7, <1>8, <1>9 DEF Next, LoopStep, Drain

\* The numbers of a balance are numbers.
LEMMA BalanceType ==
    ASSUME Types
    PROVE  /\ flushed \in Nat /\ failed \in Nat /\ Total(dropped) \in Nat
           /\ Cardinality(ch) \in Nat /\ Cardinality(buf) \in Nat
           /\ Cardinality(Over) \in Nat
    BY Finite, TotalType DEF Types, Over

\* What is handed over, moved, written, refused or abandoned stays accounted for.
LEMMA BalancedStep == IInv /\ Judged /\ Balanced /\ [Next]_vars => Balanced'
<1> SUFFICES ASSUME IInv, Judged, Balanced, [Next]_vars PROVE Balanced'
    OBVIOUS
<1> USE DEF queueVars, loopVars, flushVars, env, dbVars, statVars, cacheVars
<1>1. Types /\ Placed
    BY DEF IInv
<1>2. /\ flushed \in Nat /\ failed \in Nat /\ Total(dropped) \in Nat
      /\ Cardinality(ch) \in Nat /\ Cardinality(buf) \in Nat
      /\ Cardinality(Over) \in Nat
    BY <1>1, BalanceType
<1>3. ASSUME NEW r \in Records, beginRecord(r) PROVE Balanced'
    <2>1. UNCHANGED <<ch, buf, flushed, failed>> /\ pc[r] = "new"
        BY <1>3 DEF beginRecord
    <2>2. CASE closed
        <3>1. Cardinality(Over') = Cardinality(Over) + 1
            BY <1>1, <1>3, <2>1, <2>2, OverEffect DEF beginRecord
        <3>2. Total(dropped') = Total(dropped) + 1
            BY <1>1, <1>3, <2>2, DropEffect DEF beginRecord
        <3>3. QED
            BY <1>2, <2>1, <3>1, <3>2 DEF Balanced
    <2>3. CASE ~closed
        <3>1. UNCHANGED dropped /\ pc' = [pc EXCEPT ![r] = "open"]
            BY <1>3, <2>3 DEF beginRecord
        <3>2. Over' = Over
            BY <1>1, <2>1, <3>1 DEF Over, Types
        <3>3. QED
            BY <2>1, <3>1, <3>2 DEF Balanced
    <2>4. QED
        BY <2>2, <2>3
<1>4. ASSUME NEW r \in Records, Record(r) PROVE Balanced'
    <2>1. /\ UNCHANGED <<buf, flushed, failed>> /\ pc[r] = "open"
          /\ pc' = [pc EXCEPT ![r] = "done"]
          /\ \/ ch' = ch \cup {r} /\ UNCHANGED dropped
             \/ Drop(KindOf[r], 1) /\ UNCHANGED ch
        BY <1>4 DEF Record
    <2>2. Cardinality(Over') = Cardinality(Over) + 1
        BY <1>1, <2>1, OverEffect
    <2>3. CASE ch' = ch \cup {r} /\ UNCHANGED dropped
        <3>1. ch \in SUBSET Records /\ r \in Records \ ch
            BY <1>1, <2>1 DEF Types, Placed
        <3>2. Cardinality(ch') = Cardinality(ch) + 1
            BY <2>3, <3>1, Another
        <3>3. QED
            BY <1>2, <2>1, <2>2, <2>3, <3>2 DEF Balanced
    <2>4. CASE Drop(KindOf[r], 1) /\ UNCHANGED ch
        <3>1. Total(dropped') = Total(dropped) + 1
            BY <1>1, <2>4, DropEffect
        <3>2. QED
            BY <1>2, <2>1, <2>2, <2>4, <3>1 DEF Balanced
    <2>5. QED
        BY <2>1, <2>3, <2>4
<1>5. ASSUME NEW r \in Records, LoopRecv(r) \/ DrainRecv(r) PROVE Balanced'
    <2>1. r \in ch /\ Take(r) /\ UNCHANGED <<pc, dropped, flushed, failed>>
        BY <1>5 DEF LoopRecv, DrainRecv
    <2>2. Cardinality(ch') + Cardinality(buf') = Cardinality(ch) + Cardinality(buf)
        BY <2>1, TakeEffect
    <2>3. Types'
        BY TypesStep
    <2>4. /\ Cardinality(ch') \in Nat /\ Cardinality(buf') \in Nat
        BY <2>3, Finite DEF Types
    <2>5. Over' = Over
        BY <2>1 DEF Over
    <2>6. QED
        BY <1>2, <2>1, <2>2, <2>4, <2>5 DEF Balanced
<1>6. CASE abandonRemaining
    <2>1. /\ UNCHANGED <<pc, buf, flushed, failed>> /\ ch' = {}
          /\ dropped' = [k \in Kinds |-> dropped[k] + Cardinality(Of(ch, k))]
        BY <1>6 DEF abandonRemaining
    <2>2. ch \in SUBSET Records /\ dropped \in [Kinds -> Nat]
        BY <1>1 DEF Types
    <2>3. dropped' \in [Kinds -> Nat]
        BY TypesStep DEF Types
    <2>4. \A k \in Kinds : dropped'[k] = dropped[k] + Cardinality(Of(ch, k))
        BY <2>1
    <2>5. Total(dropped') = Total(dropped) + Cardinality(ch)
        BY <2>2, <2>3, <2>4, TotalAdd
    <2>6. Cardinality(ch') = 0 /\ Over' = Over
        BY <2>1, FS_EmptySet DEF Over
    <2>7. QED
        BY <1>2, <2>1, <2>5, <2>6 DEF Balanced
<1>7. CASE FlushReport
    <2> DEFINE good == {r \in buf : verdict[KindOf[r]] = "persisted"}
               bad == {r \in buf : verdict[KindOf[r]] = "failed"}
    <2>1. /\ UNCHANGED <<pc, ch, dropped>> /\ buf' = {} /\ loop = "report"
          /\ flushed' = flushed + Cardinality(good) /\ failed' = failed + Cardinality(bad)
        BY <1>7 DEF FlushReport, recordFlushStats
    <2>2. good \in SUBSET Records /\ bad \in SUBSET Records /\ good \cap bad = {}
        BY <1>1 DEF Types
    <2>3. good \cup bad = buf
        BY <1>1, <2>1, KindsAssumption DEF Types, Judged
    <2> HIDE DEF good, bad
    <2>4. /\ Cardinality(buf) = Cardinality(good) + Cardinality(bad)
          /\ Cardinality(good) \in Nat /\ Cardinality(bad) \in Nat
        BY <2>2, <2>3, Disjoint, Finite
    <2>5. Cardinality(buf') = 0 /\ Over' = Over
        BY <2>1, FS_EmptySet DEF Over
    <2>6. QED
        BY <1>2, <2>1, <2>4, <2>5 DEF Balanced
<1>8. CASE UNCHANGED books
    BY <1>8 DEF books, Balanced, Over
<1>9. QED
    BY <1>3, <1>4, <1>5, <1>6, <1>7, <1>8, BookKinds

\* Nothing has been handed over and nothing counted.
LEMMA InitAccounts == Init => Accounts
<1> SUFFICES ASSUME Init PROVE Accounts
    OBVIOUS
<1>1. Gate /\ Drained /\ Judged
    BY DEF Init, Gate, Drained, Judged
<1>2. Over = {} /\ Counted(dropped) = {}
    <2>1. \A k \in Kinds : 1..dropped[k] = {}
        BY DEF Init
    <2>2. QED
        BY <2>1 DEF Init, Over, Counted
<1>3. Cardinality({}) = 0
    BY FS_EmptySet
<1>4. Balanced
    BY <1>2, <1>3 DEF Init, Balanced, Total
<1>5. QED
    BY <1>1, <1>4 DEF Accounts

\* The gate, the drain and the balance hold throughout.
THEOREM AccountsKept == Spec => []Accounts
<1>1. IInv /\ Accounts /\ [Next]_vars => Accounts'
    BY GateStep, DrainedStep, JudgedStep, BalancedStep DEF Accounts
<1>2. QED
    BY Inductive, InitAccounts, <1>1, PTL DEF Spec

\* Lost records stay visible: flushed claims no record that is not in the database, and
\* when the goroutine has exited flushed, failed and dropped add up to the calls that
\* are over, whatever was full, shut, failed or out of time.
THEOREM LossKeptVisible == Spec => []LossVisible
<1>1. IInv /\ Accounts /\ FlushedStored => LossVisible
    <2> SUFFICES ASSUME IInv, Accounts, FlushedStored PROVE LossVisible
        OBVIOUS
    <2>1. ASSUME loop = "exited"
          PROVE  Cardinality(Over) = flushed + failed + Total(dropped)
        <3>1. Cardinality(ch) = 0 /\ Cardinality(buf) = 0
            BY <2>1, FS_EmptySet DEF Accounts, Drained
        <3>2. flushed \in Nat /\ failed \in Nat /\ Total(dropped) \in Nat
            BY BalanceType DEF IInv
        <3>3. QED
            BY <3>1, <3>2 DEF Accounts, Balanced
    <2>2. QED
        BY <2>1 DEF LossVisible, FlushedStored, Over
<1>2. QED
    BY Inductive, AccountsKept, FlushedInDatabase, <1>1, PTL
=============================================================================
