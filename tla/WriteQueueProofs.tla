--------------------------- MODULE WriteQueueProofs ---------------------------
(***************************************************************************)
(* Proofs about WriteQueue for any sets of callers and of closers, any     *)
(* capacity and any batch limit: its invariants, and that it implements    *)
(* WriteContract.                                                          *)
(***************************************************************************)
EXTENDS WriteQueue, FiniteSetTheorems, TLAPS

Distinct(s) == \A i, k \in DOMAIN s : s[i] = s[k] => i = k

\* Jobs whose closure is still to be run: in the channel, or in a batch that has
\* not been flushed.
Waiting == Members(ch) \cup (IF loop = "notify" THEN {} ELSE Members(pending))
Queued == Members(ch) \cup Members(pending)

\* A job is in one place: with its caller, once in the channel, or once in the batch.
OnePlace ==
    /\ Distinct(ch) /\ Distinct(pending)
    /\ Members(ch) \cap Members(pending) = {}
    /\ \A j \in Queued : /\ pc[j] \in {"sent", "waiting", "returned"}
                         /\ doneCh[j] = "none"
                         /\ result[j] \in {"none", "queued"}
    /\ loop = "select" => Len(pending) < BatchLimit

\* A closure that is still to run has not run and has no effect.
NotYet ==
    /\ \A j \in Waiting : runs[j] = 0 /\ j \notin stored
    /\ \A j \in Jobs : pc[j] \in {"new", "rlock", "open", "sync"} =>
          runs[j] = 0 /\ j \notin stored
    /\ AtMostOnce

\* What a caller has been told, or will be, is true.
Told ==
    /\ \A j \in Jobs : batchErr[j] # "none" <=> loop = "notify" /\ j \in Members(pending)
    /\ \A j \in Jobs : "nil" \in {batchErr[j], doneCh[j], result[j]} => j \in stored
    /\ \A j \in Jobs : doneCh[j] # "none" => pc[j] \in {"sent", "waiting"} /\ Waits(j)
    /\ \A j \in Jobs : result[j] # "none" <=> pc[j] = "returned"
    /\ \A j \in Jobs : result[j] \in {"closed", "dropped"} => j \notin stored
    /\ \A j \in Jobs : pc[j] = "sync" => Waits(j)
    /\ \A j \in Jobs : pc[j] = "waiting" => Waits(j) /\ (j \in Queued \/ doneCh[j] # "none")
    /\ \A j \in Jobs : pc[j] = "sent" /\ Waits(j) => j \in Queued \/ doneCh[j] # "none"
    /\ \A j \in Jobs : result[j] = "queued" => ~Waits(j)

\* Nobody is inside the gate once it is shut; only then does loop stop, and only
\* with nothing left does it exit.
Gate ==
    /\ closed => Readers = {}
    /\ \A c \in Closers : closer[c] \in {"waiting", "returned"} => closed
    /\ \A c \in Closers : closer[c] = "returned" => loop = "exited"
    /\ loop \in {"stop", "exited"} \/ resume # "select" => closed
    /\ loop \in {"flush", "notify"} /\ resume = "exited" => ch = <<>>
    /\ loop = "exited" => ch = <<>> /\ pending = <<>>

\* The counters count what they say.
Refused == {j \in Jobs : result[j] \in {"closed", "dropped"}}
Submitted == {j \in Jobs : pc[j] # "new"}
Decided == {j \in Jobs : pc[j] \in {"sync", "waiting", "returned"}}
Finished == {j \in Jobs \ (Refused \cup Queued) : pc[j] \in {"sent", "waiting", "returned"}}

Counted ==
    /\ stats["submitted"] = Cardinality(Submitted)
    /\ stats["enqueued"] + stats["syncFallback"] = Cardinality(Decided \ Refused)
    /\ stats["droppedFull"] + stats["droppedClosed"] = Cardinality(Refused)
    /\ stats["succeeded"] + stats["failed"] = Cardinality(Finished)

IInv == TypeOK /\ OnePlace /\ NotYet /\ Told /\ Gate /\ Counted

-----------------------------------------------------------------------------
(* Sequences, and what the steps do to them                                  *)

\* Sending a job puts it into the channel and nowhere else.
LEMMA AppendMembers ==
    ASSUME NEW s \in Seq(Jobs), NEW x \in Jobs
    PROVE  /\ Append(s, x) \in Seq(Jobs) /\ Len(Append(s, x)) = Len(s) + 1
           /\ Members(Append(s, x)) = Members(s) \cup {x}
           /\ Distinct(s) /\ x \notin Members(s) => Distinct(Append(s, x))
<1>1. /\ Append(s, x) \in Seq(Jobs) /\ Len(Append(s, x)) = Len(s) + 1
      /\ \A i \in 1..Len(s) : Append(s, x)[i] = s[i]
      /\ Append(s, x)[Len(s) + 1] = x
      /\ DOMAIN Append(s, x) = 1..(Len(s) + 1) /\ DOMAIN s = 1..Len(s)
      /\ Len(s) \in Nat
    OBVIOUS
<1>2. Members(Append(s, x)) = Members(s) \cup {x}
    BY <1>1 DEF Members
<1>3. Distinct(s) /\ x \notin Members(s) => Distinct(Append(s, x))
    BY <1>1 DEF Members, Distinct
<1>4. QED
    BY <1>1, <1>2, <1>3

\* Receiving takes the oldest job out.
LEMMA TailMembers ==
    ASSUME NEW s \in Seq(Jobs), s # <<>>
    PROVE  /\ Head(s) \in Jobs /\ Tail(s) \in Seq(Jobs)
           /\ Len(Tail(s)) = Len(s) - 1
           /\ Members(s) = Members(Tail(s)) \cup {Head(s)}
           /\ Distinct(s) => Distinct(Tail(s)) /\ Head(s) \notin Members(Tail(s))
<1>1. /\ Head(s) \in Jobs /\ Tail(s) \in Seq(Jobs) /\ Len(Tail(s)) = Len(s) - 1
      /\ Head(s) = s[1] /\ Len(s) \in Nat \ {0}
      /\ \A i \in 1..(Len(s) - 1) : Tail(s)[i] = s[i + 1]
      /\ DOMAIN Tail(s) = 1..(Len(s) - 1) /\ DOMAIN s = 1..Len(s)
    OBVIOUS
<1>2. Members(s) = Members(Tail(s)) \cup {Head(s)}
    <2>1. ASSUME NEW i \in DOMAIN s PROVE s[i] \in Members(Tail(s)) \cup {Head(s)}
        <3>1. CASE i = 1
            BY <1>1, <3>1
        <3>2. CASE i # 1
            <4>1. i - 1 \in DOMAIN Tail(s) /\ Tail(s)[i - 1] = s[i]
                BY <1>1, <3>2
            <4>2. QED
                BY <4>1 DEF Members
        <3>3. QED
            BY <3>1, <3>2
    <2>2. QED
        BY <1>1, <2>1, SMTT(40) DEF Members
<1>3. Distinct(s) => Distinct(Tail(s)) /\ Head(s) \notin Members(Tail(s))
    BY <1>1 DEF Members, Distinct
<1>4. QED
    BY <1>1, <1>2, <1>3

\* The members of a sequence of jobs are jobs, and an empty one has none.
LEMMA MembersType ==
    ASSUME NEW s \in Seq(Jobs)
    PROVE  /\ Members(s) \subseteq Jobs
           /\ Members(s) = {} <=> s = <<>>
           /\ \A n \in 0..Len(s) : Members(SubSeq(s, 1, n)) \subseteq Members(s)
<1>1. DOMAIN s = 1..Len(s) /\ Len(s) \in Nat /\ \A i \in 1..Len(s) : s[i] \in Jobs
    OBVIOUS
<1>2. Members(s) = {} <=> s = <<>>
    <2>1. s = <<>> <=> Len(s) = 0
        OBVIOUS
    <2>2. Members(s) = {} <=> DOMAIN s = {}
        BY DEF Members
    <2>3. QED
        BY <1>1, <2>1, <2>2
<1>3. ASSUME NEW n \in 0..Len(s) PROVE Members(SubSeq(s, 1, n)) \subseteq Members(s)
    <2>1. DOMAIN SubSeq(s, 1, n) = 1..n /\ \A i \in 1..n : SubSeq(s, 1, n)[i] = s[i]
        BY <1>1
    <2>2. QED
        BY <1>1, <2>1 DEF Members
<1>4. QED
    BY <1>1, <1>2, <1>3 DEF Members

\* In a batch without duplicates a closure is invoked at most once, and one that is
\* not in the batch never.
LEMMA InvokedOnce ==
    ASSUME NEW s \in Seq(Jobs), Distinct(s), NEW n \in 0..Len(s), NEW j \in Jobs
    PROVE  /\ Cardinality({i \in 1..n : s[i] = j}) \in {0, 1}
           /\ j \notin Members(s) => Cardinality({i \in 1..n : s[i] = j}) = 0
<1> DEFINE I == {i \in 1..n : s[i] = j}
<1>1. DOMAIN s = 1..Len(s) /\ 1..n \subseteq DOMAIN s
    OBVIOUS
<1>2. CASE I = {}
    BY <1>2, FS_EmptySet
<1>3. CASE I # {}
    <2>1. PICK i \in I : TRUE
        BY <1>3
    <2>2. I = {i}
        BY <1>1, <2>1 DEF Distinct
    <2>3. j \in Members(s)
        BY <1>1, <2>1 DEF Members
    <2>4. QED
        BY <2>2, <2>3, FS_Singleton
<1>4. QED
    BY <1>2, <1>3

\* There are finitely many jobs, so every set of them has a size.
LEMMA CountType == ASSUME NEW S \in SUBSET Jobs PROVE IsFiniteSet(S) /\ Cardinality(S) \in Nat
    BY JobsAssumption, FS_Subset, FS_CardinalityType

-----------------------------------------------------------------------------
(* Every action keeps the types                                              *)

Results == Outcomes \cup {"closed", "dropped", "queued"}

\* One counter goes up by one and the others stay.
LEMMA BumpEffect ==
    ASSUME TypeOK, NEW k \in Counters, Bump(k, 1)
    PROVE  /\ stats' \in [Counters -> Nat]
           /\ \A l \in Counters : stats'[l] = IF l = k THEN stats[l] + 1 ELSE stats[l]
    BY DEF TypeOK, Bump

\* A call returns: its outcome is set and the others stay.
LEMMA ReturnEffect ==
    ASSUME TypeOK, NEW j \in Jobs, NEW r \in Results, Return(j, r)
    PROVE  /\ pc' \in [Jobs -> PcStates] /\ result' \in [Jobs -> Results]
           /\ \A k \in Jobs : pc'[k] = IF k = j THEN "returned" ELSE pc[k]
           /\ \A k \in Jobs : result'[k] = IF k = j THEN r ELSE result[k]
    BY DEF TypeOK, Return, PcStates, Results

\* The job at the head of the channel goes to the end of the batch.
LEMMA TakeOneEffect ==
    ASSUME TypeOK, ch # <<>>, TakeOne
    PROVE  /\ ch' \in Seq(Jobs) /\ Len(ch') <= Capacity
           /\ pending' \in Seq(Jobs) /\ Len(pending') = Len(pending) + 1
           /\ Head(ch) \in Jobs
           /\ Members(ch) = Members(ch') \cup {Head(ch)}
           /\ Members(pending') = Members(pending) \cup {Head(ch)}
           /\ Distinct(ch) => Distinct(ch') /\ Head(ch) \notin Members(ch')
           /\ Distinct(pending) /\ Head(ch) \notin Members(pending) => Distinct(pending')
<1>1. ch \in Seq(Jobs) /\ pending \in Seq(Jobs) /\ Len(ch) <= Capacity /\ Len(ch) \in Nat
    BY DEF TypeOK
<1>2. ch' = Tail(ch) /\ pending' = Append(pending, Head(ch))
    BY DEF TakeOne
<1>3. Len(ch') <= Capacity
    BY <1>1, <1>2, TailMembers, CapacityAssumption
<1>4. QED
    BY <1>1, <1>2, <1>3, TailMembers, AppendMembers

\* The outcome of a transaction with n closures invoked, bad of which failed.
LEMMA FlushTxEffect ==
    ASSUME TypeOK, Distinct(pending), FlushTx
    PROVE  /\ \E S \in SUBSET Members(pending) :
                 /\ stored' = stored \cup S
                 /\ \A j \in Jobs : batchErr'[j] = "nil" => j \in S
           /\ batchErr' \in [Jobs -> Outcomes]
           /\ \A j \in Jobs : batchErr'[j] # "none" <=> j \in Members(pending)
           /\ runs' \in [Jobs -> Nat]
           /\ \A j \in Jobs : runs'[j] \in {runs[j], runs[j] + 1}
           /\ \A j \in Jobs \ Members(pending) : runs'[j] = runs[j]
<1> DEFINE Tx(tx, n, bad, leaky) ==
        /\ tx # "abort" => n = Len(pending)
        /\ runs' = [j \in Jobs |-> runs[j] + Cardinality({i \in 1..n : pending[i] = j})]
        /\ batchErr' = [j \in Jobs |->
                           IF j \notin Members(pending) THEN "none"
                           ELSE IF tx = "commit" /\ j \notin bad THEN "nil"
                           ELSE "err"]
        /\ stored' = IF tx = "abort" THEN stored
                     ELSE stored \cup (Members(pending) \ bad) \cup leaky
<1>0. PICK tx \in TxOutcomes, n \in 0..Len(pending) :
        \E bad \in SUBSET Members(SubSeq(pending, 1, n)), leaky \in SUBSET Members(pending) :
            leaky \subseteq bad /\ Tx(tx, n, bad, leaky)
    <2>1. PICK tx \in TxOutcomes, n \in 0..Len(pending) :
            \E bad \in SUBSET Members(SubSeq(pending, 1, n)) :
            \E leaky \in SUBSET bad : Tx(tx, n, bad, leaky)
        BY DEF FlushTx
    <2>2. SUBSET Members(SubSeq(pending, 1, n)) \subseteq SUBSET Members(pending)
        BY MembersType DEF TypeOK
    <2> HIDE DEF Tx
    <2>3. QED
        BY <2>1, <2>2
<1>1. PICK bad \in SUBSET Members(SubSeq(pending, 1, n)), leaky \in SUBSET Members(pending) :
        leaky \subseteq bad /\ Tx(tx, n, bad, leaky)
    BY <1>0
<1>2. pending \in Seq(Jobs) /\ stored \subseteq Jobs /\ runs \in [Jobs -> Nat]
    BY DEF TypeOK
<1>3. bad \subseteq Members(pending) /\ leaky \subseteq bad
    BY <1>1, <1>2, MembersType
<1>4. ASSUME NEW j \in Jobs
      PROVE  /\ runs'[j] \in {runs[j], runs[j] + 1} /\ runs'[j] \in Nat
             /\ j \notin Members(pending) => runs'[j] = runs[j]
    <2> DEFINE m == Cardinality({i \in 1..n : pending[i] = j})
    <2>1. m \in {0, 1} /\ (j \notin Members(pending) => m = 0)
        BY <1>2, InvokedOnce
    <2>2. runs'[j] = runs[j] + m /\ runs[j] \in Nat
        BY <1>1, <1>2
    <2> HIDE DEF m
    <2>3. QED
        BY <2>1, <2>2
<1>5. runs' \in [Jobs -> Nat]
    <2>1. DOMAIN runs' = Jobs /\ runs' = [j \in Jobs |-> runs'[j]]
        BY <1>1, Zenon
    <2>2. QED
        BY <1>4, <2>1
<1>6. /\ batchErr' \in [Jobs -> Outcomes]
      /\ \A j \in Jobs : batchErr'[j] # "none" <=> j \in Members(pending)
    BY <1>1 DEF Outcomes
<1>7. \E S \in SUBSET Members(pending) :
         stored' = stored \cup S /\ \A j \in Jobs : batchErr'[j] = "nil" => j \in S
    <2> DEFINE S == IF tx = "abort" THEN {} ELSE (Members(pending) \ bad) \cup leaky
    <2>1. S \in SUBSET Members(pending) /\ stored' = stored \cup S
        BY <1>1, <1>3
    <2>2. \A j \in Jobs : batchErr'[j] = "nil" => j \in S
        BY <1>1
    <2>3. QED
        BY <2>1, <2>2
<1>8. QED
    BY <1>4, <1>5, <1>6, <1>7

\* The end of flushBatch counts each job with an outcome once.
LEMMA NotifyEffect ==
    ASSUME TypeOK, FlushNotify
    PROVE  /\ stats' \in [Counters -> Nat]
           /\ \A l \in Counters \ {"succeeded", "failed"} : stats'[l] = stats[l]
           /\ stats'["succeeded"] + stats'["failed"] =
                 stats["succeeded"] + stats["failed"]
                    + Cardinality({j \in Jobs : batchErr[j] # "none"})
<1> DEFINE good == {j \in Jobs : batchErr[j] = "nil"}
<1> DEFINE bad == {j \in Jobs : batchErr[j] = "err"}
<1> DEFINE m == Cardinality(good)
<1> DEFINE n == Cardinality(bad)
<1>1. /\ good \subseteq Jobs /\ IsFiniteSet(good) /\ m \in Nat
      /\ bad \subseteq Jobs /\ IsFiniteSet(bad) /\ n \in Nat
    BY CountType
<1>2. Cardinality({j \in Jobs : batchErr[j] # "none"}) = m + n
    <2>1. good \cap bad = {} /\ {j \in Jobs : batchErr[j] # "none"} = good \cup bad
        BY DEF TypeOK, Outcomes
    <2>2. Cardinality(good \cup bad) = m + n - Cardinality(good \cap bad)
        BY <1>1, FS_Union
    <2>3. Cardinality(good \cap bad) = 0
        BY <2>1, FS_EmptySet
    <2>4. Cardinality({j \in Jobs : batchErr[j] # "none"}) = m + n - Cardinality(good \cap bad)
        BY <2>1, <2>2
    <2> HIDE DEF m, n
    <2>5. QED
        BY <1>1, <2>3, <2>4
<1>3. stats' = [stats EXCEPT !["succeeded"] = @ + m, !["failed"] = @ + n]
    BY DEF FlushNotify
<1> HIDE DEF m, n
<1>4. stats \in [Counters -> Nat] /\ "succeeded" \in Counters /\ "failed" \in Counters
    BY DEF TypeOK, Counters
<1>5. stats' \in [Counters -> Nat]
    BY <1>1, <1>3, <1>4
<1>6. /\ stats'["succeeded"] = stats["succeeded"] + m
      /\ stats'["failed"] = stats["failed"] + n
      /\ \A l \in Counters \ {"succeeded", "failed"} : stats'[l] = stats[l]
    BY <1>3, <1>4
<1>7. QED
    BY <1>1, <1>2, <1>4, <1>5, <1>6

\* No step of a caller, of a closer or of loop leaves the types.  The batch never
\* exceeds its limit because select is only reached with room in it.
LEMMA TypeStep == TypeOK /\ OnePlace /\ [Next]_vars => TypeOK'
<1> SUFFICES ASSUME TypeOK, OnePlace, [Next]_vars PROVE TypeOK'
    OBVIOUS
<1> USE CapacityAssumption, BatchLimitAssumption
<1> USE DEF TypeOK, callerVars, loopVars, Counters, PcStates, Outcomes
<1>1. ASSUME NEW j \in Jobs, Call(j) PROVE TypeOK'
    BY <1>1, BumpEffect DEF Call
<1>2. ASSUME NEW j \in Jobs, RLock(j) PROVE TypeOK'
    BY <1>2 DEF RLock
<1>3. ASSUME NEW j \in Jobs, DropClosed(j) \/ DropFull(j) PROVE TypeOK'
    <2>1. pc' \in [Jobs -> PcStates] /\ result' \in [Jobs -> Results]
        BY <1>3, ReturnEffect DEF DropClosed, DropFull, Results
    <2>2. stats' \in [Counters -> Nat]
        BY <1>3, BumpEffect DEF DropClosed, DropFull
    <2>3. QED
        BY <1>3, <2>1, <2>2 DEF DropClosed, DropFull, Results
<1>4. ASSUME NEW j \in Jobs, Send(j) PROVE TypeOK'
    BY <1>4, AppendMembers DEF Send
<1>5. ASSUME NEW j \in Jobs, Sent(j) PROVE TypeOK'
    <2>1. pc' \in [Jobs -> PcStates] /\ result' \in [Jobs -> Results]
        BY <1>5, ReturnEffect DEF Sent, Results
    <2>2. stats' \in [Counters -> Nat]
        BY <1>5, BumpEffect DEF Sent
    <2>3. QED
        BY <1>5, <2>1, <2>2 DEF Sent, Results
<1>6. ASSUME NEW j \in Jobs, SyncFallback(j) PROVE TypeOK'
    <2>1. pc' \in [Jobs -> PcStates] /\ result' \in [Jobs -> Results]
        BY <1>6, ReturnEffect DEF SyncFallback, Results
    <2>2. stats' \in [Counters -> Nat]
        BY <1>6, BumpEffect, SMTT(40) DEF SyncFallback
    <2>3. QED
        BY <1>6, <2>1, <2>2 DEF SyncFallback, Results
<1>7. ASSUME NEW j \in Jobs, runSynchronously(j) PROVE TypeOK'
    <2>1. PICK tx \in TxOutcomes, n \in 0..1 :
            /\ Return(j, IF tx = "commit" THEN "nil" ELSE "err")
            /\ Bump(IF tx = "commit" THEN "succeeded" ELSE "failed", 1)
            /\ stored' = IF tx = "abort" THEN stored ELSE stored \cup {j}
            /\ runs' = [runs EXCEPT ![j] = @ + n]
        BY <1>7 DEF runSynchronously
    <2>2. pc' \in [Jobs -> PcStates] /\ result' \in [Jobs -> Results]
        BY <2>1, ReturnEffect DEF Results
    <2>3. stats' \in [Counters -> Nat]
        BY <2>1, BumpEffect
    <2>4. stored' \subseteq Jobs /\ runs' \in [Jobs -> Nat]
        BY <2>1
    <2>5. QED
        BY <1>7, <2>2, <2>3, <2>4 DEF runSynchronously, Results
<1>8. ASSUME NEW j \in Jobs, ReceiveDone(j) PROVE TypeOK'
    BY <1>8 DEF ReceiveDone, Return
<1>9. ASSUME NEW c \in Closers, CloseCall(c) \/ CloseLock(c) \/ CloseReturn(c) PROVE TypeOK'
    BY <1>9 DEF CloseCall, CloseLock, CloseReturn
<1>10. CASE LoopRecv
    <2>1. /\ ch' \in Seq(Jobs) /\ Len(ch') <= Capacity
          /\ pending' \in Seq(Jobs) /\ Len(pending') <= BatchLimit
        BY <1>10, TakeOneEffect, SMTT(40) DEF LoopRecv, OnePlace
    <2>2. QED
        BY <1>10, <2>1 DEF LoopRecv
<1>11. CASE LoopTick \/ LoopStop
    BY <1>11 DEF LoopTick, LoopStop
<1>12. CASE Drain
    <2>1. /\ ch' \in Seq(Jobs) /\ Len(ch') <= Capacity
          /\ pending' \in Seq(Jobs) /\ Len(pending') <= BatchLimit
        BY <1>12, TakeOneEffect DEF Drain
    <2>2. QED
        BY <1>12, <2>1 DEF Drain
<1>13. CASE DrainDone \/ StopDone
    BY <1>13 DEF DrainDone, StopDone
<1>14. CASE FlushTx
    <2>1. Distinct(pending) /\ Members(pending) \subseteq Jobs
        BY MembersType DEF OnePlace
    <2>2. runs' \in [Jobs -> Nat] /\ batchErr' \in [Jobs -> Outcomes] /\ stored' \subseteq Jobs
        BY <1>14, <2>1, FlushTxEffect
    <2>3. QED
        BY <1>14, <2>2 DEF FlushTx
<1>15. CASE FlushNoDB
    BY <1>15 DEF FlushNoDB
<1>16. CASE FlushNotify
    <2>2. stats' \in [Counters -> Nat]
        BY <1>16, NotifyEffect
    <2>3. doneCh' \in [Jobs -> Outcomes]
        BY <1>16 DEF FlushNotify
    <2>4. pending' \in Seq(Jobs) /\ Len(pending') <= BatchLimit
        BY <1>16 DEF FlushNotify
    <2>5. QED
        BY <1>16, <2>2, <2>3, <2>4 DEF FlushNotify
<1>17. CASE UNCHANGED vars
    BY <1>17 DEF vars
<1>18. QED
    BY <1>1, <1>2, <1>3, <1>4, <1>5, <1>6, <1>7, <1>8, <1>9, <1>10, <1>11, <1>12, <1>13,
       <1>14, <1>15, <1>16, <1>17 DEF Next, Caller, Closer, Loop

-----------------------------------------------------------------------------
(* The gate                                                                  *)

\* Close shuts the gate when nobody is inside, and loop stops behind it.
LEMMA GateStep == TypeOK /\ Gate /\ [Next]_vars => Gate'
<1> SUFFICES ASSUME TypeOK, Gate, [Next]_vars PROVE Gate'
    OBVIOUS
<1> USE DEF TypeOK, Gate, callerVars, loopVars, Readers
<1>1. ASSUME NEW j \in Jobs, Call(j) PROVE Gate'
    BY <1>1 DEF Call, Bump
<1>2. ASSUME NEW j \in Jobs, RLock(j) PROVE Gate'
    BY <1>2 DEF RLock
<1>3. ASSUME NEW j \in Jobs, DropClosed(j) PROVE Gate'
    BY <1>3 DEF DropClosed, Return, Bump
<1>4. ASSUME NEW j \in Jobs, Send(j) PROVE Gate'
    BY <1>4 DEF Send
<1>5. ASSUME NEW j \in Jobs, Sent(j) PROVE Gate'
    BY <1>5 DEF Sent, Return, Bump
<1>6. ASSUME NEW j \in Jobs, DropFull(j) PROVE Gate'
    BY <1>6 DEF DropFull, Return, Bump
<1>7. ASSUME NEW j \in Jobs, SyncFallback(j) PROVE Gate'
    BY <1>7 DEF SyncFallback, Return, Bump
<1>8. ASSUME NEW j \in Jobs, runSynchronously(j) PROVE Gate'
    BY <1>8 DEF runSynchronously, Return, Bump
<1>9. ASSUME NEW j \in Jobs, ReceiveDone(j) PROVE Gate'
    BY <1>9 DEF ReceiveDone, Return
<1>10. ASSUME NEW c \in Closers, CloseCall(c) PROVE Gate'
    BY <1>10 DEF CloseCall
<1>11. ASSUME NEW c \in Closers, CloseLock(c) PROVE Gate'
    BY <1>11 DEF CloseLock
<1>12. ASSUME NEW c \in Closers, CloseReturn(c) PROVE Gate'
    BY <1>12 DEF CloseReturn
<1>13. CASE LoopRecv
    BY <1>13 DEF LoopRecv, TakeOne
<1>14. CASE LoopTick
    BY <1>14 DEF LoopTick
<1>15. CASE LoopStop
    BY <1>15 DEF LoopStop
<1>16. CASE Drain
    BY <1>16 DEF Drain, TakeOne
<1>17. CASE DrainDone
    BY <1>17 DEF DrainDone
<1>18. CASE StopDone
    BY <1>18, BatchLimitAssumption DEF StopDone
<1>19. CASE FlushTx
    BY <1>19 DEF FlushTx
<1>20. CASE FlushNoDB
    BY <1>20 DEF FlushNoDB
<1>21. CASE FlushNotify
    BY <1>21 DEF FlushNotify
<1>22. CASE UNCHANGED vars
    BY <1>22 DEF vars
<1>23. QED
    BY <1>1, <1>2, <1>3, <1>4, <1>5, <1>6, <1>7, <1>8, <1>9, <1>10, <1>11, <1>12,
       <1>13, <1>14, <1>15, <1>16, <1>17, <1>18, <1>19, <1>20, <1>21, <1>22
    DEF Next, Caller, Closer, Loop

-----------------------------------------------------------------------------
(* Where a job is, and what has become of its closure                        *)

\* A job moves from its caller to the channel to the batch, and is never copied.
LEMMA OnePlaceStep == TypeOK /\ OnePlace /\ Told /\ [Next]_vars => OnePlace'
<1> SUFFICES ASSUME TypeOK, OnePlace, Told, [Next]_vars PROVE OnePlace'
    OBVIOUS
<1> USE DEF TypeOK, OnePlace, Told, Queued, Waits, callerVars, loopVars
<1>1. ASSUME NEW j \in Jobs, Call(j) PROVE OnePlace'
    BY <1>1 DEF Call, Bump
<1>2. ASSUME NEW j \in Jobs, RLock(j) PROVE OnePlace'
    BY <1>2 DEF RLock
<1>3. ASSUME NEW j \in Jobs, DropClosed(j) PROVE OnePlace'
    BY <1>3 DEF DropClosed, Return, Bump
<1>4. ASSUME NEW j \in Jobs, Send(j) PROVE OnePlace'
    <2>1. /\ ch' \in Seq(Jobs) /\ Members(ch') = Members(ch) \cup {j}
          /\ Distinct(ch) /\ j \notin Members(ch) => Distinct(ch')
        BY <1>4, AppendMembers DEF Send
    <2>2. j \notin Queued
        BY <1>4 DEF Send
    <2>3. QED
        BY <1>4, <2>1, <2>2 DEF Send
<1>5. ASSUME NEW j \in Jobs, Sent(j) PROVE OnePlace'
    <2>1. UNCHANGED <<ch, pending, loop, batchErr, doneCh, stored>> /\ pc[j] = "sent"
        BY <1>5 DEF Sent
    <2>2. CASE Waits(j)
        <3>1. pc' = [pc EXCEPT ![j] = "waiting"] /\ result' = result
            BY <1>5, <2>2 DEF Sent
        <3>2. QED
            BY <2>1, <2>2, <3>1
    <2>3. CASE ~Waits(j)
        <3>1. pc' = [pc EXCEPT ![j] = "returned"] /\ result' = [result EXCEPT ![j] = "queued"]
            BY <1>5, <2>3 DEF Sent, Return
        <3>2. QED
            BY <2>1, <2>3, <3>1
    <2>4. QED
        BY <2>2, <2>3
<1>6. ASSUME NEW j \in Jobs, DropFull(j) PROVE OnePlace'
    BY <1>6 DEF DropFull, Return, Bump
<1>7. ASSUME NEW j \in Jobs, SyncFallback(j) PROVE OnePlace'
    <2>1. UNCHANGED <<ch, pending, loop, batchErr, doneCh, stored>> /\ pc[j] = "open" /\ Waits(j)
        BY <1>7 DEF SyncFallback
    <2>2. CASE dbPresent
        <3>1. pc' = [pc EXCEPT ![j] = "sync"] /\ result' = result
            BY <1>7, <2>2 DEF SyncFallback
        <3>2. QED
            BY <2>1, <3>1
    <2>3. CASE ~dbPresent
        <3>1. pc' = [pc EXCEPT ![j] = "returned"] /\ result' = [result EXCEPT ![j] = "err"]
            BY <1>7, <2>3 DEF SyncFallback, Return
        <3>2. QED
            BY <2>1, <3>1
    <2>4. QED
        BY <2>2, <2>3
<1>8. ASSUME NEW j \in Jobs, runSynchronously(j) PROVE OnePlace'
    BY <1>8 DEF runSynchronously, Return, Bump
<1>9. ASSUME NEW j \in Jobs, ReceiveDone(j) PROVE OnePlace'
    BY <1>9 DEF ReceiveDone, Return
<1>10. ASSUME NEW c \in Closers, CloseCall(c) PROVE OnePlace'
    BY <1>10 DEF CloseCall
<1>11. ASSUME NEW c \in Closers, CloseLock(c) PROVE OnePlace'
    BY <1>11 DEF CloseLock
<1>12. ASSUME NEW c \in Closers, CloseReturn(c) PROVE OnePlace'
    BY <1>12 DEF CloseReturn
<1>13. CASE LoopRecv
    <2>1. /\ Members(ch) = Members(ch') \cup {Head(ch)}
          /\ Members(pending') = Members(pending) \cup {Head(ch)}
          /\ Head(ch) \in Jobs
          /\ Len(pending') = Len(pending) + 1
          /\ Distinct(ch') /\ Head(ch) \notin Members(ch') /\ Distinct(pending')
        BY <1>13, TakeOneEffect DEF LoopRecv
    <2>2. Queued' = Queued
        BY <1>13, <2>1 DEF LoopRecv
    <2>3. QED
        BY <1>13, <2>1, <2>2, BatchLimitAssumption DEF LoopRecv
<1>14. CASE LoopTick
    BY <1>14 DEF LoopTick
<1>15. CASE LoopStop
    BY <1>15 DEF LoopStop
<1>16. CASE Drain
    <2>1. /\ Members(ch) = Members(ch') \cup {Head(ch)}
          /\ Members(pending') = Members(pending) \cup {Head(ch)}
          /\ Head(ch) \in Jobs
          /\ Len(pending') = Len(pending) + 1
          /\ Distinct(ch') /\ Head(ch) \notin Members(ch') /\ Distinct(pending')
        BY <1>16, TakeOneEffect DEF Drain
    <2>2. Queued' = Queued
        BY <1>16, <2>1 DEF Drain
    <2>3. QED
        BY <1>16, <2>1, <2>2, BatchLimitAssumption DEF Drain
<1>17. CASE DrainDone
    BY <1>17, BatchLimitAssumption DEF DrainDone
<1>18. CASE StopDone
    BY <1>18 DEF StopDone
<1>19. CASE FlushTx
    BY <1>19 DEF FlushTx
<1>20. CASE FlushNoDB
    BY <1>20 DEF FlushNoDB
<1>21. CASE FlushNotify
    <2>1. Members(<<>>) = {} /\ Distinct(<<>>) /\ Len(<<>>) < BatchLimit
        BY BatchLimitAssumption DEF Members, Distinct
    <2>2. Queued' = Members(ch)
        BY <1>21, <2>1 DEF FlushNotify
    <2>3. \A j \in Members(ch) : doneCh'[j] = "none"
        BY <1>21, MembersType DEF FlushNotify
    <2>4. QED
        BY <1>21, <2>1, <2>2, <2>3 DEF FlushNotify
<1>22. CASE UNCHANGED vars
    BY <1>22 DEF vars
<1>23. QED
    BY <1>1, <1>2, <1>3, <1>4, <1>5, <1>6, <1>7, <1>8, <1>9, <1>10, <1>11, <1>12,
       <1>13, <1>14, <1>15, <1>16, <1>17, <1>18, <1>19, <1>20, <1>21, <1>22
    DEF Next, Caller, Closer, Loop

\* A closure runs when its job leaves the places where it waits, and only then.
LEMMA NotYetStep == TypeOK /\ OnePlace /\ NotYet /\ [Next]_vars => NotYet'
<1> SUFFICES ASSUME TypeOK, OnePlace, NotYet, [Next]_vars PROVE NotYet'
    OBVIOUS
<1> USE DEF TypeOK, NotYet, AtMostOnce, OnePlace, Queued, Waiting, callerVars, loopVars
<1>1. ASSUME NEW j \in Jobs, Call(j) PROVE NotYet'
    BY <1>1 DEF Call, Bump
<1>2. ASSUME NEW j \in Jobs, RLock(j) PROVE NotYet'
    BY <1>2 DEF RLock
<1>3. ASSUME NEW j \in Jobs, DropClosed(j) PROVE NotYet'
    BY <1>3 DEF DropClosed, Return, Bump
<1>4. ASSUME NEW j \in Jobs, Send(j) PROVE NotYet'
    <2>1. /\ ch' \in Seq(Jobs) /\ Members(ch') = Members(ch) \cup {j}
          /\ Distinct(ch) /\ j \notin Members(ch) => Distinct(ch')
        BY <1>4, AppendMembers DEF Send
    <2>2. j \notin Queued
        BY <1>4 DEF Send
    <2>3. QED
        BY <1>4, <2>1, <2>2 DEF Send
<1>5. ASSUME NEW j \in Jobs, Sent(j) PROVE NotYet'
    BY <1>5 DEF Sent, Return, Bump
<1>6. ASSUME NEW j \in Jobs, DropFull(j) PROVE NotYet'
    BY <1>6 DEF DropFull, Return, Bump
<1>7. ASSUME NEW j \in Jobs, SyncFallback(j) PROVE NotYet'
    BY <1>7 DEF SyncFallback, Return, Bump
<1>8. ASSUME NEW j \in Jobs, runSynchronously(j) PROVE NotYet'
    <2>1. PICK n \in 0..1 :
            /\ stored' \in {stored, stored \cup {j}}
            /\ runs' = [runs EXCEPT ![j] = @ + n]
        BY <1>8 DEF runSynchronously
    <2>2. runs[j] = 0 /\ j \notin Queued /\ pc' = [pc EXCEPT ![j] = "returned"]
        BY <1>8 DEF runSynchronously, Return
    <2>3. UNCHANGED <<ch, pending, loop>>
        BY <1>8 DEF runSynchronously
    <2>4. QED
        BY <2>1, <2>2, <2>3
<1>9. ASSUME NEW j \in Jobs, ReceiveDone(j) PROVE NotYet'
    BY <1>9 DEF ReceiveDone, Return
<1>10. ASSUME NEW c \in Closers, CloseCall(c) PROVE NotYet'
    BY <1>10 DEF CloseCall
<1>11. ASSUME NEW c \in Closers, CloseLock(c) PROVE NotYet'
    BY <1>11 DEF CloseLock
<1>12. ASSUME NEW c \in Closers, CloseReturn(c) PROVE NotYet'
    BY <1>12 DEF CloseReturn
<1>13. CASE LoopRecv
    <2>1. /\ Members(ch) = Members(ch') \cup {Head(ch)}
          /\ Members(pending') = Members(pending) \cup {Head(ch)}
          /\ Head(ch) \in Jobs
          /\ Len(pending') = Len(pending) + 1
          /\ Distinct(ch') /\ Head(ch) \notin Members(ch') /\ Distinct(pending')
        BY <1>13, TakeOneEffect DEF LoopRecv
    <2>2. Waiting' = Waiting
        BY <1>13, <2>1 DEF LoopRecv
    <2>3. QED
        BY <1>13, <2>1, <2>2, BatchLimitAssumption DEF LoopRecv
<1>14. CASE LoopTick
    BY <1>14 DEF LoopTick
<1>15. CASE LoopStop
    BY <1>15 DEF LoopStop
<1>16. CASE Drain
    <2>1. /\ Members(ch) = Members(ch') \cup {Head(ch)}
          /\ Members(pending') = Members(pending) \cup {Head(ch)}
          /\ Head(ch) \in Jobs
          /\ Len(pending') = Len(pending) + 1
          /\ Distinct(ch') /\ Head(ch) \notin Members(ch') /\ Distinct(pending')
        BY <1>16, TakeOneEffect DEF Drain
    <2>2. Waiting' = Waiting
        BY <1>16, <2>1 DEF Drain
    <2>3. QED
        BY <1>16, <2>1, <2>2, BatchLimitAssumption DEF Drain
<1>17. CASE DrainDone
    BY <1>17 DEF DrainDone
<1>18. CASE StopDone
    BY <1>18 DEF StopDone
<1>19. CASE FlushTx
    <2>1. PICK S \in SUBSET Members(pending) : stored' = stored \cup S
        BY <1>19, FlushTxEffect
    <2>2. /\ \A j \in Jobs : runs'[j] \in {runs[j], runs[j] + 1}
          /\ \A j \in Jobs \ Members(pending) : runs'[j] = runs[j]
        BY <1>19, FlushTxEffect
    <2>3. /\ Members(pending) \subseteq Waiting /\ Waiting' = Members(ch)
          /\ UNCHANGED <<pc, ch, pending>>
        BY <1>19 DEF FlushTx
    <2>4. Members(ch) \subseteq Jobs /\ Members(ch) \cap Members(pending) = {}
        BY MembersType
    <2>5. \A j \in Members(pending) : runs[j] = 0 /\ pc[j] \in {"sent", "waiting", "returned"}
        BY <2>3
    <2>6. \A j \in Waiting' : runs'[j] = 0 /\ j \notin stored'
        <3>1. \A j \in Members(ch) : runs[j] = 0 /\ j \notin stored
            OBVIOUS
        <3>2. \A j \in Members(ch) : runs'[j] = 0 /\ j \notin stored'
            BY <2>1, <2>2, <2>4, <3>1
        <3>3. QED
            BY <2>3, <3>2
    <2>7. \A j \in Jobs : pc'[j] \in {"new", "rlock", "open", "sync"} =>
             runs'[j] = 0 /\ j \notin stored'
        BY <2>1, <2>2, <2>3, <2>5
    <2>8. AtMostOnce'
        <3>1. ASSUME NEW j \in Jobs PROVE runs'[j] <= 1
            <4>1. runs[j] \in Nat /\ runs[j] <= 1
                OBVIOUS
            <4>2. CASE j \in Members(pending)
                <5>1. runs[j] = 0
                    BY <2>5, <4>2
                <5>2. runs'[j] = runs[j] \/ runs'[j] = runs[j] + 1
                    BY <2>2
                <5>3. QED
                    BY <5>1, <5>2
            <4>3. CASE j \notin Members(pending)
                BY <2>2, <4>1, <4>3
            <4>4. QED
                BY <4>2, <4>3
        <3>2. QED
            BY <3>1
    <2>9. QED
        BY <2>6, <2>7, <2>8
<1>20. CASE FlushNoDB
    BY <1>20 DEF FlushNoDB
<1>21. CASE FlushNotify
    <2>1. Members(<<>>) = {}
        BY DEF Members
    <2>2. Waiting' = Waiting
        BY <1>21, <2>1 DEF FlushNotify
    <2>3. QED
        BY <1>21, <2>2 DEF FlushNotify
<1>22. CASE UNCHANGED vars
    BY <1>22 DEF vars
<1>23. QED
    BY <1>1, <1>2, <1>3, <1>4, <1>5, <1>6, <1>7, <1>8, <1>9, <1>10, <1>11, <1>12,
       <1>13, <1>14, <1>15, <1>16, <1>17, <1>18, <1>19, <1>20, <1>21, <1>22
    DEF Next, Caller, Closer, Loop

\* Callers are told of success only after a commit, and each waiting one is told.
LEMMA ToldStep == TypeOK /\ OnePlace /\ NotYet /\ Told /\ [Next]_vars => Told'
<1> SUFFICES ASSUME TypeOK, OnePlace, NotYet, Told, [Next]_vars PROVE Told'
    OBVIOUS
<1> USE DEF TypeOK, Told, NotYet, OnePlace, Queued, Waits, Outcomes, PcStates, callerVars, loopVars
<1>1. ASSUME NEW j \in Jobs, Call(j) PROVE Told'
    BY <1>1 DEF Call, Bump
<1>2. ASSUME NEW j \in Jobs, RLock(j) PROVE Told'
    BY <1>2 DEF RLock
<1>3. ASSUME NEW j \in Jobs, DropClosed(j) PROVE Told'
    BY <1>3 DEF DropClosed, Return, Bump
<1>4. ASSUME NEW j \in Jobs, Send(j) PROVE Told'
    <2>1. /\ ch' \in Seq(Jobs) /\ Members(ch') = Members(ch) \cup {j}
          /\ Distinct(ch) /\ j \notin Members(ch) => Distinct(ch')
        BY <1>4, AppendMembers DEF Send
    <2>2. j \notin Queued
        BY <1>4 DEF Send
    <2>3. QED
        BY <1>4, <2>1, <2>2 DEF Send
<1>5. ASSUME NEW j \in Jobs, Sent(j) PROVE Told'
    <2>1. UNCHANGED <<ch, pending, loop, batchErr, doneCh, stored>> /\ pc[j] = "sent"
        BY <1>5 DEF Sent
    <2>2. CASE Waits(j)
        <3>1. pc' = [pc EXCEPT ![j] = "waiting"] /\ result' = result
            BY <1>5, <2>2 DEF Sent
        <3>2. QED
            BY <2>1, <2>2, <3>1
    <2>3. CASE ~Waits(j)
        <3>1. pc' = [pc EXCEPT ![j] = "returned"] /\ result' = [result EXCEPT ![j] = "queued"]
            BY <1>5, <2>3 DEF Sent, Return
        <3>2. QED
            BY <2>1, <2>3, <3>1
    <2>4. QED
        BY <2>2, <2>3
<1>6. ASSUME NEW j \in Jobs, DropFull(j) PROVE Told'
    BY <1>6 DEF DropFull, Return, Bump
<1>7. ASSUME NEW j \in Jobs, SyncFallback(j) PROVE Told'
    <2>1. UNCHANGED <<ch, pending, loop, batchErr, doneCh, stored>> /\ pc[j] = "open" /\ Waits(j)
        BY <1>7 DEF SyncFallback
    <2>2. CASE dbPresent
        <3>1. pc' = [pc EXCEPT ![j] = "sync"] /\ result' = result
            BY <1>7, <2>2 DEF SyncFallback
        <3>2. QED
            BY <2>1, <3>1
    <2>3. CASE ~dbPresent
        <3>1. pc' = [pc EXCEPT ![j] = "returned"] /\ result' = [result EXCEPT ![j] = "err"]
            BY <1>7, <2>3 DEF SyncFallback, Return
        <3>2. QED
            BY <2>1, <3>1
    <2>4. QED
        BY <2>2, <2>3
<1>8. ASSUME NEW j \in Jobs, runSynchronously(j) PROVE Told'
    BY <1>8 DEF runSynchronously, Return, Bump
<1>9. ASSUME NEW j \in Jobs, ReceiveDone(j) PROVE Told'
    <2>1. /\ pc' = [pc EXCEPT ![j] = "returned"]
          /\ result' = [result EXCEPT ![j] = doneCh[j]]
          /\ doneCh' = [doneCh EXCEPT ![j] = "none"]
          /\ pc[j] = "waiting" /\ doneCh[j] # "none" /\ j \notin Queued
        BY <1>9 DEF ReceiveDone, Return
    <2>2. UNCHANGED <<ch, pending, loop, batchErr, stored>>
        BY <1>9 DEF ReceiveDone
    <2>3. QED
        BY <2>1, <2>2
<1>10. ASSUME NEW c \in Closers, CloseCall(c) PROVE Told'
    BY <1>10 DEF CloseCall
<1>11. ASSUME NEW c \in Closers, CloseLock(c) PROVE Told'
    BY <1>11 DEF CloseLock
<1>12. ASSUME NEW c \in Closers, CloseReturn(c) PROVE Told'
    BY <1>12 DEF CloseReturn
<1>13. CASE LoopRecv
    <2>1. /\ Members(ch) = Members(ch') \cup {Head(ch)}
          /\ Members(pending') = Members(pending) \cup {Head(ch)}
          /\ Head(ch) \in Jobs
          /\ Len(pending') = Len(pending) + 1
          /\ Distinct(ch') /\ Head(ch) \notin Members(ch') /\ Distinct(pending')
        BY <1>13, TakeOneEffect DEF LoopRecv
    <2>2. Queued' = Queued
        BY <1>13, <2>1 DEF LoopRecv
    <2>3. QED
        BY <1>13, <2>1, <2>2, BatchLimitAssumption DEF LoopRecv
<1>14. CASE LoopTick
    BY <1>14 DEF LoopTick
<1>15. CASE LoopStop
    BY <1>15 DEF LoopStop
<1>16. CASE Drain
    <2>1. /\ Members(ch) = Members(ch') \cup {Head(ch)}
          /\ Members(pending') = Members(pending) \cup {Head(ch)}
          /\ Head(ch) \in Jobs
          /\ Len(pending') = Len(pending) + 1
          /\ Distinct(ch') /\ Head(ch) \notin Members(ch') /\ Distinct(pending')
        BY <1>16, TakeOneEffect DEF Drain
    <2>2. Queued' = Queued
        BY <1>16, <2>1 DEF Drain
    <2>3. QED
        BY <1>16, <2>1, <2>2, BatchLimitAssumption DEF Drain
<1>17. CASE DrainDone
    BY <1>17 DEF DrainDone
<1>18. CASE StopDone
    BY <1>18 DEF StopDone
<1>19. CASE FlushTx
    <2>1. PICK S \in SUBSET Members(pending) :
            /\ stored' = stored \cup S
            /\ \A j \in Jobs : batchErr'[j] = "nil" => j \in S
        BY <1>19, FlushTxEffect
    <2>2. /\ \A j \in Jobs : batchErr'[j] # "none" <=> j \in Members(pending)
          /\ batchErr' \in [Jobs -> Outcomes]
        BY <1>19, FlushTxEffect
    <2>3. UNCHANGED <<pc, result, doneCh, ch, pending>> /\ loop' = "notify"
        BY <1>19 DEF FlushTx
    <2>4. \A j \in S : result[j] \in {"none", "queued"}
        BY <2>1
    <2>5. QED
        BY <2>1, <2>2, <2>3, <2>4
<1>20. CASE FlushNoDB
    BY <1>20 DEF FlushNoDB
<1>21. CASE FlushNotify
    BY <1>21 DEF FlushNotify
<1>22. CASE UNCHANGED vars
    BY <1>22 DEF vars
<1>23. QED
    BY <1>1, <1>2, <1>3, <1>4, <1>5, <1>6, <1>7, <1>8, <1>9, <1>10, <1>11, <1>12,
       <1>13, <1>14, <1>15, <1>16, <1>17, <1>18, <1>19, <1>20, <1>21, <1>22
    DEF Next, Caller, Closer, Loop

-----------------------------------------------------------------------------
(* The counters keep up                                                      *)

\* One more job makes a set of jobs larger by one.
LEMMA OneMore ==
    ASSUME NEW S \in SUBSET Jobs, NEW j, j \notin S
    PROVE  Cardinality(S \cup {j}) = Cardinality(S) + 1
    BY CountType, FS_AddElement

\* Every counter is a number.
LEMMA StatsType == ASSUME TypeOK, NEW l \in Counters PROVE stats[l] \in Nat
    BY DEF TypeOK

\* Each counter moves with the one step it counts.
LEMMA CountedStep == TypeOK /\ OnePlace /\ Told /\ Counted /\ [Next]_vars => Counted'
<1> SUFFICES ASSUME TypeOK, OnePlace, Told, Counted, [Next]_vars PROVE Counted'
    OBVIOUS
<1> USE DEF Counted
<1>1. ASSUME NEW j \in Jobs, Call(j) PROVE Counted'
    <2>1. /\ stats' \in [Counters -> Nat]
          /\ \A l \in Counters : stats'[l] = IF l = "submitted" THEN stats[l] + 1 ELSE stats[l]
        BY <1>1, BumpEffect DEF Call, Counters
    <2>2. /\ j \notin Submitted /\ Submitted' = Submitted \cup {j}
          /\ Decided' \ Refused' = Decided \ Refused
          /\ Refused' = Refused /\ Finished' = Finished
        BY <1>1 DEF Call, TypeOK, PcStates, loopVars, Submitted, Decided, Refused, Finished, Queued
    <2>3. Cardinality(Submitted') = Cardinality(Submitted) + 1
        BY <2>2, OneMore DEF Submitted
    <2>4. QED
        BY <2>1, <2>2, <2>3 DEF Counters
<1>2. ASSUME NEW j \in Jobs, RLock(j) PROVE Counted'
    <2>1. UNCHANGED stats
        BY <1>2 DEF RLock
    <2>2. /\ Submitted' = Submitted /\ Decided' \ Refused' = Decided \ Refused
          /\ Refused' = Refused /\ Finished' = Finished
        BY <1>2 DEF RLock, TypeOK, PcStates, loopVars, Submitted, Decided, Refused, Finished, Queued
    <2>3. QED
        BY <2>1, <2>2
<1>3. ASSUME NEW j \in Jobs, DropClosed(j) PROVE Counted'
    <2>1. /\ stats' \in [Counters -> Nat]
          /\ \A l \in Counters : stats'[l] = IF l = "droppedClosed" THEN stats[l] + 1 ELSE stats[l]
        BY <1>3, BumpEffect DEF DropClosed, Counters
    <2>2. /\ \A k \in Jobs : pc'[k] = IF k = j THEN "returned" ELSE pc[k]
          /\ \A k \in Jobs : result'[k] = IF k = j THEN "closed" ELSE result[k]
        BY <1>3, ReturnEffect DEF DropClosed, Results
    <2>3. pc[j] \in {"rlock", "open"} /\ result[j] = "none" /\ UNCHANGED <<ch, pending>>
        BY <1>3 DEF DropClosed, loopVars, Told
    <2>4. /\ Submitted' = Submitted /\ Decided' \ Refused' = Decided \ Refused
          /\ Finished' = Finished
          /\ j \notin Refused /\ Refused' = Refused \cup {j}
        BY <2>2, <2>3 DEF Submitted, Decided, Refused, Finished, Queued
    <2>5. Cardinality(Refused') = Cardinality(Refused) + 1
        BY <2>4, OneMore DEF Refused
    <2>6. /\ stats'["droppedClosed"] = stats["droppedClosed"] + 1
          /\ \A l \in Counters \ {"droppedClosed"} : stats'[l] = stats[l]
        BY <2>1 DEF Counters
    <2>7. stats'["droppedFull"] + stats'["droppedClosed"] = Cardinality(Refused')
        BY <2>5, <2>6, StatsType DEF Counters
    <2>8. QED
        BY <2>4, <2>6, <2>7 DEF Counters
<1>4. ASSUME NEW j \in Jobs, Send(j) PROVE Counted'
    <2>1. UNCHANGED <<result, stats, pending>> /\ pc' = [pc EXCEPT ![j] = "sent"] /\ pc[j] = "open"
        BY <1>4 DEF Send
    <2>2. Members(ch') = Members(ch) \cup {j}
        BY <1>4, AppendMembers DEF Send, TypeOK
    <2>3. /\ Submitted' = Submitted /\ Decided' \ Refused' = Decided \ Refused
          /\ Refused' = Refused /\ Finished' = Finished
        BY <2>1, <2>2 DEF TypeOK, PcStates, Submitted, Decided, Refused, Finished, Queued
    <2>4. QED
        BY <2>1, <2>3
<1>5. ASSUME NEW j \in Jobs, Sent(j) PROVE Counted'
    <2>1. /\ stats' \in [Counters -> Nat]
          /\ \A l \in Counters : stats'[l] = IF l = "enqueued" THEN stats[l] + 1 ELSE stats[l]
        BY <1>5, BumpEffect DEF Sent, Counters
    <2>2. PICK p \in {"waiting", "returned"}, r \in {"none", "queued"} :
            pc' = [pc EXCEPT ![j] = p] /\ result' = [result EXCEPT ![j] = r]
        <3>1. CASE Waits(j)
            <4>1. pc' = [pc EXCEPT ![j] = "waiting"] /\ result' = [result EXCEPT ![j] = "none"]
                BY <1>5, <3>1 DEF Sent, Told, TypeOK
            <4>2. QED
                BY <4>1
        <3>2. CASE ~Waits(j)
            <4>1. pc' = [pc EXCEPT ![j] = "returned"] /\ result' = [result EXCEPT ![j] = "queued"]
                BY <1>5, <3>2 DEF Sent, Return
            <4>2. QED
                BY <4>1
        <3>3. QED
            BY <3>1, <3>2
    <2>3. pc[j] = "sent" /\ result[j] = "none" /\ UNCHANGED <<ch, pending>>
        BY <1>5 DEF Sent, Told, loopVars
    <2>4. /\ Submitted' = Submitted /\ Refused' = Refused /\ Finished' = Finished
          /\ j \notin Decided /\ Decided' \ Refused' = (Decided \ Refused) \cup {j}
        BY <2>2, <2>3 DEF TypeOK, Submitted, Decided, Refused, Finished, Queued
    <2>5. Cardinality(Decided' \ Refused') = Cardinality(Decided \ Refused) + 1
        BY <2>4, OneMore DEF Decided
    <2>6. QED
        BY <2>1, <2>4, <2>5, StatsType DEF Counters
<1>6. ASSUME NEW j \in Jobs, DropFull(j) PROVE Counted'
    <2>1. /\ stats' \in [Counters -> Nat]
          /\ \A l \in Counters : stats'[l] = IF l = "droppedFull" THEN stats[l] + 1 ELSE stats[l]
        BY <1>6, BumpEffect DEF DropFull, Counters
    <2>2. /\ \A k \in Jobs : pc'[k] = IF k = j THEN "returned" ELSE pc[k]
          /\ \A k \in Jobs : result'[k] = IF k = j THEN "dropped" ELSE result[k]
        BY <1>6, ReturnEffect DEF DropFull, Results
    <2>3. pc[j] \in {"rlock", "open"} /\ result[j] = "none" /\ UNCHANGED <<ch, pending>>
        BY <1>6 DEF DropFull, loopVars, Told
    <2>4. /\ Submitted' = Submitted /\ Decided' \ Refused' = Decided \ Refused
          /\ Finished' = Finished
          /\ j \notin Refused /\ Refused' = Refused \cup {j}
        BY <2>2, <2>3 DEF Submitted, Decided, Refused, Finished, Queued
    <2>5. Cardinality(Refused') = Cardinality(Refused) + 1
        BY <2>4, OneMore DEF Refused
    <2>6. /\ stats'["droppedFull"] = stats["droppedFull"] + 1
          /\ \A l \in Counters \ {"droppedFull"} : stats'[l] = stats[l]
        BY <2>1 DEF Counters
    <2>7. stats'["droppedFull"] + stats'["droppedClosed"] = Cardinality(Refused')
        BY <2>5, <2>6, StatsType DEF Counters
    <2>8. QED
        BY <2>4, <2>6, <2>7 DEF Counters
<1>7. ASSUME NEW j \in Jobs, SyncFallback(j) PROVE Counted'
    <2>1. pc[j] = "open" /\ result[j] = "none" /\ UNCHANGED <<ch, pending>>
        BY <1>7 DEF SyncFallback, Told, loopVars
    <2>2. CASE dbPresent
        <3>1. /\ stats' \in [Counters -> Nat]
              /\ \A l \in Counters :
                    stats'[l] = IF l = "syncFallback" THEN stats[l] + 1 ELSE stats[l]
            BY <1>7, <2>2, BumpEffect DEF SyncFallback, Counters
        <3>2. pc' = [pc EXCEPT ![j] = "sync"] /\ result' = result
            BY <1>7, <2>2 DEF SyncFallback
        <3>3. /\ Submitted' = Submitted /\ Refused' = Refused /\ Finished' = Finished
              /\ j \notin Decided /\ Decided' \ Refused' = (Decided \ Refused) \cup {j}
            BY <2>1, <3>2 DEF TypeOK, Submitted, Decided, Refused, Finished, Queued
        <3>4. Cardinality(Decided' \ Refused') = Cardinality(Decided \ Refused) + 1
            BY <3>3, OneMore DEF Decided
        <3>5. QED
            BY <3>1, <3>3, <3>4, StatsType DEF Counters
    <2>3. CASE ~dbPresent
        <3>1. /\ stats' = [stats EXCEPT !["syncFallback"] = @ + 1, !["failed"] = @ + 1]
              /\ pc' = [pc EXCEPT ![j] = "returned"] /\ result' = [result EXCEPT ![j] = "err"]
            BY <1>7, <2>3 DEF SyncFallback, Return
        <3>2. \A l \in Counters : stats'[l] = IF l \in {"syncFallback", "failed"}
                                               THEN stats[l] + 1 ELSE stats[l]
            BY <3>1 DEF TypeOK
        <3>3. j \notin Queued
            BY <2>1 DEF OnePlace
        <3>4. /\ Submitted' = Submitted /\ Refused' = Refused
              /\ j \notin Finished /\ Finished' = Finished \cup {j}
              /\ j \notin Decided /\ Decided' \ Refused' = (Decided \ Refused) \cup {j}
            BY <2>1, <3>1, <3>3 DEF TypeOK, Submitted, Decided, Refused, Finished, Queued
        <3>5. /\ Cardinality(Decided' \ Refused') = Cardinality(Decided \ Refused) + 1
              /\ Cardinality(Finished') = Cardinality(Finished) + 1
            BY <3>4, OneMore, SMTT(40) DEF Decided, Finished
        <3>6. QED
            BY <3>2, <3>4, <3>5, StatsType DEF Counters
    <2>4. QED
        BY <2>2, <2>3
<1>8. ASSUME NEW j \in Jobs, runSynchronously(j) PROVE Counted'
    <2>1. PICK r \in {"nil", "err"}, k \in {"succeeded", "failed"} : Return(j, r) /\ Bump(k, 1)
        BY <1>8 DEF runSynchronously
    <2>2. /\ stats' \in [Counters -> Nat]
          /\ \A l \in Counters : stats'[l] = IF l = k THEN stats[l] + 1 ELSE stats[l]
        BY <2>1, BumpEffect DEF Counters
    <2>3. /\ \A i \in Jobs : pc'[i] = IF i = j THEN "returned" ELSE pc[i]
          /\ \A i \in Jobs : result'[i] = IF i = j THEN r ELSE result[i]
        BY <2>1, ReturnEffect DEF Results, Outcomes
    <2>4. pc[j] = "sync" /\ result[j] = "none" /\ UNCHANGED <<ch, pending>> /\ j \notin Queued
        BY <1>8 DEF runSynchronously, Told, OnePlace, loopVars
    <2>5. /\ Submitted' = Submitted /\ Refused' = Refused
          /\ Decided' \ Refused' = Decided \ Refused
          /\ j \notin Finished /\ Finished' = Finished \cup {j}
        BY <2>3, <2>4 DEF Submitted, Decided, Refused, Finished, Queued
    <2>6. Cardinality(Finished') = Cardinality(Finished) + 1
        BY <2>5, OneMore DEF Finished
    <2>7. stats'["succeeded"] + stats'["failed"] = stats["succeeded"] + stats["failed"] + 1
        <3>1. CASE k = "succeeded"
            BY <2>2, <3>1, StatsType DEF Counters
        <3>2. CASE k = "failed"
            BY <2>2, <3>2, StatsType DEF Counters
        <3>3. QED
            BY <3>1, <3>2
    <2>8. \A l \in Counters \ {"succeeded", "failed"} : stats'[l] = stats[l]
        BY <2>2
    <2>9. QED
        BY <2>5, <2>6, <2>7, <2>8, StatsType DEF Counters
<1>9. ASSUME NEW j \in Jobs, ReceiveDone(j) PROVE Counted'
    <2>1. UNCHANGED stats
        BY <1>9 DEF ReceiveDone
    <2>2. /\ pc' = [pc EXCEPT ![j] = "returned"] /\ result' = [result EXCEPT ![j] = doneCh[j]]
          /\ pc[j] = "waiting" /\ doneCh[j] \in Outcomes /\ result[j] = "none"
          /\ UNCHANGED <<ch, pending>>
        BY <1>9 DEF ReceiveDone, Return, TypeOK, Told, loopVars
    <2>3. /\ Submitted' = Submitted /\ Decided' \ Refused' = Decided \ Refused
          /\ Refused' = Refused /\ Finished' = Finished
        BY <2>2 DEF TypeOK, Outcomes, PcStates, Submitted, Decided, Refused, Finished, Queued
    <2>4. QED
        BY <2>1, <2>3
<1>10. ASSUME NEW c \in Closers, CloseCall(c) PROVE Counted'
    BY <1>10 DEF CloseCall, Submitted, Decided, Refused, Finished, Queued, callerVars, loopVars
<1>11. ASSUME NEW c \in Closers, CloseLock(c) PROVE Counted'
    BY <1>11 DEF CloseLock, Submitted, Decided, Refused, Finished, Queued, callerVars, loopVars
<1>12. ASSUME NEW c \in Closers, CloseReturn(c) PROVE Counted'
    BY <1>12 DEF CloseReturn, Submitted, Decided, Refused, Finished, Queued, callerVars, loopVars
<1>13. CASE LoopRecv
    <2>1. UNCHANGED <<pc, result, stats>>
        BY <1>13 DEF LoopRecv, callerVars
    <2>2. Queued' = Queued
        BY <1>13, TakeOneEffect DEF LoopRecv, Queued
    <2>3. QED
        BY <2>1, <2>2 DEF Submitted, Decided, Refused, Finished
<1>14. CASE LoopTick
    BY <1>14 DEF LoopTick, Submitted, Decided, Refused, Finished, Queued, callerVars, loopVars
<1>15. CASE LoopStop
    BY <1>15 DEF LoopStop, Submitted, Decided, Refused, Finished, Queued, callerVars, loopVars
<1>16. CASE Drain
    <2>1. UNCHANGED <<pc, result, stats>>
        BY <1>16 DEF Drain, callerVars
    <2>2. Queued' = Queued
        BY <1>16, TakeOneEffect DEF Drain, Queued
    <2>3. QED
        BY <2>1, <2>2 DEF Submitted, Decided, Refused, Finished
<1>17. CASE DrainDone
    BY <1>17 DEF DrainDone, Submitted, Decided, Refused, Finished, Queued, callerVars, loopVars
<1>18. CASE StopDone
    BY <1>18 DEF StopDone, Submitted, Decided, Refused, Finished, Queued, callerVars, loopVars
<1>19. CASE FlushTx
    BY <1>19 DEF FlushTx, Submitted, Decided, Refused, Finished, Queued, callerVars, loopVars
<1>20. CASE FlushNoDB
    BY <1>20 DEF FlushNoDB, Submitted, Decided, Refused, Finished, Queued, callerVars, loopVars
<1>21. CASE FlushNotify
    <2>1. UNCHANGED <<pc, result, ch>> /\ pending' = <<>> /\ loop = "notify"
        BY <1>21 DEF FlushNotify
    <2>2. Members(<<>>) = {} /\ Members(pending) \subseteq Jobs
        BY MembersType DEF Members, TypeOK
    <2>3. \A j \in Members(pending) : /\ pc[j] \in {"sent", "waiting", "returned"}
                                      /\ result[j] \in {"none", "queued"}
                                      /\ j \notin Members(ch)
        BY DEF OnePlace, Queued
    <2>4. /\ Submitted' = Submitted /\ Refused' = Refused /\ Decided' = Decided
          /\ Finished' = Finished \cup Members(pending) /\ Finished \cap Members(pending) = {}
        BY <2>1, <2>2, <2>3 DEF Submitted, Decided, Refused, Finished, Queued
    <2>5. Cardinality(Finished') = Cardinality(Finished) + Cardinality(Members(pending))
        <3>1. /\ IsFiniteSet(Finished) /\ Cardinality(Finished) \in Nat
              /\ IsFiniteSet(Members(pending)) /\ Cardinality(Members(pending)) \in Nat
            BY <2>2, CountType DEF Finished
        <3>2. QED
            <4>1. Cardinality(Finished \cup Members(pending)) =
                     Cardinality(Finished) + Cardinality(Members(pending)) - Cardinality({})
                BY <2>4, <3>1, FS_Union
            <4>2. Cardinality({}) = 0
                BY FS_EmptySet
            <4>3. Cardinality(Finished') = Cardinality(Finished \cup Members(pending))
                BY <2>4
            <4>4. QED
                BY <3>1, <4>1, <4>2, <4>3
    <2>6. {j \in Jobs : batchErr[j] # "none"} = Members(pending)
        BY <2>1, <2>2 DEF Told
    <2>7. QED
        BY <1>21, <2>4, <2>5, <2>6, NotifyEffect DEF Counters
<1>22. CASE UNCHANGED vars
    BY <1>22 DEF vars, callerVars, loopVars, Submitted, Decided, Refused, Finished, Queued
<1>23. QED
    BY <1>1, <1>2, <1>3, <1>4, <1>5, <1>6, <1>7, <1>8, <1>9, <1>10, <1>11, <1>12,
       <1>13, <1>14, <1>15, <1>16, <1>17, <1>18, <1>19, <1>20, <1>21, <1>22
    DEF Next, Caller, Closer, Loop

-----------------------------------------------------------------------------
(* The invariant and what follows from it                                    *)

\* The queue starts empty, open and with nothing counted.
LEMMA InitIInv == Init => IInv
<1> SUFFICES ASSUME Init PROVE IInv
    OBVIOUS
<1> USE DEF Init
<1>1. Members(<<>>) = {}
    BY DEF Members
<1>2. Waiting = {} /\ Queued = {} /\ Readers = {}
    BY <1>1 DEF Waiting, Queued, Readers
<1>3. TypeOK
    <2>1. /\ ch \in Seq(Jobs) /\ Len(ch) <= Capacity
          /\ pending \in Seq(Jobs) /\ Len(pending) <= BatchLimit
        BY CapacityAssumption, BatchLimitAssumption
    <2>2. QED
        BY <2>1 DEF TypeOK, PcStates, Outcomes
<1>4. OnePlace
    BY <1>1, <1>2, BatchLimitAssumption DEF OnePlace, Distinct
<1>5. NotYet
    BY <1>2 DEF NotYet, AtMostOnce
<1>6. Told
    BY <1>1 DEF Told
<1>7. Gate
    BY <1>2 DEF Gate
<1>8. Counted
    <2>1. Submitted = {} /\ Decided = {} /\ Refused = {} /\ Finished = {} /\ Decided \ Refused = {}
        BY DEF Submitted, Decided, Refused, Finished
    <2>2. /\ Cardinality(Submitted) = 0 /\ Cardinality(Decided \ Refused) = 0
          /\ Cardinality(Refused) = 0 /\ Cardinality(Finished) = 0
        BY <2>1, FS_EmptySet
    <2>3. \A l \in Counters : stats[l] = 0
        OBVIOUS
    <2> HIDE DEF Init
    <2>4. QED
        BY <2>2, <2>3 DEF Counted, Counters
<1>9. QED
    BY <1>3, <1>4, <1>5, <1>6, <1>7, <1>8 DEF IInv

\* Whatever callers, closers and loop do, in any order, the invariant holds.
THEOREM Inductive == Spec => []IInv
<1>1. IInv /\ [Next]_vars => IInv'
    BY TypeStep, OnePlaceStep, NotYetStep, ToldStep, GateStep, CountedStep DEF IInv
<1>2. QED
    BY InitIInv, <1>1, PTL DEF Spec

\* Every variable keeps its type; in particular neither the channel nor the batch
\* grows past its limit.
THEOREM TypeCorrect == Spec => []TypeOK
<1>1. IInv => TypeOK
    BY DEF IInv
<1>2. QED
    BY Inductive, <1>1, PTL

\* A call of Close that has returned has left no job behind: none is queued, no
\* caller is still inside the gate, and every blocked caller has its answer.
THEOREM CloseFlushes == Spec => []CloseFlushesAll
<1>1. IInv => CloseFlushesAll
    <2> SUFFICES ASSUME TypeOK, Told, Gate, NEW c \in Closers, closer[c] = "returned"
                 PROVE  /\ ch = <<>> /\ pending = <<>> /\ Readers = {}
                        /\ \A j \in Jobs : pc[j] = "waiting" => doneCh[j] # "none"
        BY DEF IInv, CloseFlushesAll
    <2>1. ch = <<>> /\ pending = <<>> /\ Readers = {}
        BY DEF Gate
    <2>2. Queued = {}
        BY <2>1 DEF Queued, Members
    <2>3. QED
        BY <2>1, <2>2 DEF Told
<1>2. QED
    BY Inductive, <1>1, PTL

\* No closure runs twice: the batch, the shutdown drain and the fallback of a
\* blocked caller take each job once.
THEOREM RunsOnce == Spec => []AtMostOnce
<1>1. IInv => AtMostOnce
    BY DEF IInv, NotYet
<1>2. QED
    BY Inductive, <1>1, PTL

\* With no call and no job under way the counters account for each submission and
\* for each accepted job, however the calls were interleaved.
THEOREM LossesCounted == Spec => []LossAccounted
<1>1. IInv => LossAccounted
    <2> SUFFICES ASSUME TypeOK, Told, Counted, ch = <<>>, pending = <<>>,
                        \A j \in Jobs : pc[j] \in {"new", "returned"}
                 PROVE  /\ stats["submitted"] = stats["enqueued"] + stats["droppedFull"]
                                           + stats["droppedClosed"] + stats["syncFallback"]
                        /\ stats["enqueued"] + stats["syncFallback"]
                              = stats["succeeded"] + stats["failed"]
        BY DEF IInv, LossAccounted
    <2>1. Queued = {}
        BY DEF Queued, Members
    <2>2. Decided = Submitted /\ Finished = Submitted \ Refused /\ Refused \subseteq Submitted
        BY <2>1 DEF Submitted, Decided, Finished, Refused, Told
    <2>3. Cardinality(Submitted) = Cardinality(Submitted \ Refused) + Cardinality(Refused)
        <3>1. IsFiniteSet(Submitted) /\ Refused \in SUBSET Submitted
            BY <2>2, CountType DEF Submitted
        <3>2. /\ Cardinality(Submitted \ Refused)
                    = Cardinality(Submitted) - Cardinality(Submitted \cap Refused)
              /\ Submitted \cap Refused = Refused
            <4>1. Submitted \cap Refused = Refused
                BY <3>1
            <4>2. QED
                BY <3>1, <4>1, FS_Difference
        <3>3. Cardinality(Submitted \cap Refused) = Cardinality(Refused)
            BY <3>2
        <3>4. /\ Cardinality(Submitted) \in Nat /\ Cardinality(Refused) \in Nat
              /\ Cardinality(Submitted \ Refused) \in Nat
            BY CountType DEF Submitted, Refused
        <3>5. QED
            BY <3>2, <3>3, <3>4
    <2>4. \A l \in Counters : stats[l] \in Nat
        BY StatsType
    <2>5. /\ stats["submitted"] = Cardinality(Submitted)
          /\ stats["enqueued"] + stats["syncFallback"] = Cardinality(Submitted \ Refused)
          /\ stats["droppedFull"] + stats["droppedClosed"] = Cardinality(Refused)
          /\ stats["succeeded"] + stats["failed"] = Cardinality(Submitted \ Refused)
        BY <2>2 DEF Counted
    <2>6. QED
        BY <2>3, <2>4, <2>5 DEF Counters
<1>2. QED
    BY Inductive, <1>1, PTL

-----------------------------------------------------------------------------
(* The queue implements its contract                                         *)

Over == \E c \in Closers : closer[c] = "returned"

\* After Close has returned nobody can write any more.
LEMMA OverStops == ASSUME Gate, Over PROVE closed /\ Readers = {} /\ loop = "exited"
    BY DEF Gate, Over

\* Only the return of Close changes whether it has returned.
LEMMA OverKept ==
    ASSUME TypeOK, NEW c \in Closers, NEW w \in {"locking", "waiting"},
           closer[c] # "returned", closer' = [closer EXCEPT ![c] = w]
    PROVE  Over' = Over
    BY DEF Over, TypeOK

\* A step of one call as the contract sees it: the call gets its answer, and the
\* database stays as it is or takes the write of that call.
LEMMA AnswerRefines ==
    ASSUME NEW j \in Jobs, NEW r \in {"nil", "err", "closed", "dropped", "queued"},
           Contract!Apply({j}) \/ UNCHANGED stored, Contract!Answer(j, r), Over' = Over
    PROVE  Contract!Next
    BY DEF Contract!Next, Over

\* The queue starts as the contract does: nothing stored, nobody answered.
LEMMA InitRefines == Init => Contract!Init
<1> SUFFICES ASSUME Init PROVE Contract!Init
    OBVIOUS
<1>1. (\E c \in Closers : closer[c] = "returned") = FALSE
    BY DEF Init
<1>2. QED
    BY <1>1 DEF Init, Contract!Init

\* Every step of the queue answers a call, commits a batch, ends Close, or is
\* invisible to the contract.
LEMMA StepRefines == IInv /\ [Next]_vars => [Contract!Next]_(Contract!vars)
<1> SUFFICES ASSUME IInv, [Next]_vars
             PROVE  Contract!Next \/ (UNCHANGED <<result, stored>> /\ Over' = Over)
    BY DEF Contract!vars, Over
<1> USE DEF IInv
<1>1. ASSUME NEW j \in Jobs, Call(j) \/ RLock(j) \/ Send(j)
      PROVE  UNCHANGED <<result, stored>> /\ Over' = Over
    BY <1>1 DEF Call, RLock, Send, Over
<1>2. ASSUME NEW j \in Jobs, DropClosed(j) PROVE Contract!Next
    <2>1. /\ result' = [result EXCEPT ![j] = "closed"] /\ result[j] = "none"
          /\ UNCHANGED stored /\ j \notin stored /\ Over' = Over
        BY <1>2 DEF DropClosed, Return, NotYet, Told, Over
    <2>2. Contract!Answer(j, "closed")
        BY <2>1 DEF Contract!Answer, Contract!Refusals
    <2>3. QED
        BY <2>1, <2>2, AnswerRefines
<1>3. ASSUME NEW j \in Jobs, Sent(j)
      PROVE  Contract!Next \/ (UNCHANGED <<result, stored>> /\ Over' = Over)
    <2>1. UNCHANGED stored /\ Over' = Over
        BY <1>3 DEF Sent, Over
    <2>2. CASE Waits(j)
        BY <1>3, <2>1, <2>2 DEF Sent
    <2>3. CASE ~Waits(j)
        <3>1. result' = [result EXCEPT ![j] = "queued"] /\ result[j] = "none"
            BY <1>3, <2>3 DEF Sent, Return, Told
        <3>2. Contract!Answer(j, "queued")
            BY <2>1, <2>3, <3>1 DEF Contract!Answer, Contract!Refusals, Waits
        <3>3. QED
            BY <2>1, <3>2, AnswerRefines
    <2>4. QED
        BY <2>2, <2>3
<1>4. ASSUME NEW j \in Jobs, DropFull(j) PROVE Contract!Next
    <2>1. /\ result' = [result EXCEPT ![j] = "dropped"] /\ result[j] = "none"
          /\ UNCHANGED stored /\ j \notin stored /\ Over' = Over /\ j \in AsyncJobs
        BY <1>4 DEF DropFull, Return, NotYet, Told, Over, Waits
    <2>2. Contract!Answer(j, "dropped")
        BY <2>1 DEF Contract!Answer, Contract!Refusals
    <2>3. QED
        BY <2>1, <2>2, AnswerRefines
<1>5. ASSUME NEW j \in Jobs, SyncFallback(j)
      PROVE  Contract!Next \/ (UNCHANGED <<result, stored>> /\ Over' = Over)
    <2>1. UNCHANGED stored /\ Over' = Over /\ j \notin AsyncJobs
        BY <1>5 DEF SyncFallback, Over, Waits
    <2>2. CASE dbPresent
        BY <1>5, <2>1, <2>2 DEF SyncFallback
    <2>3. CASE ~dbPresent
        <3>1. result' = [result EXCEPT ![j] = "err"] /\ result[j] = "none"
            BY <1>5, <2>3 DEF SyncFallback, Return, Told
        <3>2. Contract!Answer(j, "err")
            BY <2>1, <3>1 DEF Contract!Answer, Contract!Refusals
        <3>3. QED
            BY <2>1, <3>2, AnswerRefines
    <2>4. QED
        BY <2>2, <2>3
<1>6. ASSUME NEW j \in Jobs, runSynchronously(j) PROVE Contract!Next
    <2>1. PICK tx \in TxOutcomes :
            /\ result' = [result EXCEPT ![j] = IF tx = "commit" THEN "nil" ELSE "err"]
            /\ stored' = IF tx = "abort" THEN stored ELSE stored \cup {j}
        BY <1>6 DEF runSynchronously, Return
    <2>2. /\ pc[j] = "sync" /\ result[j] = "none" /\ j \notin AsyncJobs /\ j \notin stored
          /\ Over' = Over /\ j \in Readers
        BY <1>6 DEF runSynchronously, NotYet, Told, Over, Waits, Readers
    <2>3. ~Over
        BY <2>2, OverStops
    <2>4. Contract!Apply({j}) \/ UNCHANGED stored
        BY <2>1, <2>2, <2>3 DEF Contract!Apply, Over
    <2>5. \E r \in {"nil", "err"} : Contract!Answer(j, r)
        <3>1. CASE tx = "commit"
            <4>1. Contract!Answer(j, "nil")
                BY <2>1, <2>2, <3>1 DEF Contract!Answer, Contract!Refusals
            <4>2. QED
                BY <4>1
        <3>2. CASE tx # "commit"
            <4>1. Contract!Answer(j, "err")
                BY <2>1, <2>2, <3>2 DEF Contract!Answer, Contract!Refusals
            <4>2. QED
                BY <4>1
        <3>3. QED
            BY <3>1, <3>2
    <2>6. QED
        BY <2>2, <2>4, <2>5, AnswerRefines
<1>7. ASSUME NEW j \in Jobs, ReceiveDone(j) PROVE Contract!Next
    <2>1. /\ result' = [result EXCEPT ![j] = doneCh[j]] /\ result[j] = "none"
          /\ doneCh[j] \in {"nil", "err"} /\ j \notin AsyncJobs
          /\ UNCHANGED stored /\ Over' = Over /\ (doneCh[j] = "nil" => j \in stored)
        BY <1>7 DEF ReceiveDone, Return, Told, Over, Waits, TypeOK, Outcomes
    <2>2. Contract!Answer(j, doneCh[j])
        BY <2>1 DEF Contract!Answer, Contract!Refusals
    <2>3. QED
        BY <2>1, <2>2, AnswerRefines
<1>8. ASSUME NEW c \in Closers, CloseCall(c) \/ CloseLock(c)
      PROVE  UNCHANGED <<result, stored>> /\ Over' = Over
    <2>1. \E w \in {"locking", "waiting"} :
              closer[c] # "returned" /\ closer' = [closer EXCEPT ![c] = w]
        BY <1>8 DEF CloseCall, CloseLock
    <2>2. Over' = Over
        BY <2>1, OverKept
    <2>3. QED
        BY <1>8, <2>2 DEF CloseCall, CloseLock, callerVars
<1>9. ASSUME NEW c \in Closers, CloseReturn(c) PROVE Contract!Next
    <2>1. UNCHANGED <<result, stored>> /\ closer'[c] = "returned"
        BY <1>9 DEF CloseReturn, callerVars, TypeOK
    <2>2. (\E d \in Closers : closer'[d] = "returned") = TRUE
        BY <2>1
    <2>3. QED
        BY <2>1, <2>2 DEF Contract!Next
<1>10. CASE FlushTx
    <2>1. PICK S \in SUBSET Members(pending) : stored' = stored \cup S
        BY <1>10, FlushTxEffect DEF OnePlace
    <2>2. UNCHANGED <<result, closer>> /\ loop = "flush"
        BY <1>10 DEF FlushTx, callerVars
    <2>3. ~Over
        BY <2>2, OverStops
    <2>4. /\ S \subseteq Jobs /\ S \cap stored = {}
          /\ \A j \in S : result[j] \in {"none", "queued"}
        BY <2>2, MembersType DEF TypeOK, NotYet, Waiting, OnePlace, Queued
    <2>5. Contract!Apply(S)
        BY <2>1, <2>3, <2>4 DEF Contract!Apply, Over
    <2>6. QED
        BY <2>2, <2>4, <2>5 DEF Contract!Next
<1>11. CASE LoopRecv \/ LoopTick \/ LoopStop \/ Drain \/ DrainDone \/ StopDone
            \/ FlushNoDB \/ FlushNotify \/ UNCHANGED vars
    <2>1. UNCHANGED <<result, stored, closer>>
        BY <1>11 DEF LoopRecv, LoopTick, LoopStop, Drain, DrainDone, StopDone, FlushNoDB,
                     FlushNotify, vars, callerVars
    <2>2. QED
        BY <2>1 DEF Over
<1>12. QED
    BY <1>1, <1>2, <1>3, <1>4, <1>5, <1>6, <1>7, <1>8, <1>9, <1>10, <1>11
    DEF Next, Caller, Closer, Loop

\* The queue keeps the contract of its callers: what they are told about a write
\* agrees with the database, whichever way the write went there.
THEOREM Refinement == Spec => Implements
<1>1. QED
    BY Inductive, InitRefines, StepRefines, PTL DEF Spec, Implements, Contract!Spec
=============================================================================
