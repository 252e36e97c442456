---------------------------- MODULE EdgeCacheProofs ----------------------------
(***************************************************************************)
(* Proofs about EdgeCache for any requests, keys, paths, limits and number *)
(* of reloads: what the cache serves is never older than what its clients  *)
(* know, what a purge or a Clear removed does not come back, and the cache *)
(* counts its entries and their bytes exactly and keeps to its limits.     *)
(* The last part shows that it implements ResponseContract.                *)
(***************************************************************************)
EXTENDS EdgeCache, FiniteSetTheorems, TLAPS

EntryType == [by : Gets, age : Ages, size : Sizes]

\* What the first proofs need of the types.  That curSize and entryCount are natural
\* numbers follows from what they count; the other variables play no part here.
Types ==
    /\ items \in [Keys -> EntryType \cup {None}]
    /\ index \subseteq Keys
    /\ generation \in Nat
    /\ phase \in [Requests -> GetPhases \cup WritePhases]
    /\ key \in [Gets -> Keys \cup {None}] /\ path \in [Writes -> Paths \cup {None}]
    /\ fillGen \in [Gets -> Nat]
    /\ reply \in [Requests -> Replies]
    /\ origin \in [Paths -> Nat] /\ acked \in [Paths -> Nat]
    /\ floor \in [Gets -> Nat] /\ late \subseteq Writes
    /\ preClear \subseteq Gets

\* A request knows its resource before it does anything else, and its answer is not
\* there before it began.
Begun ==
    /\ \A r \in Gets : phase[r] # "idle" =>
          key[r] \in Keys /\ floor[r] <= acked[PathOf[key[r]]]
    /\ \A w \in Writes : phase[w] # "idle" \/ w \in late => path[w] \in Paths
    /\ \A r \in Requests : phase[r] = "idle" => reply[r] = NoReply /\ r \notin late

\* Clients know only of versions that exist.
Known ==
    /\ \A p \in Paths : acked[p] <= origin[p]
    /\ \A w \in Writes : reply[w].src = "fetched" => reply[w].ver <= origin[path[w]]

\* The index and the counter of the entries describe them.
Indexed ==
    /\ index = Present
    /\ entryCount = Cardinality(Present) /\ entryCount <= MaxEntries

\* The request that stored an entry has its answer and keeps it.
Owned == \A k \in Present : phase[items[k].by] \in {"respond", "done"}

\* A response whose fetch began in the present generation has missed no write that
\* a client knows of.
UpToDate ==
    \A r \in Gets :
        /\ fillGen[r] <= generation
        /\ phase[r] = "fetched" /\ fillGen[r] = generation =>
              reply[r].ver >= acked[PathOf[key[r]]]

\* A fetch that began before the last Clear has an older generation.
Fenced ==
    \A r \in preClear :
        /\ phase[r] \in {"fetch", "failed", "fetched", "respond", "done"}
        /\ phase[r] \in {"fetch", "failed", "fetched"} => fillGen[r] < generation

IInv ==
    /\ Types /\ Begun /\ Known /\ Indexed /\ Owned /\ UpToDate /\ CacheCoherent
    /\ ReadYourWrites /\ Fenced /\ ClearedStaysCleared

-----------------------------------------------------------------------------
(* The kinds of steps                                                        *)

\* What the invariant says nothing about is left out: fills, seen, backup, cfg,
\* staleGen, published and clearing may change in any of them.
LocalMoves ==
    { <<"picked", "stale">>, <<"stale", "fill">>, <<"stale", "get">>, <<"get", "fill">>,
      <<"get", "expired">>, <<"fill", "gen">>, <<"fill", "waiting">>, <<"recheck", "gen">>,
      <<"fetch", "failed">>, <<"fetched", "respond">>, <<"respond", "done">> }

frame == <<generation, key, path, resource, preClear>>

LocalStep(r) ==
    /\ \E m \in LocalMoves : phase[r] = m[1] /\ Goto(r, m[2])
    /\ UNCHANGED <<frame, store, fillGen, reply, floor>>

GenerationStep(r) ==
    /\ \/ phase[r] = "waiting" /\ Goto(r, "recheck")
       \/ phase[r] = "gen" /\ Goto(r, "fetch")
    /\ fillGen' = [fillGen EXCEPT ![r] = generation]
    /\ UNCHANGED <<frame, store, reply, floor>>

ServeStep(r) ==
    /\ phase[r] \in {"get", "recheck", "failed"}
    /\ items[key[r]] # None
    /\ Serve(r, "hit") \/ Serve(r, "stale")
    /\ UNCHANGED <<frame, store, fillGen>>

ErrorStep(r) ==
    /\ phase[r] \in {"waiting", "failed"}
    /\ Reply(r, "error", 0) /\ Goto(r, "respond")
    /\ UNCHANGED <<frame, store, fillGen, floor>>

StoreStep(r) ==
    /\ phase[r] = "fetched" /\ generation = fillGen[r]
    /\ \E s \in Sizes : Insert(r, s)
    /\ Goto(r, "respond")
    /\ UNCHANGED <<frame, fillGen, reply, floor>>

DeleteStep ==
    /\ \E K \in SUBSET Present : Delete(K)
    /\ UNCHANGED phase \/ \E r \in Gets : phase[r] = "expired" /\ Goto(r, "fill")
    /\ UNCHANGED <<frame, fillGen, reply, floor>>

QuietStep == UNCHANGED <<frame, store, phase, fillGen, reply, floor>>

\* Every step of a GET is of one of these kinds.
LEMMA GetKinds ==
    ASSUME NEW r \in Gets, GetStep(r) \/ FillCancelled(r)
    PROVE  \/ LocalStep(r) \/ GenerationStep(r) \/ ServeStep(r) \/ ErrorStep(r)
           \/ StoreStep(r) \/ DeleteStep \/ FetchOK(r)
<1> USE DEF frame, local, resource, reload
<1>1. CASE ReadStaleGeneration(r)
    BY <1>1 DEF ReadStaleGeneration, LocalStep, LocalMoves
<1>2. CASE LookupStale(r)
    BY <1>2 DEF LookupStale, LocalStep, LocalMoves
<1>3. CASE GetMiss(r)
    BY <1>3 DEF GetMiss, LocalStep, LocalMoves
<1>4. CASE GetHit(r)
    BY <1>4 DEF GetHit, ServeStep, Holds
<1>5. CASE GetExpired(r)
    BY <1>5 DEF GetExpired, LocalStep, LocalMoves
<1>6. CASE GetDelete(r)
    BY <1>6 DEF GetDelete, DeleteStep
<1>7. CASE BeginFill(r)
    BY <1>7 DEF BeginFill, LocalStep, LocalMoves
<1>8. CASE FillDone(r)
    BY <1>8 DEF FillDone, GenerationStep
<1>9. CASE FillCancelled(r)
    BY <1>9 DEF FillCancelled, ErrorStep
<1>10. CASE Recheck(r)
    <2>1. CASE generation = fillGen[r] /\ Holds(key[r], "fresh")
        BY <1>10, <2>1 DEF Recheck, ServeStep, Holds
    <2>2. CASE ~(generation = fillGen[r] /\ Holds(key[r], "fresh"))
        BY <1>10, <2>2 DEF Recheck, LocalStep, LocalMoves
    <2>3. QED
        BY <2>1, <2>2
<1>11. CASE ReadFillGeneration(r)
    BY <1>11 DEF ReadFillGeneration, GenerationStep
<1>12. CASE FetchOK(r)
    BY <1>12
<1>13. CASE FetchError(r)
    BY <1>13 DEF FetchError, LocalStep, LocalMoves
<1>14. CASE Fallback(r)
    <2>1. CASE LookupStaleIfGeneration(r)
        BY <1>14, <2>1 DEF Fallback, ServeStep, LookupStaleIfGeneration, Holds
    <2>2. CASE ~LookupStaleIfGeneration(r)
        BY <1>14, <2>2 DEF Fallback, ErrorStep
    <2>3. QED
        BY <2>1, <2>2
<1>15. CASE ForwardUncached(r)
    BY <1>15 DEF ForwardUncached, LocalStep, LocalMoves
<1>16. CASE Store(r)
    <2>1. CASE generation = fillGen[r]
        BY <1>16, <2>1 DEF Store, StoreStep
    <2>2. CASE generation # fillGen[r]
        BY <1>16, <2>2 DEF Store, LocalStep, LocalMoves
    <2>3. QED
        BY <2>1, <2>2
<1>17. CASE Respond(r)
    BY <1>17 DEF Respond, LocalStep, LocalMoves
<1>18. QED
    BY <1>1, <1>2, <1>3, <1>4, <1>5, <1>6, <1>7, <1>8, <1>9, <1>10, <1>11, <1>12, <1>13,
       <1>14, <1>15, <1>16, <1>17 DEF GetStep

\* So is every step of the system that is not of a client, an origin or the clock.
LEMMA Kinds ==
    ASSUME [Next]_vars
    PROVE  \/ \E r \in Requests : Begin(r)
           \/ \E r \in Gets : \/ LocalStep(r) \/ GenerationStep(r) \/ ServeStep(r)
                              \/ ErrorStep(r) \/ StoreStep(r) \/ FetchOK(r)
           \/ \E w \in Writes : WriteOK(w) \/ WriteError(w) \/ LateWrite(w) \/ Purge(w)
           \/ Clear \/ (\E k \in Keys : Tick(k)) \/ DeleteStep \/ QuietStep
<1>1. CASE Publish \/ UNCHANGED vars
    BY <1>1 DEF Publish, vars, QuietStep, frame, local, resource, reload
<1>2. CASE CleanExpired
    BY <1>2 DEF CleanExpired, DeleteStep, frame, local, resource, reload
<1>3. QED
    BY <1>1, <1>2, GetKinds DEF Next, WriteStep

-----------------------------------------------------------------------------
(* What the steps do to the store                                            *)

\* Deleting entries leaves the others, and the index and the counter follow.
LEMMA DeleteEffect ==
    ASSUME Types, Indexed, NEW K \in SUBSET Present, Delete(K)
    PROVE  /\ items' \in [Keys -> EntryType \cup {None}]
           /\ Present' = Present \ K
           /\ \A k \in Present' : items'[k] = items[k]
           /\ Indexed'
<1>1. /\ items' = [k \in Keys |-> IF k \in K THEN None ELSE items[k]]
      /\ index' = index \ K /\ entryCount' = entryCount - Cardinality(K)
    BY DEF Delete
<1>2. /\ items' \in [Keys -> EntryType \cup {None}]
      /\ \A k \in Keys : items'[k] = IF k \in K THEN None ELSE items[k]
    BY <1>1 DEF Types
<1>3. Present' = Present \ K /\ \A k \in Present' : items'[k] = items[k]
    BY <1>2 DEF Present
<1>4. IsFiniteSet(Present) /\ IsFiniteSet(K) /\ Present \cap K = K
    BY RequestsAssumption, FS_Subset DEF Present
<1>5. /\ Cardinality(Present) \in Nat /\ Cardinality(K) \in Nat
      /\ Cardinality(Present \ K) = Cardinality(Present) - Cardinality(K)
    BY <1>4, FS_Difference, FS_CardinalityType
<1>6. Indexed'
    BY <1>1, <1>3, <1>5, SizesAssumption DEF Indexed
<1>7. QED
    BY <1>2, <1>3, <1>6

\* An eviction removes entries, and enough of them for the limit on their number.
LEMMA EvictionsEffect ==
    ASSUME NEW it, NEW size, NEW count \in Nat, NEW V \in Evictions(it, size, count),
           count = Cardinality({k \in Keys : it[k] # None})
    PROVE  /\ V \subseteq {k \in Keys : it[k] # None}
           /\ count - Cardinality(V) \in Nat
           /\ count - Cardinality(V) <= MaxEntries
           /\ Cardinality({k \in Keys : it[k] # None} \ V) = count - Cardinality(V)
<1> DEFINE All == {k \in Keys : it[k] # None}
<1>1. V \subseteq All /\ (V = All \/ ~(count - Cardinality(V) > MaxEntries))
    BY DEF Evictions
<1>2. IsFiniteSet(All) /\ IsFiniteSet(V) /\ All \cap V = V
    BY <1>1, RequestsAssumption, FS_Subset
<1>3. /\ Cardinality(V) \in Nat /\ Cardinality(All \ V) \in Nat
      /\ Cardinality(All \ V) = Cardinality(All) - Cardinality(V)
    BY <1>2, FS_Difference, FS_CardinalityType
<1> HIDE DEF All
<1>4. MaxEntries \in Nat
    BY SizesAssumption
<1>5. QED
    BY <1>1, <1>3, <1>4 DEF All

\* A store puts the entry of r under its key, or evicts it at once, and keeps the
\* others or evicts them.
LEMMA InsertEffect ==
    ASSUME Types, Indexed, NEW r \in Gets, NEW s \in Sizes, key[r] \in Keys, Insert(r, s)
    PROVE  /\ items' \in [Keys -> EntryType \cup {None}]
           /\ \A k \in Present' :
                 \/ k = key[r] /\ items'[k].by = r
                 \/ k \in Present /\ items'[k] = items[k]
           /\ Indexed'
<1> DEFINE e == [by |-> r, age |-> "fresh", size |-> s]
           it == [items EXCEPT ![key[r]] = e]
           size == curSize + s - SizeIn(items, {key[r]} \cap Present)
           count == entryCount + (IF key[r] \in Present THEN 0 ELSE 1)
           All == {k \in Keys : it[k] # None}
<1>1. e \in EntryType /\ e.by = r /\ e # None
    BY NoneAssumption DEF EntryType, Ages
<1> HIDE DEF e
<1>2. /\ it \in [Keys -> EntryType \cup {None}]
      /\ it[key[r]] = e /\ \A k \in Keys \ {key[r]} : it[k] = items[k]
    BY <1>1 DEF Types
<1>3. PICK V \in Evictions(it, size, count) :
        /\ items' = [x \in Keys |-> IF x \in V THEN None ELSE it[x]]
        /\ index' = (index \cup {key[r]}) \ V
        /\ entryCount' = count - Cardinality(V)
    BY DEF Insert, e
<1>4. All = Present \cup {key[r]}
    BY <1>1, <1>2 DEF Present
<1>5. count \in Nat /\ count = Cardinality(All)
    <2>1. IsFiniteSet(Present) /\ Cardinality(Present) \in Nat
        BY RequestsAssumption, FS_Subset, FS_CardinalityType DEF Present
    <2>2. CASE key[r] \in Present
        <3>1. All = Present /\ count = entryCount
            BY <1>4, <2>1, <2>2 DEF Indexed
        <3>2. QED
            BY <2>1, <3>1 DEF Indexed
    <2>3. CASE key[r] \notin Present
        <3>1. Cardinality(Present \cup {key[r]}) = Cardinality(Present) + 1
            BY <2>1, <2>3, FS_AddElement
        <3>2. Cardinality(All) = Cardinality(Present) + 1
            BY <1>4, <3>1
        <3>3. QED
            BY <2>1, <2>3, <3>2 DEF Indexed
    <2>4. QED
        BY <2>2, <2>3
<1> HIDE DEF it, size, count
<1>6. /\ V \subseteq All /\ entryCount' <= MaxEntries
      /\ Cardinality(All \ V) = entryCount'
    BY <1>3, <1>5, EvictionsEffect
<1>7. /\ items' \in [Keys -> EntryType \cup {None}]
      /\ \A k \in Keys : items'[k] = IF k \in V THEN None ELSE it[k]
    BY <1>2, <1>3
<1>8. Present' = All \ V
    BY <1>7 DEF Present
<1>9. Indexed'
    BY <1>3, <1>4, <1>6, <1>8 DEF Indexed
<1>10. \A k \in Present' : \/ k = key[r] /\ items'[k].by = r
                           \/ k \in Present /\ items'[k] = items[k]
    BY <1>1, <1>2, <1>4, <1>7, <1>8 DEF Present
<1>11. QED
    BY <1>7, <1>9, <1>10

\* An entry that ages stays the entry it is.
LEMMA TickEffect ==
    ASSUME Types, NEW k \in Keys, Tick(k)
    PROVE  /\ items' \in [Keys -> EntryType \cup {None}]
           /\ Present' = Present
           /\ \A x \in Present : items'[x].by = items[x].by
<1>1. PICK a \in Ages : items' = [items EXCEPT ![k].age = a]
    BY DEF Tick
<1>2. items[k] \in EntryType /\ items[k] # None
    BY DEF Tick, Types, Present
<1> DEFINE e == [items[k] EXCEPT !.age = a]
<1>3. e \in EntryType /\ e.by = items[k].by /\ e # None
    <2>1. e \in EntryType /\ e.by = items[k].by
        BY <1>2 DEF EntryType
    <2>2. QED
        BY <2>1, NoneAssumption DEF EntryType
<1>4. items' = [items EXCEPT ![k] = e]
    BY <1>1
<1> HIDE DEF e
<1>5. QED
    BY <1>2, <1>3, <1>4 DEF Types, Present

\* The answer to an unsafe request makes its version known, and nothing less.
LEMMA AnswerEffect ==
    ASSUME Types, Known, NEW w \in Writes, path[w] \in Paths, Answer(w)
    PROVE  /\ acked' \in [Paths -> Nat]
           /\ \A p \in Paths : acked[p] <= acked'[p] /\ acked'[p] <= origin[p]
           /\ \A p \in Paths \ {path[w]} : acked'[p] = acked[p]
<1> DEFINE p == path[w]
           v == reply[w].ver
           n == IF reply[w].src = "fetched" THEN Max({acked[p], v}) ELSE acked[p]
<1>1. acked[p] \in Nat /\ v \in Nat /\ origin[p] \in Nat
    BY DEF Types, Requests, Replies
<1>2. Max({acked[p], v}) = IF acked[p] >= v THEN acked[p] ELSE v
    <2>1. \E x \in {acked[p], v} : \A y \in {acked[p], v} : x >= y
        BY <1>1
    <2>2. /\ Max({acked[p], v}) \in {acked[p], v}
          /\ Max({acked[p], v}) >= acked[p] /\ Max({acked[p], v}) >= v
        BY <2>1 DEF Max
    <2>3. QED
        BY <1>1, <2>2
<1>3. acked' = [acked EXCEPT ![p] = n]
    BY DEF Answer
<1>4. n \in Nat /\ acked[p] <= n /\ n <= origin[p]
    BY <1>1, <1>2 DEF Known
<1> HIDE DEF n
<1>5. QED
    BY <1>3, <1>4 DEF Types, Known

-----------------------------------------------------------------------------
(* What the steps do to a request                                            *)

\* A request that has its answer is through with the cache, one that fetches stays
\* behind its fetch, and only FetchOK leads to a response that may be stored.
LEMMA LocalEffect ==
    ASSUME Types, NEW r \in Gets, LocalStep(r)
    PROVE  /\ phase' \in [Requests -> GetPhases \cup WritePhases]
           /\ \A x \in Requests \ {r} : phase'[x] = phase[x]
           /\ phase[r] # "idle" /\ phase'[r] \notin {"idle", "fetched"}
           /\ phase[r] \in {"respond", "done"} => phase'[r] = "done"
           /\ phase[r] \in {"fetch", "failed", "fetched", "respond", "done"} =>
                 phase'[r] \in {"failed", "respond", "done"}
           /\ phase'[r] \in {"fetch", "failed", "fetched"} => phase[r] = "fetch"
           /\ UNCHANGED <<frame, store, fillGen, reply, floor>>
<1>1. PICK m \in LocalMoves : phase[r] = m[1] /\ phase' = [phase EXCEPT ![r] = m[2]]
    BY DEF LocalStep, Goto
<1>2. /\ m[2] \in GetPhases /\ m[1] # "idle" /\ m[2] \notin {"idle", "fetched"}
      /\ m[1] \in {"respond", "done"} => m[2] = "done"
      /\ m[1] \in {"fetch", "failed", "fetched", "respond", "done"} =>
            m[2] \in {"failed", "respond", "done"}
      /\ m[2] \in {"fetch", "failed", "fetched"} => m[1] = "fetch"
    BY DEF LocalMoves, GetPhases
<1>3. UNCHANGED <<frame, store, fillGen, reply, floor>>
    BY DEF LocalStep
<1>4. QED
    BY <1>1, <1>2, <1>3 DEF Types, Requests

\* Serving an entry answers with its version, and nothing newer is known for its key.
LEMMA ServeEffect ==
    ASSUME Types, Begun, CacheCoherent, NEW r \in Gets, ServeStep(r)
    PROVE  /\ phase[r] \in {"get", "recheck", "failed"} /\ key[r] \in Keys
           /\ phase' = [phase EXCEPT ![r] = "respond"]
           /\ reply' \in [Requests -> Replies]
           /\ \A x \in Requests \ {r} : reply'[x] = reply[x]
           /\ floor' = [floor EXCEPT ![r] = acked[PathOf[key[r]]]]
           /\ reply'[r].ver >= floor'[r]
           /\ UNCHANGED <<frame, store, fillGen>>
<1>1. PICK src \in {"hit", "stale"} : Serve(r, src)
    BY DEF ServeStep
<1> DEFINE v == EntryVersion(items[key[r]])
<1>2. /\ phase[r] \in {"get", "recheck", "failed"} /\ key[r] \in Keys
      /\ items[key[r]] \in EntryType /\ key[r] \in Present
    BY RequestsAssumption DEF ServeStep, Begun, Types, Present, Requests
<1>3. /\ v \in Nat /\ v >= acked[PathOf[key[r]]]
    BY <1>2 DEF EntryType, Types, Requests, Replies, CacheCoherent, EntryVersion
<1>4. /\ reply' = [reply EXCEPT ![r] = [src |-> src, ver |-> v]]
      /\ floor' = [floor EXCEPT ![r] = acked[PathOf[key[r]]]]
      /\ phase' = [phase EXCEPT ![r] = "respond"]
    BY <1>1 DEF Serve, Reply, Goto
<1> HIDE DEF v
<1>5. /\ reply' \in [Requests -> Replies]
      /\ \A x \in Requests \ {r} : reply'[x] = reply[x]
      /\ reply'[r].ver = v /\ floor'[r] = acked[PathOf[key[r]]]
    BY <1>3, <1>4 DEF Types, Requests, Replies
<1>6. QED
    BY <1>2, <1>3, <1>4, <1>5 DEF ServeStep

\* A failed write tells its client nothing, and a successful one its own version.
LEMMA FetchEffect ==
    ASSUME Types, NEW r \in Requests, NEW src \in {"fetched", "error"}, NEW v \in Nat,
           Reply(r, src, v)
    PROVE  /\ reply' \in [Requests -> Replies]
           /\ reply'[r].src = src /\ reply'[r].ver = v
           /\ \A x \in Requests \ {r} : reply'[x] = reply[x]
    BY DEF Types, Reply, Replies

-----------------------------------------------------------------------------
(* Every kind of step keeps the invariant                                    *)

\* Every step keeps the types.
LEMMA TypesStep ==
    Types /\ Begun /\ Known /\ Indexed /\ CacheCoherent /\ [Next]_vars => Types'
<1> SUFFICES ASSUME Types, Begun, Known, Indexed, CacheCoherent, [Next]_vars PROVE Types'
    OBVIOUS
<1> USE DEF Types, frame, store, local, resource, reload
<1>1. ASSUME NEW r \in Requests, Begin(r) PROVE Types'
    <2>1. phase' \in [Requests -> GetPhases \cup WritePhases]
        BY <1>1 DEF Begin, Goto, GetPhases
    <2>2. CASE r \in Gets
        <3>1. r \notin Writes
            BY <2>2, RequestsAssumption
        <3>2. PICK k \in Keys : /\ key' = [key EXCEPT ![r] = k]
                                /\ floor' = [floor EXCEPT ![r] = acked[PathOf[k]]]
                                /\ UNCHANGED path
            BY <1>1, <3>1 DEF Begin
        <3>3. acked[PathOf[k]] \in Nat
            BY PathOfAssumption
        <3>4. QED
            BY <1>1, <2>1, <3>2, <3>3 DEF Begin
    <2>3. CASE r \notin Gets
        BY <1>1, <2>1, <2>3 DEF Begin
    <2>4. QED
        BY <2>2, <2>3
<1>2. ASSUME NEW r \in Gets, LocalStep(r) PROVE Types'
    BY <1>2, LocalEffect
<1>3. ASSUME NEW r \in Gets, GenerationStep(r) PROVE Types'
    BY <1>3 DEF GenerationStep, Goto, GetPhases
<1>4. ASSUME NEW r \in Gets, ServeStep(r) PROVE Types'
    <2>1. acked[PathOf[key[r]]] \in Nat
        BY <1>4, ServeEffect, PathOfAssumption
    <2>2. QED
        BY <1>4, <2>1, ServeEffect DEF GetPhases
<1>5. ASSUME NEW r \in Gets, ErrorStep(r) PROVE Types'
    <2>1. reply' \in [Requests -> Replies]
        BY <1>5, FetchEffect DEF ErrorStep, Requests
    <2>2. QED
        BY <1>5, <2>1 DEF ErrorStep, Goto, GetPhases
<1>6. ASSUME NEW r \in Gets, StoreStep(r) PROVE Types'
    <2>1. items' \in [Keys -> EntryType \cup {None}] /\ Indexed' /\ key[r] \in Keys
        BY <1>6, InsertEffect DEF StoreStep, Begun
    <2>2. index' \subseteq Keys
        BY <2>1 DEF Indexed, Present
    <2>3. QED
        BY <1>6, <2>1, <2>2 DEF StoreStep, Goto, GetPhases
<1>7. ASSUME NEW r \in Gets, FetchOK(r) PROVE Types'
    <2>1. origin[PathOf[key[r]]] \in Nat
        BY <1>7, PathOfAssumption DEF FetchOK, Begun
    <2>2. reply' \in [Requests -> Replies]
        BY <1>7, <2>1, FetchEffect DEF FetchOK, Requests
    <2>3. QED
        BY <1>7, <2>2 DEF FetchOK, Goto, GetPhases
<1>8. ASSUME NEW w \in Writes, WriteOK(w) PROVE Types'
    <2>1. path[w] \in Paths
        BY <1>8 DEF WriteOK, Begun
    <2>2. origin' \in [Paths -> Nat] /\ origin'[path[w]] \in Nat
        BY <1>8, <2>1 DEF WriteOK
    <2>3. reply' \in [Requests -> Replies]
        BY <1>8, <2>2, FetchEffect DEF WriteOK, Requests
    <2>4. QED
        BY <1>8, <2>2, <2>3 DEF WriteOK, Goto, WritePhases
<1>9. ASSUME NEW w \in Writes, WriteError(w) PROVE Types'
    <2>1. reply' \in [Requests -> Replies]
        BY <1>9, FetchEffect DEF WriteError, Requests
    <2>2. QED
        BY <1>9, <2>1 DEF WriteError, Goto, WritePhases
<1>10. ASSUME NEW w \in Writes, LateWrite(w) PROVE Types'
    <2>1. origin' \in [Paths -> Nat] /\ late' \subseteq Writes
        BY <1>10 DEF LateWrite, Begun
    <2>2. QED
        BY <1>10, <2>1 DEF LateWrite
<1>11. ASSUME NEW w \in Writes, Purge(w) PROVE Types'
    <2>1. path[w] \in Paths /\ Answer(w) /\ Delete({k \in index \cap Present : PathOf[k] = path[w]})
        BY <1>11 DEF Purge, Begun
    <2>2. items' \in [Keys -> EntryType \cup {None}] /\ Indexed'
        BY <2>1, DeleteEffect
    <2>3. index' \subseteq Keys
        BY <2>2 DEF Indexed, Present
    <2>4. acked' \in [Paths -> Nat]
        BY <2>1, AnswerEffect
    <2>5. phase' \in [Requests -> GetPhases \cup WritePhases] /\ generation' \in Nat
        <3>1. phase' = [phase EXCEPT ![w] = "done"] /\ generation' = generation + 1
            BY <1>11 DEF Purge, Goto
        <3>2. "done" \in GetPhases \cup WritePhases
            BY DEF WritePhases
        <3>3. phase' \in [Requests -> GetPhases \cup WritePhases]
            BY <3>1, <3>2
        <3>4. generation' \in Nat
            BY <3>1
        <3>5. QED
            BY <3>3, <3>4
    <2>6. UNCHANGED <<key, path, fillGen, reply, origin, floor, late, preClear>>
        BY <1>11 DEF Purge
    <2>7. QED
        BY <2>2, <2>3, <2>4, <2>5, <2>6
<1>12. CASE Clear
    BY <1>12 DEF Clear, Fetching
<1>13. ASSUME NEW k \in Keys, Tick(k) PROVE Types'
    BY <1>13, TickEffect DEF Tick
<1>14. CASE DeleteStep
    <2>1. items' \in [Keys -> EntryType \cup {None}] /\ Indexed'
        BY <1>14, DeleteEffect DEF DeleteStep
    <2>2. index' \subseteq Keys
        BY <2>1 DEF Indexed, Present
    <2>3. QED
        BY <1>14, <2>1, <2>2 DEF DeleteStep, Goto, GetPhases
<1>15. CASE QuietStep
    BY <1>15 DEF QuietStep
<1>16. QED
    BY <1>1, <1>2, <1>3, <1>4, <1>5, <1>6, <1>7, <1>8, <1>9, <1>10, <1>11, <1>12, <1>13,
       <1>14, <1>15, Kinds

\* No request acts before it began, and what its client knew then stays known.
LEMMA BegunStep == Types /\ Begun /\ Known /\ CacheCoherent /\ [Next]_vars => Begun'
<1> SUFFICES ASSUME Types, Begun, Known, CacheCoherent, [Next]_vars PROVE Begun'
    OBVIOUS
<1> USE DEF Begun, frame, store, local, resource, reload
<1>1. ASSUME NEW r \in Requests, Begin(r) PROVE Begun'
    <2>1. phase[r] = "idle" /\ phase' = [phase EXCEPT ![r] = "picked"]
          /\ UNCHANGED <<reply, acked, late>>
        BY <1>1 DEF Begin, Goto
    <2>2. CASE r \in Gets
        <3>1. r \notin Writes
            BY <2>2, RequestsAssumption
        <3>2. PICK k \in Keys : /\ key' = [key EXCEPT ![r] = k]
                                /\ floor' = [floor EXCEPT ![r] = acked[PathOf[k]]]
                                /\ UNCHANGED path
            BY <1>1, <3>1 DEF Begin
        <3>3. acked[PathOf[k]] \in Nat
            BY PathOfAssumption DEF Types
        <3>4. QED
            BY <2>1, <2>2, <3>1, <3>2, <3>3 DEF Types, Requests
    <2>3. CASE r \notin Gets
        <3>1. r \in Writes
            BY <2>3 DEF Requests
        <3>2. PICK p \in Paths : path' = [path EXCEPT ![r] = p] /\ UNCHANGED <<key, floor>>
            BY <1>1, <2>3 DEF Begin
        <3>3. QED
            BY <2>1, <2>3, <3>1, <3>2 DEF Types, Requests
    <2>4. QED
        BY <2>2, <2>3
<1>2. ASSUME NEW r \in Gets, LocalStep(r) PROVE Begun'
    BY <1>2, LocalEffect DEF Requests
<1>3. ASSUME NEW r \in Gets, GenerationStep(r) PROVE Begun'
    BY <1>3 DEF GenerationStep, Goto, Types, Requests
<1>4. ASSUME NEW r \in Gets, ServeStep(r) PROVE Begun'
    <2>1. acked[PathOf[key[r]]] \in Nat
        BY <1>4, ServeEffect, PathOfAssumption DEF Types
    <2>2. /\ \A x \in Requests \ {r} : phase'[x] = phase[x] /\ reply'[x] = reply[x]
          /\ phase[r] # "idle" /\ phase'[r] = "respond"
          /\ \A x \in Gets \ {r} : floor'[x] = floor[x]
          /\ floor'[r] = acked[PathOf[key[r]]] /\ UNCHANGED <<key, path, acked, late>>
        BY <1>4, ServeEffect DEF Types, Requests
    <2>3. r \notin Writes
        BY RequestsAssumption
    <2>4. QED
        BY <2>1, <2>2, <2>3 DEF Requests
<1>5. ASSUME NEW r \in Gets, ErrorStep(r) PROVE Begun'
    BY <1>5, FetchEffect DEF ErrorStep, Goto, Types, Requests
<1>6. ASSUME NEW r \in Gets, StoreStep(r) PROVE Begun'
    BY <1>6 DEF StoreStep, Goto, Types, Requests
<1>7. ASSUME NEW r \in Gets, FetchOK(r) PROVE Begun'
    <2>1. origin[PathOf[key[r]]] \in Nat
        BY <1>7, PathOfAssumption DEF FetchOK, Types
    <2>2. \A x \in Requests \ {r} : reply'[x] = reply[x]
        BY <1>7, <2>1, FetchEffect DEF FetchOK, Requests
    <2>3. QED
        BY <1>7, <2>2 DEF FetchOK, Goto, Types, Requests
<1>8. ASSUME NEW w \in Writes, WriteOK(w) PROVE Begun'
    <2>1. origin'[path[w]] \in Nat
        BY <1>8 DEF WriteOK, Types
    <2>2. \A x \in Requests \ {w} : reply'[x] = reply[x]
        BY <1>8, <2>1, FetchEffect DEF WriteOK, Requests
    <2>3. QED
        BY <1>8, <2>2, RequestsAssumption DEF WriteOK, Goto, Types, Requests
<1>9. ASSUME NEW w \in Writes, WriteError(w) PROVE Begun'
    BY <1>9, FetchEffect, RequestsAssumption DEF WriteError, Goto, Types, Requests
<1>10. ASSUME NEW w \in Writes, LateWrite(w) PROVE Begun'
    BY <1>10 DEF LateWrite, Types, Requests
<1>11. ASSUME NEW w \in Writes, Purge(w) PROVE Begun'
    <2>1. /\ phase[w] = "purge" /\ phase' = [phase EXCEPT ![w] = "done"]
          /\ UNCHANGED <<key, path, reply, floor, late>> /\ path[w] \in Paths /\ Answer(w)
        BY <1>11 DEF Purge, Goto
    <2>2. acked' \in [Paths -> Nat] /\ \A p \in Paths : acked[p] <= acked'[p]
        BY <2>1, AnswerEffect
    <2>3. \A r \in Gets : phase[r] # "idle" => PathOf[key[r]] \in Paths
        BY PathOfAssumption
    <2>4. \A r \in Gets : floor[r] \in Nat /\ phase'[r] = phase[r]
        BY <2>1, RequestsAssumption DEF Types
    <2>5. \A r \in Gets : phase'[r] # "idle" => key'[r] \in Keys /\ floor'[r] <= acked'[PathOf[key'[r]]]
        BY <2>1, <2>2, <2>3, <2>4 DEF Types
    <2>6. QED
        BY <2>1, <2>5 DEF Types, Requests
<1>12. CASE Clear
    BY <1>12 DEF Clear
<1>13. ASSUME NEW k \in Keys, Tick(k) PROVE Begun'
    BY <1>13 DEF Tick
<1>14. CASE DeleteStep
    BY <1>14 DEF DeleteStep, Goto, Types, Requests
<1>15. CASE QuietStep
    BY <1>15 DEF QuietStep
<1>16. QED
    BY <1>1, <1>2, <1>3, <1>4, <1>5, <1>6, <1>7, <1>8, <1>9, <1>10, <1>11, <1>12, <1>13,
       <1>14, <1>15, Kinds

\* No client is told of a version before the origin has it.
LEMMA KnownStep == Types /\ Begun /\ Known /\ CacheCoherent /\ [Next]_vars => Known'
<1> SUFFICES ASSUME Types, Begun, Known, CacheCoherent, [Next]_vars PROVE Known'
    OBVIOUS
<1> USE DEF Known, frame, store, local, resource, reload
<1>1. ASSUME NEW r \in Requests, Begin(r) PROVE Known'
    <2>1. /\ phase[r] = "idle" /\ UNCHANGED <<reply, acked, origin>>
          /\ \A w \in Writes \ {r} : path'[w] = path[w]
        BY <1>1 DEF Begin, Types
    <2>2. reply[r].src = "none"
        BY <2>1 DEF Begun, NoReply
    <2>3. QED
        BY <2>1, <2>2 DEF Requests
<1>2. ASSUME NEW r \in Gets, LocalStep(r) PROVE Known'
    BY <1>2, LocalEffect
<1>3. ASSUME NEW r \in Gets, GenerationStep(r) PROVE Known'
    BY <1>3 DEF GenerationStep
<1>4. ASSUME NEW r \in Gets, ServeStep(r) PROVE Known'
    BY <1>4, ServeEffect, RequestsAssumption DEF Requests
<1>5. ASSUME NEW r \in Gets, ErrorStep(r) PROVE Known'
    BY <1>5, FetchEffect, RequestsAssumption DEF ErrorStep, Requests
<1>6. ASSUME NEW r \in Gets, StoreStep(r) PROVE Known'
    BY <1>6 DEF StoreStep
<1>7. ASSUME NEW r \in Gets, FetchOK(r) PROVE Known'
    <2>1. origin[PathOf[key[r]]] \in Nat
        BY <1>7, PathOfAssumption DEF FetchOK, Begun, Types
    <2>2. \A x \in Requests \ {r} : reply'[x] = reply[x]
        BY <1>7, <2>1, FetchEffect DEF FetchOK, Requests
    <2>3. QED
        BY <1>7, <2>2, RequestsAssumption DEF FetchOK, Requests
<1>8. ASSUME NEW w \in Writes, WriteOK(w) PROVE Known'
    <2>1. /\ path[w] \in Paths /\ origin' = [origin EXCEPT ![path[w]] = @ + 1]
          /\ UNCHANGED <<acked, path>> /\ Reply(w, "fetched", origin'[path[w]])
        BY <1>8 DEF WriteOK, Begun
    <2>2. \A p \in Paths : origin'[p] \in Nat /\ origin[p] <= origin'[p] /\ origin[p] \in Nat
                              /\ acked[p] \in Nat
        BY <2>1 DEF Types
    <2>3. /\ reply'[w].ver = origin'[path[w]]
          /\ \A x \in Requests \ {w} : reply'[x] = reply[x]
        BY <2>1, <2>2, FetchEffect DEF Requests
    <2>4. ASSUME NEW x \in Writes, reply'[x].src = "fetched"
          PROVE  reply'[x].ver <= origin'[path'[x]]
        <3>1. CASE x = w
            BY <2>1, <2>2, <2>3, <3>1
        <3>2. CASE x # w
            <4>1. /\ path[x] \in Paths /\ reply[x].ver \in Nat
                BY <2>3, <2>4, <3>2 DEF Begun, NoReply, Types, Requests, Replies
            <4>2. QED
                BY <2>1, <2>2, <2>3, <2>4, <3>2, <4>1 DEF Requests
        <3>3. QED
            BY <3>1, <3>2
    <2>5. QED
        BY <2>1, <2>2, <2>4
<1>9. ASSUME NEW w \in Writes, WriteError(w) PROVE Known'
    BY <1>9, FetchEffect, RequestsAssumption DEF WriteError, Requests
<1>10. ASSUME NEW w \in Writes, LateWrite(w) PROVE Known'
    <2>1. /\ path[w] \in Paths /\ origin' = [origin EXCEPT ![path[w]] = @ + 1]
          /\ UNCHANGED <<acked, path, reply>>
        BY <1>10 DEF LateWrite, Begun
    <2>2. \A p \in Paths : origin'[p] \in Nat /\ origin[p] <= origin'[p] /\ origin[p] \in Nat
                              /\ acked[p] \in Nat
        BY <2>1 DEF Types
    <2>3. \A x \in Writes : reply[x].src = "fetched" => path[x] \in Paths /\ reply[x].ver \in Nat
        BY DEF Begun, NoReply, Types, Requests, Replies
    <2>4. QED
        BY <2>1, <2>2, <2>3
<1>11. ASSUME NEW w \in Writes, Purge(w) PROVE Known'
    <2>1. path[w] \in Paths /\ Answer(w) /\ UNCHANGED <<path, reply, origin>>
        BY <1>11 DEF Purge, Begun
    <2>2. QED
        BY <2>1, AnswerEffect
<1>12. CASE Clear
    BY <1>12 DEF Clear
<1>13. ASSUME NEW k \in Keys, Tick(k) PROVE Known'
    BY <1>13 DEF Tick
<1>14. CASE DeleteStep
    BY <1>14 DEF DeleteStep
<1>15. CASE QuietStep
    BY <1>15 DEF QuietStep
<1>16. QED
    BY <1>1, <1>2, <1>3, <1>4, <1>5, <1>6, <1>7, <1>8, <1>9, <1>10, <1>11, <1>12, <1>13,
       <1>14, <1>15, Kinds

\* Store, purge, lookup and cleaner leave the counter and the index right.
LEMMA IndexedStep == Types /\ Begun /\ Indexed /\ [Next]_vars => Indexed'
<1> SUFFICES ASSUME Types, Begun, Indexed, [Next]_vars PROVE Indexed'
    OBVIOUS
<1> USE DEF frame, store, local, resource, reload
<1>1. ASSUME NEW r \in Requests, Begin(r) PROVE Indexed'
    BY <1>1 DEF Begin, Indexed, Present
<1>2. ASSUME NEW r \in Gets, LocalStep(r) PROVE Indexed'
    BY <1>2 DEF LocalStep, Indexed, Present
<1>3. ASSUME NEW r \in Gets, GenerationStep(r) PROVE Indexed'
    BY <1>3 DEF GenerationStep, Indexed, Present
<1>4. ASSUME NEW r \in Gets, ServeStep(r) PROVE Indexed'
    BY <1>4 DEF ServeStep, Indexed, Present
<1>5. ASSUME NEW r \in Gets, ErrorStep(r) PROVE Indexed'
    BY <1>5 DEF ErrorStep, Indexed, Present
<1>6. ASSUME NEW r \in Gets, StoreStep(r) PROVE Indexed'
    BY <1>6, InsertEffect DEF StoreStep, Begun
<1>7. ASSUME NEW r \in Gets, FetchOK(r) PROVE Indexed'
    BY <1>7 DEF FetchOK, Indexed, Present
<1>8. ASSUME NEW w \in Writes, WriteOK(w) PROVE Indexed'
    BY <1>8 DEF WriteOK, Indexed, Present
<1>9. ASSUME NEW w \in Writes, WriteError(w) PROVE Indexed'
    BY <1>9 DEF WriteError, Indexed, Present
<1>10. ASSUME NEW w \in Writes, LateWrite(w) PROVE Indexed'
    BY <1>10 DEF LateWrite, Indexed, Present
<1>11. ASSUME NEW w \in Writes, Purge(w) PROVE Indexed'
    BY <1>11, DeleteEffect DEF Purge
<1>12. CASE Clear
    <2>1. Present' = {} /\ index' = {} /\ entryCount' = 0
        BY <1>12 DEF Clear, Present
    <2>2. QED
        BY <2>1, FS_EmptySet, SizesAssumption DEF Indexed
<1>13. ASSUME NEW k \in Keys, Tick(k) PROVE Indexed'
    BY <1>13, TickEffect DEF Tick, Indexed
<1>14. CASE DeleteStep
    BY <1>14, DeleteEffect DEF DeleteStep
<1>15. CASE QuietStep
    BY <1>15 DEF QuietStep, Indexed, Present
<1>16. QED
    BY <1>1, <1>2, <1>3, <1>4, <1>5, <1>6, <1>7, <1>8, <1>9, <1>10, <1>11, <1>12, <1>13,
       <1>14, <1>15, Kinds

\* A request that stored an entry has nothing left to do but to return.
LEMMA OwnedStep == Types /\ Begun /\ Indexed /\ Owned /\ [Next]_vars => Owned'
<1> SUFFICES ASSUME Types, Begun, Indexed, Owned, [Next]_vars PROVE Owned'
    OBVIOUS
<1> USE DEF frame, store, local, resource, reload
<1>1. ASSUME NEW r \in Requests, Begin(r) PROVE Owned'
    <2>1. phase[r] = "idle" /\ phase' = [phase EXCEPT ![r] = "picked"] /\ UNCHANGED items
        BY <1>1 DEF Begin, Goto
    <2>2. QED
        BY <2>1 DEF Owned, Present, Types, Requests, EntryType
<1>2. ASSUME NEW r \in Gets, LocalStep(r) PROVE Owned'
    <2>1. UNCHANGED items
        BY <1>2 DEF LocalStep
    <2>2. QED
        BY <1>2, <2>1, LocalEffect DEF Owned, Present, Types, Requests, EntryType
<1>3. ASSUME NEW r \in Gets, GenerationStep(r) PROVE Owned'
    BY <1>3 DEF GenerationStep, Goto, Owned, Present, Types, Requests, EntryType
<1>4. ASSUME NEW r \in Gets, ServeStep(r) PROVE Owned'
    BY <1>4 DEF ServeStep, Serve, Goto, Owned, Present, Types, Requests, EntryType
<1>5. ASSUME NEW r \in Gets, ErrorStep(r) PROVE Owned'
    BY <1>5 DEF ErrorStep, Goto, Owned, Present, Types, Requests, EntryType
<1>6. ASSUME NEW r \in Gets, StoreStep(r) PROVE Owned'
    <2>1. key[r] \in Keys /\ phase' = [phase EXCEPT ![r] = "respond"]
        BY <1>6 DEF StoreStep, Begun, Goto
    <2>2. \A k \in Present' : (items'[k].by = r) \/ (k \in Present /\ items'[k] = items[k])
        <3>1. PICK s \in Sizes : Insert(r, s)
            BY <1>6 DEF StoreStep
        <3>2. QED
            BY <2>1, <3>1, InsertEffect
    <2>3. \A k \in Present : items[k].by \in Requests
        BY DEF Present, Types, EntryType, Requests
    <2>4. \A x \in Requests \ {r} : phase'[x] = phase[x]
        BY <2>1 DEF Types
    <2>5. phase'[r] = "respond"
        BY <2>1 DEF Types, Requests
    <2>6. QED
        BY <2>2, <2>3, <2>4, <2>5 DEF Owned
<1>7. ASSUME NEW r \in Gets, FetchOK(r) PROVE Owned'
    BY <1>7 DEF FetchOK, Goto, Owned, Present, Types, Requests, EntryType
<1>8. ASSUME NEW w \in Writes, WriteOK(w) PROVE Owned'
    BY <1>8 DEF WriteOK, Goto, Owned, Present, Types, Requests, EntryType
<1>9. ASSUME NEW w \in Writes, WriteError(w) PROVE Owned'
    BY <1>9 DEF WriteError, Goto, Owned, Present, Types, Requests, EntryType
<1>10. ASSUME NEW w \in Writes, LateWrite(w) PROVE Owned'
    BY <1>10 DEF LateWrite, Owned, Present
<1>11. ASSUME NEW w \in Writes, Purge(w) PROVE Owned'
    <2>1. phase' = [phase EXCEPT ![w] = "done"]
        BY <1>11 DEF Purge, Goto
    <2>2. \A k \in Present' : k \in Present /\ items'[k] = items[k]
        BY <1>11, DeleteEffect DEF Purge
    <2>3. QED
        BY <2>1, <2>2 DEF Owned, Types, Requests
<1>12. CASE Clear
    BY <1>12 DEF Clear, Owned, Present
<1>13. ASSUME NEW k \in Keys, Tick(k) PROVE Owned'
    <2>1. UNCHANGED phase
        BY <1>13 DEF Tick
    <2>2. QED
        BY <1>13, <2>1, TickEffect DEF Owned
<1>14. CASE DeleteStep
    <2>1. \A k \in Present' : k \in Present /\ items'[k] = items[k]
        BY <1>14, DeleteEffect DEF DeleteStep
    <2>2. \A k \in Present : items[k].by \in Gets
        BY DEF Present, Types, EntryType
    <2>3. QED
        BY <1>14, <2>1, <2>2 DEF DeleteStep, Goto, Owned, Types, Requests
<1>15. CASE QuietStep
    BY <1>15 DEF QuietStep, Owned, Present
<1>16. QED
    BY <1>1, <1>2, <1>3, <1>4, <1>5, <1>6, <1>7, <1>8, <1>9, <1>10, <1>11, <1>12, <1>13,
       <1>14, <1>15, Kinds

\* A write that becomes known, like a Clear, starts a new generation; a fetch that
\* began in this one sees every write known then.
LEMMA UpToDateStep ==
    Types /\ Begun /\ Known /\ Indexed /\ CacheCoherent /\ UpToDate /\ [Next]_vars => UpToDate'
<1> SUFFICES ASSUME Types, Begun, Known, Indexed, CacheCoherent, UpToDate, [Next]_vars
             PROVE  UpToDate'
    OBVIOUS
<1> USE DEF UpToDate, frame, store, local, resource, reload
<1>0. /\ \A r \in Gets : phase[r] # "idle" => key[r] \in Keys /\ PathOf[key[r]] \in Paths
      /\ \A p \in Paths : acked[p] \in Nat /\ origin[p] \in Nat
    BY PathOfAssumption DEF Begun, Types
<1>1. ASSUME NEW r \in Requests, Begin(r) PROVE UpToDate'
    <2>1. /\ phase[r] = "idle" /\ phase' = [phase EXCEPT ![r] = "picked"]
          /\ \A x \in Gets \ {r} : key'[x] = key[x]
          /\ UNCHANGED <<generation, fillGen, reply, acked>>
        BY <1>1 DEF Begin, Goto, Types
    <2>2. QED
        BY <2>1 DEF Types, Requests
<1>2. ASSUME NEW r \in Gets, LocalStep(r) PROVE UpToDate'
    BY <1>2, LocalEffect DEF Requests
<1>3. ASSUME NEW r \in Gets, GenerationStep(r) PROVE UpToDate'
    BY <1>3 DEF GenerationStep, Goto, Types, Requests
<1>4. ASSUME NEW r \in Gets, ServeStep(r) PROVE UpToDate'
    BY <1>4, ServeEffect DEF Types, Requests
<1>5. ASSUME NEW r \in Gets, ErrorStep(r) PROVE UpToDate'
    BY <1>5, FetchEffect DEF ErrorStep, Goto, Types, Requests
<1>6. ASSUME NEW r \in Gets, StoreStep(r) PROVE UpToDate'
    BY <1>6 DEF StoreStep, Goto, Types, Requests
<1>7. ASSUME NEW r \in Gets, FetchOK(r) PROVE UpToDate'
    <2>1. /\ key[r] \in Keys /\ PathOf[key[r]] \in Paths
          /\ Reply(r, "fetched", origin[PathOf[key[r]]])
          /\ phase' = [phase EXCEPT ![r] = "fetched"]
          /\ UNCHANGED <<generation, fillGen, key, acked>>
        BY <1>7, <1>0 DEF FetchOK, Goto
    <2>2. /\ reply'[r].ver = origin[PathOf[key[r]]]
          /\ \A x \in Requests \ {r} : reply'[x] = reply[x]
        BY <1>0, <2>1, FetchEffect DEF Requests
    <2>3. reply'[r].ver >= acked[PathOf[key[r]]]
        BY <1>0, <2>1, <2>2 DEF Known
    <2>4. QED
        BY <2>1, <2>2, <2>3 DEF Types, Requests
<1>8. ASSUME NEW w \in Writes, WriteOK(w) PROVE UpToDate'
    <2>1. /\ path[w] \in Paths /\ origin' = [origin EXCEPT ![path[w]] = @ + 1]
          /\ Reply(w, "fetched", origin'[path[w]]) /\ phase' = [phase EXCEPT ![w] = "purge"]
          /\ UNCHANGED <<generation, fillGen, key, acked>>
        BY <1>8 DEF WriteOK, Begun, Goto
    <2>2. \A x \in Requests \ {w} : reply'[x] = reply[x]
        BY <1>0, <2>1, FetchEffect DEF Requests, Types
    <2>3. QED
        BY <2>1, <2>2, RequestsAssumption DEF Types, Requests
<1>9. ASSUME NEW w \in Writes, WriteError(w) PROVE UpToDate'
    BY <1>9, FetchEffect, RequestsAssumption DEF WriteError, Goto, Types, Requests
<1>10. ASSUME NEW w \in Writes, LateWrite(w) PROVE UpToDate'
    BY <1>10 DEF LateWrite
<1>11. ASSUME NEW w \in Writes, Purge(w) PROVE UpToDate'
    <2>1. generation' = generation + 1 /\ UNCHANGED fillGen
        BY <1>11 DEF Purge
    <2>2. QED
        BY <2>1 DEF Types
<1>12. CASE Clear
    <2>1. generation' = generation + 1 /\ UNCHANGED fillGen
        BY <1>12 DEF Clear
    <2>2. QED
        BY <2>1 DEF Types
<1>13. ASSUME NEW k \in Keys, Tick(k) PROVE UpToDate'
    BY <1>13 DEF Tick
<1>14. CASE DeleteStep
    BY <1>14 DEF DeleteStep, Goto, Types, Requests
<1>15. CASE QuietStep
    BY <1>15 DEF QuietStep
<1>16. QED
    BY <1>1, <1>2, <1>3, <1>4, <1>5, <1>6, <1>7, <1>8, <1>9, <1>10, <1>11, <1>12, <1>13,
       <1>14, <1>15, Kinds

\* What is stored has missed no known write, and a purge leaves no entry of the path
\* whose new version it makes known.
LEMMA CoherentStep ==
    Types /\ Begun /\ Known /\ Indexed /\ Owned /\ UpToDate /\ CacheCoherent /\ [Next]_vars
        => CacheCoherent'
<1> SUFFICES ASSUME Types, Begun, Known, Indexed, Owned, UpToDate, CacheCoherent, [Next]_vars
             PROVE  CacheCoherent'
    OBVIOUS
<1> USE DEF frame, store, local, resource, reload
<1>0. \A k \in Present : /\ items[k].by \in Gets /\ reply[items[k].by].ver \in Nat
                        /\ reply[items[k].by].ver >= acked[PathOf[k]]
                        /\ phase[items[k].by] \in {"respond", "done"}
    BY DEF CacheCoherent, EntryVersion, Owned, Present, Types, EntryType, Requests, Replies
<1>1. ASSUME NEW r \in Requests, Begin(r) PROVE CacheCoherent'
    BY <1>1, <1>0 DEF Begin, CacheCoherent, EntryVersion, Present
<1>2. ASSUME NEW r \in Gets, LocalStep(r) PROVE CacheCoherent'
    BY <1>2, <1>0 DEF LocalStep, CacheCoherent, EntryVersion, Present
<1>3. ASSUME NEW r \in Gets, GenerationStep(r) PROVE CacheCoherent'
    BY <1>3, <1>0 DEF GenerationStep, CacheCoherent, EntryVersion, Present
<1>4. ASSUME NEW r \in Gets, ServeStep(r) PROVE CacheCoherent'
    <2>1. \A k \in Present : reply'[items[k].by] = reply[items[k].by]
        BY <1>4, <1>0, ServeEffect DEF Requests
    <2>2. UNCHANGED <<items, acked>>
        BY <1>4 DEF ServeStep
    <2>3. QED
        BY <1>0, <2>1, <2>2 DEF CacheCoherent, EntryVersion, Present
<1>5. ASSUME NEW r \in Gets, ErrorStep(r) PROVE CacheCoherent'
    <2>1. \A k \in Present : reply'[items[k].by] = reply[items[k].by]
        BY <1>5, <1>0, FetchEffect DEF ErrorStep, Requests
    <2>2. UNCHANGED <<items, acked>>
        BY <1>5 DEF ErrorStep
    <2>3. QED
        BY <1>0, <2>1, <2>2 DEF CacheCoherent, EntryVersion, Present
<1>6. ASSUME NEW r \in Gets, StoreStep(r) PROVE CacheCoherent'
    <2>1. /\ key[r] \in Keys /\ UNCHANGED <<reply, acked>>
          /\ reply[r].ver >= acked[PathOf[key[r]]]
        BY <1>6 DEF StoreStep, Begun, UpToDate
    <2>2. \A k \in Present' : (k = key[r] /\ items'[k].by = r) \/ (k \in Present /\ items'[k] = items[k])
        <3>1. PICK s \in Sizes : Insert(r, s)
            BY <1>6 DEF StoreStep
        <3>2. QED
            BY <2>1, <3>1, InsertEffect
    <2>3. QED
        BY <1>0, <2>1, <2>2 DEF CacheCoherent, EntryVersion
<1>7. ASSUME NEW r \in Gets, FetchOK(r) PROVE CacheCoherent'
    <2>1. origin[PathOf[key[r]]] \in Nat
        BY <1>7, PathOfAssumption DEF FetchOK, Begun, Types
    <2>2. \A k \in Present : reply'[items[k].by] = reply[items[k].by]
        BY <1>7, <1>0, <2>1, FetchEffect DEF FetchOK, Requests
    <2>3. UNCHANGED <<items, acked>>
        BY <1>7 DEF FetchOK
    <2>4. QED
        BY <1>0, <2>2, <2>3 DEF CacheCoherent, EntryVersion, Present
<1>8. ASSUME NEW w \in Writes, WriteOK(w) PROVE CacheCoherent'
    <2>1. /\ origin'[path[w]] \in Nat /\ UNCHANGED <<items, acked>>
          /\ Reply(w, "fetched", origin'[path[w]])
        BY <1>8 DEF WriteOK, Begun, Types
    <2>2. \A k \in Present : reply'[items[k].by] = reply[items[k].by]
        BY <1>0, <2>1, FetchEffect, RequestsAssumption DEF Requests
    <2>3. QED
        BY <1>0, <2>1, <2>2 DEF CacheCoherent, EntryVersion, Present
<1>9. ASSUME NEW w \in Writes, WriteError(w) PROVE CacheCoherent'
    <2>1. \A k \in Present : reply'[items[k].by] = reply[items[k].by]
        BY <1>9, <1>0, FetchEffect, RequestsAssumption DEF WriteError, Requests
    <2>2. UNCHANGED <<items, acked>>
        BY <1>9 DEF WriteError
    <2>3. QED
        BY <1>0, <2>1, <2>2 DEF CacheCoherent, EntryVersion, Present
<1>10. ASSUME NEW w \in Writes, LateWrite(w) PROVE CacheCoherent'
    BY <1>10, <1>0 DEF LateWrite, CacheCoherent, EntryVersion, Present
<1>11. ASSUME NEW w \in Writes, Purge(w) PROVE CacheCoherent'
    <2>1. /\ path[w] \in Paths /\ Answer(w) /\ UNCHANGED reply
          /\ Delete({k \in index \cap Present : PathOf[k] = path[w]})
        BY <1>11 DEF Purge, Begun
    <2>2. /\ Present' = Present \ {k \in index \cap Present : PathOf[k] = path[w]}
          /\ \A k \in Present' : items'[k] = items[k]
        BY <2>1, DeleteEffect
    <2>3. \A k \in Present' : k \in Present /\ items'[k] = items[k] /\ PathOf[k] # path[w]
        BY <2>2 DEF Indexed
    <2>4. \A k \in Present' : PathOf[k] \in Paths /\ acked'[PathOf[k]] = acked[PathOf[k]]
        BY <2>1, <2>3, AnswerEffect, PathOfAssumption DEF Present
    <2>5. QED
        BY <1>0, <2>1, <2>3, <2>4 DEF CacheCoherent, EntryVersion
<1>12. CASE Clear
    BY <1>12 DEF Clear, CacheCoherent, Present
<1>13. ASSUME NEW k \in Keys, Tick(k) PROVE CacheCoherent'
    <2>1. UNCHANGED <<reply, acked>>
        BY <1>13 DEF Tick
    <2>2. QED
        BY <1>0, <1>13, <2>1, TickEffect DEF CacheCoherent, EntryVersion
<1>14. CASE DeleteStep
    <2>1. UNCHANGED <<reply, acked>>
        BY <1>14 DEF DeleteStep
    <2>2. \A k \in Present' : k \in Present /\ items'[k] = items[k]
        BY <1>14, DeleteEffect DEF DeleteStep
    <2>3. QED
        BY <1>0, <2>1, <2>2 DEF CacheCoherent, EntryVersion
<1>15. CASE QuietStep
    BY <1>15, <1>0 DEF QuietStep, CacheCoherent, EntryVersion, Present
<1>16. QED
    BY <1>1, <1>2, <1>3, <1>4, <1>5, <1>6, <1>7, <1>8, <1>9, <1>10, <1>11, <1>12, <1>13,
       <1>14, <1>15, Kinds

\* A GET is answered by the cache, which is coherent, or by the origin, which has every
\* version that is known.
LEMMA ReadStep ==
    Types /\ Begun /\ Known /\ CacheCoherent /\ ReadYourWrites /\ [Next]_vars => ReadYourWrites'
<1> SUFFICES ASSUME Types, Begun, Known, CacheCoherent, ReadYourWrites, [Next]_vars
             PROVE  ReadYourWrites'
    OBVIOUS
<1> USE DEF ReadYourWrites, frame, store, local, resource, reload
<1>1. ASSUME NEW r \in Requests, Begin(r) PROVE ReadYourWrites'
    <2>1. phase[r] = "idle" /\ UNCHANGED reply /\ \A x \in Gets \ {r} : floor'[x] = floor[x]
        BY <1>1 DEF Begin, Types
    <2>2. reply[r].src = "none"
        BY <2>1 DEF Begun, NoReply
    <2>3. QED
        BY <2>1, <2>2
<1>2. ASSUME NEW r \in Gets, LocalStep(r) PROVE ReadYourWrites'
    BY <1>2 DEF LocalStep
<1>3. ASSUME NEW r \in Gets, GenerationStep(r) PROVE ReadYourWrites'
    BY <1>3 DEF GenerationStep
<1>4. ASSUME NEW r \in Gets, ServeStep(r) PROVE ReadYourWrites'
    <2>1. \A x \in Gets \ {r} : floor'[x] = floor[x] /\ reply'[x] = reply[x]
        BY <1>4, ServeEffect DEF Types, Requests
    <2>2. QED
        BY <1>4, <2>1, ServeEffect
<1>5. ASSUME NEW r \in Gets, ErrorStep(r) PROVE ReadYourWrites'
    BY <1>5, FetchEffect DEF ErrorStep, Requests
<1>6. ASSUME NEW r \in Gets, StoreStep(r) PROVE ReadYourWrites'
    BY <1>6 DEF StoreStep
<1>7. ASSUME NEW r \in Gets, FetchOK(r) PROVE ReadYourWrites'
    <2>1. /\ PathOf[key[r]] \in Paths /\ floor[r] <= acked[PathOf[key[r]]]
          /\ Reply(r, "fetched", origin[PathOf[key[r]]]) /\ UNCHANGED floor
        BY <1>7, PathOfAssumption DEF FetchOK, Begun
    <2>2. /\ origin[PathOf[key[r]]] \in Nat /\ acked[PathOf[key[r]]] \in Nat /\ floor[r] \in Nat
          /\ acked[PathOf[key[r]]] <= origin[PathOf[key[r]]]
        BY <2>1 DEF Types, Known
    <2>3. /\ reply'[r].ver = origin[PathOf[key[r]]]
          /\ \A x \in Requests \ {r} : reply'[x] = reply[x]
        BY <2>1, <2>2, FetchEffect DEF Requests
    <2>4. QED
        BY <2>1, <2>2, <2>3 DEF Requests
<1>8. ASSUME NEW w \in Writes, WriteOK(w) PROVE ReadYourWrites'
    <2>1. origin'[path[w]] \in Nat /\ Reply(w, "fetched", origin'[path[w]]) /\ UNCHANGED floor
        BY <1>8 DEF WriteOK, Begun, Types
    <2>2. QED
        BY <2>1, FetchEffect, RequestsAssumption DEF Requests
<1>9. ASSUME NEW w \in Writes, WriteError(w) PROVE ReadYourWrites'
    BY <1>9, FetchEffect, RequestsAssumption DEF WriteError, Requests
<1>10. ASSUME NEW w \in Writes, LateWrite(w) PROVE ReadYourWrites'
    BY <1>10 DEF LateWrite
<1>11. ASSUME NEW w \in Writes, Purge(w) PROVE ReadYourWrites'
    BY <1>11 DEF Purge
<1>12. CASE Clear
    BY <1>12 DEF Clear
<1>13. ASSUME NEW k \in Keys, Tick(k) PROVE ReadYourWrites'
    BY <1>13 DEF Tick
<1>14. CASE DeleteStep
    BY <1>14 DEF DeleteStep
<1>15. CASE QuietStep
    BY <1>15 DEF QuietStep
<1>16. QED
    BY <1>1, <1>2, <1>3, <1>4, <1>5, <1>6, <1>7, <1>8, <1>9, <1>10, <1>11, <1>12, <1>13,
       <1>14, <1>15, Kinds

\* A fetch that began before a Clear keeps the generation it read then.
LEMMA FencedStep ==
    Types /\ Begun /\ UpToDate /\ CacheCoherent /\ Fenced /\ [Next]_vars => Fenced'
<1> SUFFICES ASSUME Types, Begun, UpToDate, CacheCoherent, Fenced, [Next]_vars
             PROVE  Fenced'
    OBVIOUS
<1> USE DEF Fenced, frame, store, local, resource, reload
<1>1. ASSUME NEW r \in Requests, Begin(r) PROVE Fenced'
    BY <1>1 DEF Begin, Goto, Types, Requests
<1>2. ASSUME NEW r \in Gets, LocalStep(r) PROVE Fenced'
    BY <1>2, LocalEffect DEF Types, Requests
<1>3. ASSUME NEW r \in Gets, GenerationStep(r) PROVE Fenced'
    BY <1>3 DEF GenerationStep, Goto, Types, Requests
<1>4. ASSUME NEW r \in Gets, ServeStep(r) PROVE Fenced'
    BY <1>4, ServeEffect DEF Types, Requests
<1>5. ASSUME NEW r \in Gets, ErrorStep(r) PROVE Fenced'
    BY <1>5 DEF ErrorStep, Goto, Types, Requests
<1>6. ASSUME NEW r \in Gets, StoreStep(r) PROVE Fenced'
    BY <1>6 DEF StoreStep, Goto, Types, Requests
<1>7. ASSUME NEW r \in Gets, FetchOK(r) PROVE Fenced'
    BY <1>7 DEF FetchOK, Goto, Types, Requests
<1>8. ASSUME NEW w \in Writes, WriteOK(w) PROVE Fenced'
    BY <1>8, RequestsAssumption DEF WriteOK, Goto, Types, Requests
<1>9. ASSUME NEW w \in Writes, WriteError(w) PROVE Fenced'
    BY <1>9, RequestsAssumption DEF WriteError, Goto, Types, Requests
<1>10. ASSUME NEW w \in Writes, LateWrite(w) PROVE Fenced'
    BY <1>10 DEF LateWrite
<1>11. ASSUME NEW w \in Writes, Purge(w) PROVE Fenced'
    <2>1. /\ generation' = generation + 1 /\ UNCHANGED <<fillGen, preClear>>
          /\ \A r \in Gets : phase'[r] = phase[r]
        BY <1>11, RequestsAssumption DEF Purge, Goto, Types, Requests
    <2>2. QED
        BY <2>1 DEF Types
<1>12. CASE Clear
    <2>1. /\ generation' = generation + 1 /\ UNCHANGED <<fillGen, phase>> /\ preClear' = Fetching
        BY <1>12 DEF Clear
    <2>2. \A r \in Gets : fillGen[r] <= generation /\ fillGen[r] \in Nat /\ generation \in Nat
        BY DEF UpToDate, Types
    <2>3. QED
        BY <2>1, <2>2 DEF Fetching
<1>13. ASSUME NEW k \in Keys, Tick(k) PROVE Fenced'
    BY <1>13 DEF Tick
<1>14. CASE DeleteStep
    BY <1>14 DEF DeleteStep, Goto, Types, Requests
<1>15. CASE QuietStep
    BY <1>15 DEF QuietStep
<1>16. QED
    BY <1>1, <1>2, <1>3, <1>4, <1>5, <1>6, <1>7, <1>8, <1>9, <1>10, <1>11, <1>12, <1>13,
       <1>14, <1>15, Kinds

\* A store needs the generation of the moment, which no fetch from before the last
\* Clear has.
LEMMA ClearedStep ==
    Types /\ Begun /\ Indexed /\ Fenced /\ ClearedStaysCleared /\ [Next]_vars
        => ClearedStaysCleared'
<1> SUFFICES ASSUME Types, Begun, Indexed, Fenced, ClearedStaysCleared, [Next]_vars
             PROVE  ClearedStaysCleared'
    OBVIOUS
<1> USE DEF ClearedStaysCleared, frame, store, local, resource, reload
<1>1. ASSUME NEW r \in Requests, Begin(r) PROVE ClearedStaysCleared'
    BY <1>1 DEF Begin, Present
<1>2. ASSUME NEW r \in Gets, LocalStep(r) PROVE ClearedStaysCleared'
    BY <1>2 DEF LocalStep, Present
<1>3. ASSUME NEW r \in Gets, GenerationStep(r) PROVE ClearedStaysCleared'
    BY <1>3 DEF GenerationStep, Present
<1>4. ASSUME NEW r \in Gets, ServeStep(r) PROVE ClearedStaysCleared'
    BY <1>4 DEF ServeStep, Present
<1>5. ASSUME NEW r \in Gets, ErrorStep(r) PROVE ClearedStaysCleared'
    BY <1>5 DEF ErrorStep, Present
<1>6. ASSUME NEW r \in Gets, StoreStep(r) PROVE ClearedStaysCleared'
    <2>1. /\ key[r] \in Keys /\ phase[r] = "fetched" /\ generation = fillGen[r]
          /\ UNCHANGED preClear
        BY <1>6 DEF StoreStep, Begun
    <2>2. r \notin preClear
        BY <2>1 DEF Fenced, Types
    <2>3. \A k \in Present' : (items'[k].by = r) \/ (k \in Present /\ items'[k] = items[k])
        <3>1. PICK s \in Sizes : Insert(r, s)
            BY <1>6 DEF StoreStep
        <3>2. QED
            BY <2>1, <3>1, InsertEffect
    <2>4. QED
        BY <2>1, <2>2, <2>3
<1>7. ASSUME NEW r \in Gets, FetchOK(r) PROVE ClearedStaysCleared'
    BY <1>7 DEF FetchOK, Present
<1>8. ASSUME NEW w \in Writes, WriteOK(w) PROVE ClearedStaysCleared'
    BY <1>8 DEF WriteOK, Present
<1>9. ASSUME NEW w \in Writes, WriteError(w) PROVE ClearedStaysCleared'
    BY <1>9 DEF WriteError, Present
<1>10. ASSUME NEW w \in Writes, LateWrite(w) PROVE ClearedStaysCleared'
    BY <1>10 DEF LateWrite, Present
<1>11. ASSUME NEW w \in Writes, Purge(w) PROVE ClearedStaysCleared'
    BY <1>11, DeleteEffect DEF Purge
<1>12. CASE Clear
    BY <1>12 DEF Clear, Present
<1>13. ASSUME NEW k \in Keys, Tick(k) PROVE ClearedStaysCleared'
    BY <1>13, TickEffect DEF Tick
<1>14. CASE DeleteStep
    BY <1>14, DeleteEffect DEF DeleteStep
<1>15. CASE QuietStep
    BY <1>15 DEF QuietStep, Present
<1>16. QED
    BY <1>1, <1>2, <1>3, <1>4, <1>5, <1>6, <1>7, <1>8, <1>9, <1>10, <1>11, <1>12, <1>13,
       <1>14, <1>15, Kinds

-----------------------------------------------------------------------------
(* The invariant and what follows from it                                    *)

\* The cache is empty, nobody has begun, and no version but the first exists.
LEMMA InitIInv == Init => IInv
<1> SUFFICES ASSUME Init PROVE IInv
    OBVIOUS
<1> USE DEF Init
<1>1. Present = {}
    BY DEF Present
<1>2. Types
    BY DEF Types, GetPhases, Replies, NoReply
<1>3. Begun /\ Known
    BY DEF Begun, Known, NoReply, Requests
<1>4. Indexed
    BY <1>1, FS_EmptySet, SizesAssumption DEF Indexed
<1>5. Owned /\ CacheCoherent /\ ClearedStaysCleared
    BY <1>1 DEF Owned, CacheCoherent, ClearedStaysCleared
<1>6. UpToDate /\ ReadYourWrites /\ Fenced
    BY DEF UpToDate, ReadYourWrites, Fenced, NoReply, Requests
<1>7. QED
    BY <1>2, <1>3, <1>4, <1>5, <1>6 DEF IInv

\* Whatever requests, purges, reloads, clock and cleaner do, the invariant holds.
THEOREM Inductive == Spec => []IInv
<1>1. IInv /\ [Next]_vars => IInv'
    BY TypesStep, BegunStep, KnownStep, IndexedStep, OwnedStep, UpToDateStep, CoherentStep,
       ReadStep, FencedStep, ClearedStep DEF IInv
<1>2. QED
    BY InitIInv, <1>1, PTL DEF Spec

\* No entry of the response cache is older than a write whose client was told of it:
\* neither a fetch under way nor an entry missing from the target index escapes a
\* purge.
THEOREM Coherent == Spec => []CacheCoherent
<1>1. IInv => CacheCoherent
    BY DEF IInv
<1>2. QED
    BY Inductive, <1>1, PTL

\* A GET is never answered with less than was known when it began or, if the cache
\* answers it, when the cache was read, whether fresh or as a stale-if-error replay.
THEOREM ReadsOwnWrites == Spec => []ReadYourWrites
<1>1. IInv => ReadYourWrites
    BY DEF IInv
<1>2. QED
    BY Inductive, <1>1, PTL

\* A response fetched before the cache was cleared for a reload does not enter it
\* afterwards, however late it is stored.
THEOREM StaysCleared == Spec => []ClearedStaysCleared
<1>1. IInv => ClearedStaysCleared
    BY DEF IInv
<1>2. QED
    BY Inductive, <1>1, PTL

-----------------------------------------------------------------------------
(* The size of the store                                                     *)

\* A set of keys has finitely many bytes.
LEMMA SizeType ==
    ASSUME NEW it, NEW K \in SUBSET Keys
    PROVE  IsFiniteSet(Bytes(it, K)) /\ SizeIn(it, K) \in Nat
<1>1. IsFiniteSet(K) /\ IsFiniteSet(1..MaxSize)
    <2>1. 1 \in Int /\ MaxSize \in Int
        BY SizesAssumption
    <2>2. QED
        BY <2>1, RequestsAssumption, FS_Subset, FS_Interval
<1>2. IsFiniteSet(K \X (1..MaxSize))
    BY <1>1, FS_Product
<1>3. Bytes(it, K) \in SUBSET (K \X (1..MaxSize))
    BY DEF Bytes
<1>4. IsFiniteSet(Bytes(it, K))
    BY <1>2, <1>3, FS_Subset
<1>5. QED
    BY <1>4, FS_CardinalityType DEF SizeIn

\* What is taken away is taken off.
LEMMA SizeRest ==
    ASSUME NEW it, NEW K \in SUBSET Keys, NEW L \in SUBSET K
    PROVE  SizeIn(it, K \ L) = SizeIn(it, K) - SizeIn(it, L)
<1>1. /\ Bytes(it, K \ L) = Bytes(it, K) \ Bytes(it, L)
      /\ Bytes(it, K) \cap Bytes(it, L) = Bytes(it, L)
    BY DEF Bytes
<1>2. Cardinality(Bytes(it, K) \ Bytes(it, L))
         = Cardinality(Bytes(it, K)) - Cardinality(Bytes(it, K) \cap Bytes(it, L))
    BY SizeType, FS_Difference
<1>3. QED
    BY <1>1, <1>2 DEF SizeIn

\* Only the sizes of the entries count.
LEMMA SizeSame ==
    ASSUME NEW it, NEW jt, NEW K \in SUBSET Keys, \A k \in K : it[k].size = jt[k].size
    PROVE  SizeIn(it, K) = SizeIn(jt, K)
<1>1. Bytes(it, K) = Bytes(jt, K)
    BY DEF Bytes
<1>2. QED
    BY <1>1 DEF SizeIn

\* An entry weighs its size.
LEMMA SizeOne ==
    ASSUME NEW it, NEW k \in Keys, it[k].size \in Sizes
    PROVE  SizeIn(it, {k}) = it[k].size
<1> DEFINE n == it[k].size
<1>1. n \in 1..MaxSize /\ MaxSize \in Nat /\ 1 \in Int /\ n \in Int /\ ~(1 > n)
    <2>1. n \in 1..MaxSize /\ MaxSize \in Nat
        BY SizesAssumption
    <2>2. QED
        BY <2>1
<1>2. Bytes(it, {k}) = {k} \X (1..n)
    <2>1. ASSUME NEW b \in Bytes(it, {k}) PROVE b \in {k} \X (1..n)
        BY <1>1 DEF Bytes
    <2>2. ASSUME NEW b \in {k} \X (1..n) PROVE b \in Bytes(it, {k})
        <3>1. b \in {k} \X (1..MaxSize) /\ b[1] = k /\ b[2] <= n
            BY <1>1
        <3>2. QED
            BY <3>1 DEF Bytes
    <2>3. QED
        BY <2>1, <2>2
<1> HIDE DEF n
<1>3. IsFiniteSet(1..n) /\ Cardinality(1..n) = n - 1 + 1
    BY <1>1, FS_Interval
<1>4. IsFiniteSet({k}) /\ Cardinality({k}) = 1
    BY FS_Singleton
<1>5. Cardinality({k} \X (1..n)) = Cardinality({k}) * Cardinality(1..n)
    BY <1>3, <1>4, FS_Product
<1>6. Cardinality({k} \X (1..n)) = n
    BY <1>1, <1>3, <1>4, <1>5
<1>7. QED
    BY <1>2, <1>6 DEF SizeIn, n

\* The size counter describes the entries and is within its limit.
Measured == curSize = SizeIn(items, Present) /\ curSize <= MaxSize

\* Nothing weighs nothing.
LEMMA SizeNone == \A it : SizeIn(it, {}) = 0
    BY FS_EmptySet DEF SizeIn, Bytes

\* The counter follows a deletion.
LEMMA DeleteSize ==
    ASSUME Types, Indexed, Measured, NEW K \in SUBSET Present, Delete(K)
    PROVE  Measured'
<1>1. Present \in SUBSET Keys
    BY DEF Present
<1>2. /\ Present' = Present \ K
      /\ \A k \in Present' : items'[k] = items[k]
    BY DeleteEffect
<1>3. SizeIn(items', Present \ K) = SizeIn(items, Present \ K)
    BY <1>1, <1>2, SizeSame
<1>4. SizeIn(items, Present \ K) = SizeIn(items, Present) - SizeIn(items, K)
    BY <1>1, SizeRest
<1>5. curSize' = curSize - SizeIn(items, K)
    BY DEF Delete
<1>6. SizeIn(items, Present) \in Nat /\ SizeIn(items, K) \in Nat
    BY <1>1, SizeType
<1>7. QED
    BY <1>2, <1>3, <1>4, <1>5, <1>6, SizesAssumption DEF Measured

\* An eviction removes entries, and enough of them for the limit on their size.
LEMMA EvictionsSize ==
    ASSUME NEW it, NEW size \in Nat, NEW count, NEW V \in Evictions(it, size, count),
           size = SizeIn(it, {k \in Keys : it[k] # None})
    PROVE  /\ V \in SUBSET {k \in Keys : it[k] # None}
           /\ size - SizeIn(it, V) <= MaxSize
<1> DEFINE All == {k \in Keys : it[k] # None}
<1>1. V \in SUBSET All /\ (V = All \/ ~(size - SizeIn(it, V) > MaxSize))
    BY DEF Evictions
<1>2. SizeIn(it, V) \in Nat
    BY <1>1, SizeType
<1>3. V = All => size - SizeIn(it, V) = 0
    <2> HIDE DEF All
    <2>1. size = SizeIn(it, All)
        BY DEF All
    <2>2. QED
        BY <2>1
<1>4. QED
    BY <1>1, <1>2, <1>3, SizesAssumption

\* The counter follows a store and what it evicts.
LEMMA InsertSize ==
    ASSUME Types, Indexed, Measured, NEW r \in Gets, NEW s \in Sizes, key[r] \in Keys,
           Insert(r, s)
    PROVE  Measured'
<1> DEFINE e == [by |-> r, age |-> "fresh", size |-> s]
           it == [items EXCEPT ![key[r]] = e]
           old == {key[r]} \cap Present
           size == curSize + s - SizeIn(items, old)
           count == entryCount + (IF key[r] \in Present THEN 0 ELSE 1)
           All == {k \in Keys : it[k] # None}
<1>1. e.size = s /\ e # None
    BY NoneAssumption DEF Ages
<1> HIDE DEF e
<1>2. /\ it[key[r]] = e /\ \A k \in Keys \ {key[r]} : it[k] = items[k]
    BY DEF Types
<1>3. PICK V \in Evictions(it, size, count) :
        /\ items' = [x \in Keys |-> IF x \in V THEN None ELSE it[x]]
        /\ curSize' = size - SizeIn(it, V)
    BY DEF Insert, e
<1>4. /\ All = Present \cup {key[r]} /\ All \in SUBSET Keys /\ {key[r]} \in SUBSET All
      /\ Present \in SUBSET Keys /\ old \in SUBSET Present
      /\ All \ {key[r]} = Present \ old
    BY <1>1, <1>2 DEF Present
<1> HIDE DEF it, old
<1>5. size = SizeIn(it, All) /\ size \in Nat
    <2>1. SizeIn(it, {key[r]}) = s
        BY <1>1, <1>2, SizeOne
    <2>2. SizeIn(it, All \ {key[r]}) = SizeIn(it, All) - s
        BY <1>4, <2>1, SizeRest
    <2>3. SizeIn(items, Present \ old) = SizeIn(items, Present) - SizeIn(items, old)
        BY <1>4, SizeRest
    <2>4. SizeIn(it, All \ {key[r]}) = SizeIn(items, Present \ old)
        <3>1. /\ All \ {key[r]} \in SUBSET Keys
              /\ \A k \in All \ {key[r]} : it[k].size = items[k].size
            BY <1>2, <1>4
        <3>2. SizeIn(it, All \ {key[r]}) = SizeIn(items, All \ {key[r]})
            BY <3>1, SizeSame
        <3>3. QED
            BY <1>4, <3>2
    <2>5. /\ SizeIn(it, All) \in Nat /\ SizeIn(items, Present) \in Nat
          /\ SizeIn(items, old) \in Nat /\ s \in Nat
        BY <1>4, SizeType, SizesAssumption
    <2>6. curSize = SizeIn(items, Present)
        BY DEF Measured
    <2>7. QED
        BY <2>2, <2>3, <2>4, <2>5, <2>6
<1> HIDE DEF size, count
<1>6. V \in SUBSET All /\ size - SizeIn(it, V) <= MaxSize
    BY <1>3, <1>5, EvictionsSize
<1>7. SizeIn(it, All \ V) = size - SizeIn(it, V)
    BY <1>4, <1>5, <1>6, SizeRest
<1>8. /\ Present' = All \ V
      /\ \A k \in All \ V : items'[k].size = it[k].size
    BY <1>3, <1>6 DEF Present
<1>9. SizeIn(items', All \ V) = SizeIn(it, All \ V)
    BY <1>4, <1>8, SizeSame
<1>10. QED
    BY <1>3, <1>6, <1>7, <1>8, <1>9 DEF Measured

\* An entry does not change its size as it ages.
LEMMA TickSize ==
    ASSUME Types, Measured, NEW k \in Keys, Tick(k)
    PROVE  Measured'
<1>1. PICK a \in Ages : items' = [items EXCEPT ![k].age = a]
    BY DEF Tick
<1>2. items[k] \in EntryType
    BY DEF Tick, Types, Present
<1>3. [items[k] EXCEPT !.age = a].size = items[k].size
    BY <1>2 DEF EntryType
<1>4. \A x \in Keys : items'[x].size = items[x].size
    BY <1>1, <1>3 DEF Types
<1>5. Present' = Present /\ curSize' = curSize /\ Present \in SUBSET Keys
    BY TickEffect DEF Tick, Present
<1>6. SizeIn(items', Present) = SizeIn(items, Present)
    BY <1>4, <1>5, SizeSame
<1>7. QED
    BY <1>5, <1>6 DEF Measured

\* Store, purge, lookup and cleaner leave the size right.
LEMMA MeasuredStep == IInv /\ Measured /\ [Next]_vars => Measured'
<1> SUFFICES ASSUME IInv, Measured, [Next]_vars PROVE Measured'
    OBVIOUS
<1> USE DEF frame, store, local, resource, reload
<1>1. Types /\ Begun /\ Indexed
    BY DEF IInv
<1>2. CASE UNCHANGED <<items, curSize>>
    BY <1>2 DEF Measured, Present
<1>3. ASSUME NEW r \in Gets, StoreStep(r) PROVE Measured'
    BY <1>1, <1>3, InsertSize DEF StoreStep, Begun
<1>4. ASSUME NEW w \in Writes, Purge(w) PROVE Measured'
    BY <1>1, <1>4, DeleteSize DEF Purge
<1>5. CASE Clear
    <2>1. Present' = {} /\ curSize' = 0
        BY <1>5 DEF Clear, Present
    <2>2. QED
        BY <2>1, SizeNone, SizesAssumption DEF Measured
<1>6. ASSUME NEW k \in Keys, Tick(k) PROVE Measured'
    BY <1>1, <1>6, TickSize
<1>7. CASE DeleteStep
    BY <1>1, <1>7, DeleteSize DEF DeleteStep
<1>8. ASSUME NEW r \in Gets, LocalStep(r) \/ GenerationStep(r) \/ ServeStep(r)
                             \/ ErrorStep(r) \/ FetchOK(r)
      PROVE  UNCHANGED <<items, curSize>>
    BY <1>8 DEF LocalStep, GenerationStep, ServeStep, ErrorStep, FetchOK
<1>9. ASSUME NEW r \in Requests, Begin(r) PROVE UNCHANGED <<items, curSize>>
    BY <1>9 DEF Begin
<1>10. ASSUME NEW w \in Writes, WriteOK(w) \/ WriteError(w) \/ LateWrite(w)
       PROVE  UNCHANGED <<items, curSize>>
    BY <1>10 DEF WriteOK, WriteError, LateWrite
<1>11. CASE QuietStep
    BY <1>2, <1>11 DEF QuietStep
<1>12. QED
    BY <1>2, <1>3, <1>4, <1>5, <1>6, <1>7, <1>8, <1>9, <1>10, <1>11, Kinds

\* The size counter is exact, and the cache is never heavier than it may be.
THEOREM SizeKept == Spec => []Measured
<1>1. Init => Measured
    <2>1. Init => Present = {} /\ curSize = 0
        BY DEF Init, Present
    <2>2. QED
        BY <2>1, SizeNone, SizesAssumption DEF Measured
<1>2. IInv /\ Measured /\ [Next]_vars => Measured'
    BY MeasuredStep
<1>3. QED
    BY Inductive, <1>1, <1>2, PTL DEF Spec

\* Index and counters describe the entries exactly and stay within their limits,
\* whatever lookups, stores, purges, reloads and the cleaner do at the same time.
THEOREM Bounded == Spec => []CacheBounded
<1>1. IInv /\ Measured => CacheBounded
    BY DEF IInv, Indexed, Measured, CacheBounded
<1>2. QED
    BY Inductive, SizeKept, <1>1, PTL

-----------------------------------------------------------------------------
(* The types of what the invariant leaves out                                *)

Others ==
    /\ fills \in [Keys -> Gets \cup {None}]
    /\ cfg \in [Requests -> Nat]
    /\ staleGen \in [Gets -> Nat]
    /\ backup \in [Gets -> Gets \cup {None}] /\ seen \in [Gets -> Gets \cup {None}]
    /\ published \in Nat /\ clearing \in BOOLEAN

others == <<fills, cfg, staleGen, backup, seen, published, clearing>>

\* Every step keeps them.
LEMMA OthersStep == IInv /\ Others /\ [Next]_vars => Others'
<1> SUFFICES ASSUME IInv, Others, [Next]_vars PROVE Others'
    OBVIOUS
<1> USE DEF store, local, resource, reload
<1>1. /\ generation \in Nat /\ key \in [Gets -> Keys \cup {None}]
      /\ items \in [Keys -> EntryType \cup {None}]
      /\ \A r \in Gets : phase[r] # "idle" => key[r] \in Keys
    BY DEF IInv, Types, Begun
<1>2. CASE UNCHANGED others
    BY <1>2 DEF others, Others
<1>3. ASSUME NEW r \in Requests, Begin(r) PROVE Others'
    BY <1>3 DEF Begin, Others
<1>4. ASSUME NEW r \in Gets, ReadStaleGeneration(r) PROVE Others'
    BY <1>1, <1>4 DEF ReadStaleGeneration, Others
<1>5. ASSUME NEW r \in Gets, LookupStale(r) PROVE Others'
    <2>1. LookupStaleIfGeneration(r) => items[key[r]].by \in Gets
        BY <1>1, <1>5 DEF LookupStale, LookupStaleIfGeneration, Holds, EntryType
    <2>2. QED
        BY <1>5, <2>1 DEF LookupStale, Others
<1>6. ASSUME NEW r \in Gets, GetExpired(r) PROVE Others'
    <2>1. items[key[r]].by \in Gets
        BY <1>1, <1>6 DEF GetExpired, EntryType
    <2>2. QED
        BY <1>6, <2>1 DEF GetExpired, Others
<1>7. ASSUME NEW r \in Gets, GetDelete(r) \/ FillDone(r) \/ FillCancelled(r) PROVE Others'
    BY <1>7 DEF GetDelete, FillDone, FillCancelled, Others
<1>8. ASSUME NEW r \in Gets, BeginFill(r) PROVE Others'
    <2>1. fills[key[r]] \in Gets \cup {None}
        BY <1>1, <1>8 DEF BeginFill, Others
    <2>2. QED
        BY <1>8, <2>1 DEF BeginFill, Others
<1>9. ASSUME NEW r \in Gets, Respond(r) PROVE Others'
    BY <1>9 DEF Respond, Others
<1>10. ASSUME NEW r \in Gets,
              GetMiss(r) \/ GetHit(r) \/ Recheck(r) \/ ReadFillGeneration(r) \/ FetchOK(r)
              \/ FetchError(r) \/ Fallback(r) \/ ForwardUncached(r) \/ Store(r)
       PROVE  UNCHANGED others
    BY <1>10 DEF GetMiss, GetHit, Recheck, ReadFillGeneration, FetchOK, FetchError, Fallback,
                 ForwardUncached, Store, others
<1>11. ASSUME NEW w \in Writes, WriteStep(w) \/ LateWrite(w) PROVE UNCHANGED others
    BY <1>11 DEF WriteStep, WriteOK, WriteError, Purge, LateWrite, others
<1>12. CASE Publish \/ Clear
    <2>1. published' \in Nat /\ clearing' \in BOOLEAN
        <3>1. CASE Publish
            <4>1. published' = published + 1 /\ clearing' = TRUE
                BY <3>1 DEF Publish
            <4>2. QED
                BY <4>1 DEF Others
        <3>2. CASE Clear
            <4>1. published' = published /\ clearing' = FALSE
                BY <3>2 DEF Clear
            <4>2. QED
                BY <4>1 DEF Others
        <3>3. QED
            BY <1>12, <3>1, <3>2
    <2>2. UNCHANGED <<fills, cfg, staleGen, backup, seen>>
        BY <1>12 DEF Publish, Clear
    <2>3. QED
        BY <2>1, <2>2 DEF Others
<1>13. CASE CleanExpired
    BY <1>2, <1>13 DEF CleanExpired, others
<1>14. ASSUME NEW k \in Keys, Tick(k) PROVE UNCHANGED others
    BY <1>14 DEF Tick, others
<1>15. CASE UNCHANGED vars
    BY <1>2, <1>15 DEF vars, others
<1>16. QED
    BY <1>2, <1>3, <1>4, <1>5, <1>6, <1>7, <1>8, <1>9, <1>10, <1>11, <1>12, <1>13, <1>14,
       <1>15 DEF Next, GetStep

\* Every variable keeps its type.
THEOREM TypeCorrect == Spec => []TypeOK
<1>1. Init => Others
    <2> SUFFICES ASSUME Init PROVE Others
        OBVIOUS
    <2>1. /\ cfg = [r \in Requests |-> 0] /\ staleGen = [r \in Gets |-> 0]
          /\ published = 0 /\ clearing = FALSE
        BY DEF Init
    <2>2. /\ fills = [k \in Keys |-> None]
          /\ backup = [r \in Gets |-> None] /\ seen = [r \in Gets |-> None]
        BY DEF Init
    <2>3. QED
        BY <2>1, <2>2 DEF Others
<1>2. IInv /\ Others /\ [Next]_vars => Others'
    BY OthersStep
<1>3. Spec => []Others
    BY Inductive, <1>1, <1>2, PTL DEF Spec
<1>4. IInv /\ Measured /\ Others => TypeOK
    <2> SUFFICES ASSUME IInv, Measured, Others PROVE TypeOK
        OBVIOUS
    <2>1. Present \in SUBSET Keys
        BY DEF Present
    <2>2. curSize \in Nat
        BY <2>1, SizeType DEF Measured
    <2>3. entryCount \in Nat
        BY <2>1, RequestsAssumption, FS_Subset, FS_CardinalityType DEF IInv, Indexed
    <2>4. QED
        BY <2>2, <2>3 DEF IInv, Types, Others, TypeOK, EntryType
<1>5. QED
    BY Inductive, SizeKept, <1>3, <1>4, PTL

-----------------------------------------------------------------------------
(* The cache keeps the contract of its clients                               *)

\* A GET has no answer before it has fetched or been served.
Unanswered ==
    \A r \in Gets : phase[r] \notin {"fetched", "respond", "done"} => reply[r] = NoReply

\* What an entry shows, or a response that may become one, is a version there is.
Existing ==
    /\ \A k \in Present : EntryVersion(items[k]) <= origin[PathOf[k]]
    /\ \A r \in Gets : phase[r] = "fetched" => reply[r].ver <= origin[PathOf[key[r]]]

\* Answers come with the steps that lead to those phases, and stay.
LEMMA UnansweredStep == IInv /\ Unanswered /\ [Next]_vars => Unanswered'
<1> SUFFICES ASSUME IInv, Unanswered, [Next]_vars PROVE Unanswered'
    OBVIOUS
<1> USE DEF Unanswered, frame, store, local, resource, reload
<1>0. Types /\ Begun /\ CacheCoherent
    BY DEF IInv
<1>1. ASSUME NEW r \in Requests, Begin(r) PROVE Unanswered'
    BY <1>0, <1>1 DEF Begin, Goto, Types, Requests
<1>2. ASSUME NEW r \in Gets, LocalStep(r) PROVE Unanswered'
    <2>1. PICK m \in LocalMoves : phase[r] = m[1] /\ phase' = [phase EXCEPT ![r] = m[2]]
        BY <1>2 DEF LocalStep, Goto
    <2>2. m[1] \in {"fetched", "respond", "done"} => m[2] \in {"respond", "done"}
        BY DEF LocalMoves
    <2>3. UNCHANGED reply
        BY <1>2 DEF LocalStep
    <2>4. QED
        BY <1>0, <2>1, <2>2, <2>3 DEF Types, Requests
<1>3. ASSUME NEW r \in Gets, GenerationStep(r) PROVE Unanswered'
    BY <1>0, <1>3 DEF GenerationStep, Goto, Types, Requests
<1>4. ASSUME NEW r \in Gets, ServeStep(r) PROVE Unanswered'
    BY <1>0, <1>4, ServeEffect DEF Types, Requests
<1>5. ASSUME NEW r \in Gets, ErrorStep(r) PROVE Unanswered'
    BY <1>0, <1>5, FetchEffect DEF ErrorStep, Goto, Types, Requests
<1>6. ASSUME NEW r \in Gets, StoreStep(r) PROVE Unanswered'
    BY <1>0, <1>6 DEF StoreStep, Goto, Types, Requests
<1>7. ASSUME NEW r \in Gets, FetchOK(r) PROVE Unanswered'
    BY <1>0, <1>7 DEF FetchOK, Reply, Goto, Types, Requests
<1>8. ASSUME NEW w \in Writes, WriteOK(w) \/ WriteError(w) PROVE Unanswered'
    BY <1>0, <1>8, RequestsAssumption DEF WriteOK, WriteError, Reply, Goto, Types, Requests
<1>9. ASSUME NEW w \in Writes, LateWrite(w) PROVE Unanswered'
    BY <1>9 DEF LateWrite
<1>10. ASSUME NEW w \in Writes, Purge(w) PROVE Unanswered'
    BY <1>0, <1>10, RequestsAssumption DEF Purge, Goto, Types, Requests
<1>11. CASE Clear
    BY <1>11 DEF Clear
<1>12. ASSUME NEW k \in Keys, Tick(k) PROVE Unanswered'
    BY <1>12 DEF Tick
<1>13. CASE DeleteStep
    BY <1>0, <1>13 DEF DeleteStep, Goto, Types, Requests
<1>14. CASE QuietStep
    BY <1>14 DEF QuietStep
<1>15. QED
    BY <1>1, <1>2, <1>3, <1>4, <1>5, <1>6, <1>7, <1>8, <1>9, <1>10, <1>11, <1>12, <1>13,
       <1>14, Kinds

\* Nothing but a change of the resource moves its version, and that moves it up.
LEMMA ExistingKept ==
    ASSUME IInv, Existing, Present' \subseteq Present,
           \A k \in Present' : items'[k].by = items[k].by,
           \A k \in Present : reply'[items[k].by] = reply[items[k].by],
           \A p \in Paths : origin[p] <= origin'[p] /\ origin'[p] \in Nat,
           \A r \in Gets : phase'[r] = "fetched" =>
              phase[r] = "fetched" /\ key'[r] = key[r] /\ reply'[r] = reply[r]
    PROVE  Existing'
<1>1. \A p \in Paths : origin[p] \in Nat
    BY DEF IInv, Types
<1>2. ASSUME NEW k \in Present' PROVE EntryVersion(items[k])' <= origin'[PathOf[k]]
    <2>1. PathOf[k] \in Paths /\ k \in Present /\ items[k].by \in Gets
        BY PathOfAssumption DEF IInv, Types, EntryType, Present
    <2>2. /\ reply[items[k].by].ver \in Nat
          /\ reply[items[k].by].ver <= origin[PathOf[k]]
        BY <2>1 DEF IInv, Types, Requests, Replies, Existing, EntryVersion
    <2>3. QED
        BY <1>1, <2>1, <2>2 DEF EntryVersion
<1>3. ASSUME NEW r \in Gets, phase'[r] = "fetched"
      PROVE  reply'[r].ver <= origin'[PathOf[key'[r]]]
    <2>1. /\ phase[r] = "fetched" /\ key'[r] = key[r] /\ reply'[r] = reply[r]
          /\ PathOf[key[r]] \in Paths /\ reply[r].ver \in Nat
        BY <1>3, PathOfAssumption DEF IInv, Types, Begun, Requests, Replies
    <2>2. QED
        BY <1>1, <2>1 DEF Existing
<1>4. QED
    BY <1>2, <1>3 DEF Existing

LEMMA ExistingStep == IInv /\ Existing /\ [Next]_vars => Existing'
<1> SUFFICES ASSUME IInv, Existing, [Next]_vars PROVE Existing'
    OBVIOUS
<1> USE DEF frame, store, local, resource, reload
<1>0. Types /\ Begun /\ Indexed /\ Known /\ Owned /\ CacheCoherent
    BY DEF IInv
<1>a. \A p \in Paths : origin[p] \in Nat /\ origin[p] <= origin[p]
    BY <1>0 DEF Types
<1>b. \A k \in Present : items[k].by \in Gets /\ phase[items[k].by] \in {"respond", "done"}
    BY <1>0 DEF Owned, Present, Types, EntryType
<1>1. ASSUME NEW r \in Requests, Begin(r) PROVE Existing'
    <2>1. /\ UNCHANGED <<items, reply, origin>>
          /\ phase[r] = "idle" /\ phase' = [phase EXCEPT ![r] = "picked"]
          /\ \A x \in Gets \ {r} : key'[x] = key[x]
        BY <1>0, <1>1 DEF Begin, Goto, Types
    <2>2. \A x \in Gets : phase'[x] = "fetched" => phase[x] = "fetched" /\ key'[x] = key[x]
        BY <1>0, <2>1 DEF Types, Requests
    <2>3. QED
        BY <1>a, <2>1, <2>2, ExistingKept DEF Present
<1>2. ASSUME NEW r \in Gets, LocalStep(r) PROVE Existing'
    <2>1. \A x \in Gets : phase'[x] = "fetched" => phase[x] = "fetched"
        BY <1>0, <1>2, LocalEffect DEF Requests
    <2>2. UNCHANGED <<items, reply, origin, key>>
        BY <1>2 DEF LocalStep
    <2>3. QED
        BY <1>a, <2>1, <2>2, ExistingKept DEF Present
<1>3. ASSUME NEW r \in Gets, GenerationStep(r) PROVE Existing'
    <2>1. \A x \in Gets : phase'[x] = "fetched" => phase[x] = "fetched"
        BY <1>0, <1>3 DEF GenerationStep, Goto, Types, Requests
    <2>2. UNCHANGED <<items, reply, origin, key>>
        BY <1>3 DEF GenerationStep
    <2>3. QED
        BY <1>a, <2>1, <2>2, ExistingKept DEF Present
<1>4. ASSUME NEW r \in Gets, ServeStep(r) \/ ErrorStep(r) PROVE Existing'
    <2>1. /\ phase' = [phase EXCEPT ![r] = "respond"] /\ phase[r] \notin {"respond", "done"}
          /\ \A x \in Requests \ {r} : reply'[x] = reply[x]
        BY <1>0, <1>4, ServeEffect, FetchEffect DEF ErrorStep, Goto, Requests
    <2>2. UNCHANGED <<items, origin, key>>
        BY <1>4 DEF ServeStep, ErrorStep
    <2>3. \A x \in Gets : phase'[x] = "fetched" => phase[x] = "fetched" /\ reply'[x] = reply[x]
        BY <1>0, <2>1 DEF Types, Requests
    <2>4. \A k \in Present : reply'[items[k].by] = reply[items[k].by]
        BY <1>b, <2>1 DEF Requests
    <2>5. QED
        BY <1>a, <2>2, <2>3, <2>4, ExistingKept DEF Present
<1>5. ASSUME NEW r \in Gets, StoreStep(r) PROVE Existing'
    <2>1. /\ key[r] \in Keys /\ phase[r] = "fetched" /\ UNCHANGED <<reply, origin, key>>
          /\ phase' = [phase EXCEPT ![r] = "respond"]
        BY <1>0, <1>5 DEF StoreStep, Begun, Goto
    <2>2. \A k \in Present' : (k = key[r] /\ items'[k].by = r) \/ (k \in Present /\ items'[k] = items[k])
        <3>1. PICK s \in Sizes : Insert(r, s)
            BY <1>5 DEF StoreStep
        <3>2. QED
            BY <1>0, <2>1, <3>1, InsertEffect
    <2>3. \A k \in Present' : EntryVersion(items[k])' <= origin'[PathOf[k]]
        BY <2>1, <2>2 DEF Existing, EntryVersion
    <2>4. \A x \in Gets : phase'[x] = "fetched" => phase[x] = "fetched"
        BY <1>0, <2>1 DEF Types, Requests
    <2>5. QED
        BY <2>1, <2>3, <2>4 DEF Existing
<1>6. ASSUME NEW r \in Gets, FetchOK(r) PROVE Existing'
    <2>1. /\ phase[r] = "fetch" /\ phase' = [phase EXCEPT ![r] = "fetched"]
          /\ UNCHANGED <<items, origin, key>>
          /\ origin[PathOf[key[r]]] \in Nat
        BY <1>0, <1>6, PathOfAssumption DEF FetchOK, Goto, Begun, Types
    <2>2. /\ reply'[r].ver = origin[PathOf[key[r]]]
          /\ \A x \in Requests \ {r} : reply'[x] = reply[x]
        BY <1>0, <1>6, <2>1, FetchEffect DEF FetchOK, Requests
    <2>3. \A k \in Present' : EntryVersion(items[k])' <= origin'[PathOf[k]]
        BY <1>b, <2>1, <2>2 DEF Existing, EntryVersion, Present, Requests
    <2>4. ASSUME NEW x \in Gets, phase'[x] = "fetched"
          PROVE  reply'[x].ver <= origin'[PathOf[key'[x]]]
        <3>1. CASE x = r
            BY <2>1, <2>2, <3>1
        <3>2. CASE x # r
            <4>1. phase[x] = "fetched" /\ reply'[x] = reply[x]
                BY <1>0, <2>1, <2>2, <2>4, <3>2 DEF Types, Requests
            <4>2. QED
                BY <2>1, <4>1 DEF Existing
        <3>3. QED
            BY <3>1, <3>2
    <2>5. QED
        BY <2>3, <2>4 DEF Existing
<1>7. ASSUME NEW w \in Writes, WriteOK(w) \/ WriteError(w) \/ LateWrite(w) PROVE Existing'
    <2>1. \A p \in Paths : origin[p] <= origin'[p] /\ origin'[p] \in Nat
        BY <1>0, <1>7 DEF WriteOK, WriteError, LateWrite, Types
    <2>2. /\ UNCHANGED <<items, key>>
          /\ \A x \in Gets : phase'[x] = phase[x] /\ reply'[x] = reply[x]
        BY <1>0, <1>7, RequestsAssumption
        DEF WriteOK, WriteError, LateWrite, Reply, Goto, Types, Requests
    <2>3. QED
        BY <1>b, <2>1, <2>2, ExistingKept DEF Present
<1>8. ASSUME NEW w \in Writes, Purge(w) PROVE Existing'
    <2>1. /\ UNCHANGED <<key, reply, origin>> /\ \A x \in Gets : phase'[x] = phase[x]
        BY <1>0, <1>8, RequestsAssumption DEF Purge, Goto, Types, Requests
    <2>2. Present' \subseteq Present /\ \A k \in Present' : items'[k] = items[k]
        BY <1>0, <1>8, DeleteEffect DEF Purge
    <2>3. QED
        BY <1>a, <2>1, <2>2, ExistingKept
<1>9. CASE Clear
    <2>1. Present' = {} /\ UNCHANGED <<phase, key, reply, origin>>
        BY <1>9 DEF Clear, Present
    <2>2. QED
        BY <1>a, <2>1, ExistingKept
<1>10. ASSUME NEW k \in Keys, Tick(k) PROVE Existing'
    <2>1. UNCHANGED <<phase, key, reply, origin>>
        BY <1>10 DEF Tick
    <2>2. QED
        BY <1>0, <1>a, <1>10, <2>1, TickEffect, ExistingKept
<1>11. CASE DeleteStep
    <2>1. UNCHANGED <<key, reply, origin>>
        BY <1>11 DEF DeleteStep
    <2>2. \A x \in Gets : phase'[x] = "fetched" => phase[x] = "fetched"
        BY <1>0, <1>11 DEF DeleteStep, Goto, Types, Requests
    <2>3. Present' \subseteq Present /\ \A k \in Present' : items'[k] = items[k]
        BY <1>0, <1>11, DeleteEffect DEF DeleteStep
    <2>4. QED
        BY <1>a, <2>1, <2>2, <2>3, ExistingKept
<1>12. CASE QuietStep
    BY <1>12 DEF QuietStep, Existing, Present, EntryVersion
<1>13. QED
    BY <1>1, <1>2, <1>3, <1>4, <1>5, <1>6, <1>7, <1>8, <1>9, <1>10, <1>11, <1>12, Kinds

\* No answer is early, and none is of a version to come.
LEMMA Answers == Spec => [](Unanswered /\ Existing)
<1>1. Init => Unanswered /\ Existing
    <2> SUFFICES ASSUME Init PROVE Unanswered /\ Existing
        OBVIOUS
    <2>1. Present = {}
        BY DEF Init, Present
    <2>2. QED
        BY <2>1 DEF Init, Unanswered, Existing, Requests
<1>2. IInv /\ Unanswered /\ Existing /\ [Next]_vars => (Unanswered /\ Existing)'
    BY UnansweredStep, ExistingStep
<1>3. QED
    BY Inductive, <1>1, <1>2, PTL DEF Spec

\* A client sees the beginning of a request and its answer.
Asked == [r \in Gets |-> IF phase[r] = "idle" THEN None ELSE PathOf[key[r]]]
Outcomes == [r \in Gets |-> Outcome(r)]
Versions == [r \in Gets |-> reply[r].ver]

LEMMA ContractVars ==
    UNCHANGED <<origin, acked, Asked, Outcomes, Versions>> => UNCHANGED Contract!vars
    BY DEF Contract!vars, Asked, Outcomes, Versions

\* It sees nothing of a step that begins no request and answers none.
LEMMA Unseen ==
    ASSUME \A r \in Gets : /\ phase'[r] = "idle" <=> phase[r] = "idle"
                           /\ key'[r] = key[r] /\ reply'[r] = reply[r]
    PROVE  UNCHANGED <<Asked, Outcomes, Versions>>
<1>1. Asked' = Asked
    BY DEF Asked
<1>2. \A r \in Gets : Outcome(r)' = Outcome(r)
    BY DEF Outcome
<1>3. Outcomes' = Outcomes
    BY <1>2 DEF Outcomes
<1>4. Versions' = Versions
    BY DEF Versions
<1>5. QED
    BY <1>1, <1>3, <1>4

\* A GET that gets a version between what is known and what is current is answered;
\* one that gets none has failed.
LEMMA AnswerRefines ==
    ASSUME IInv, Unanswered, NEW r \in Gets,
           phase[r] \notin {"idle", "fetched", "respond", "done"},
           phase' = [phase EXCEPT ![r] = "fetched"] \/ phase' = [phase EXCEPT ![r] = "respond"],
           \A x \in Requests \ {r} : reply'[x] = reply[x],
           \/ /\ reply'[r].src \in {"hit", "stale", "fetched"}
              /\ reply'[r].ver \in acked[PathOf[key[r]]]..origin[PathOf[key[r]]]
           \/ reply'[r] = [src |-> "error", ver |-> 0],
           UNCHANGED <<key, origin, acked>>
    PROVE  Contract!Next
<1>1. /\ \A x \in Gets \ {r} : phase'[x] = phase[x] /\ reply'[x] = reply[x]
      /\ phase'[r] \in {"fetched", "respond"} /\ reply[r] = NoReply
    BY DEF IInv, Types, Requests, Unanswered
<1>2. Asked' = Asked /\ Asked[r] = PathOf[key[r]]
    BY <1>1 DEF Asked
<1>3. /\ Outcome(r) = "waiting"
      /\ \A x \in Gets \ {r} : Outcome(x)' = Outcome(x)
    BY <1>1 DEF Outcome, NoReply
<1>4. CASE /\ reply'[r].src \in {"hit", "stale", "fetched"}
           /\ reply'[r].ver \in acked[PathOf[key[r]]]..origin[PathOf[key[r]]]
    <2>1. Outcome(r)' = "answered"
        BY <1>1, <1>4 DEF Outcome
    <2>2. Outcomes[r] = "waiting" /\ Outcomes' = [Outcomes EXCEPT ![r] = "answered"]
        BY <1>3, <2>1 DEF Outcomes
    <2>3. Versions' = [Versions EXCEPT ![r] = reply'[r].ver]
        BY <1>1 DEF Versions
    <2>4. Contract!Answer(r)
        BY <1>2, <1>4, <2>2, <2>3 DEF Contract!Answer, Asked, Outcomes, Versions
    <2>5. QED
        BY <2>4 DEF Contract!Next
<1>5. CASE reply'[r] = [src |-> "error", ver |-> 0]
    <2>1. Outcome(r)' = "failed"
        BY <1>1, <1>5 DEF Outcome
    <2>2. Outcomes[r] = "waiting" /\ Outcomes' = [Outcomes EXCEPT ![r] = "failed"]
        BY <1>3, <2>1 DEF Outcomes
    <2>3. Versions' = Versions
        BY <1>1, <1>5 DEF Versions, NoReply
    <2>4. Contract!Fail(r)
        BY <1>2, <2>2, <2>3 DEF Contract!Fail, Asked, Outcomes, Versions
    <2>5. QED
        BY <2>4 DEF Contract!Next
<1>6. QED
    BY <1>4, <1>5

\* The initial states are those of the contract.
LEMMA InitRefines == Init => Contract!Init
<1> SUFFICES ASSUME Init PROVE Contract!Init
    OBVIOUS
<1>1. \A r \in Gets : phase[r] = "idle" /\ reply[r] = NoReply
    BY DEF Init, Requests
<1>2. origin = [p \in Paths |-> 0] /\ acked = [p \in Paths |-> 0]
    BY DEF Init
<1>3. Asked = [r \in Gets |-> None]
    BY <1>1 DEF Asked
<1>4. Outcomes = [r \in Gets |-> "idle"]
    BY <1>1 DEF Outcomes, Outcome
<1>5. Versions = [r \in Gets |-> 0]
    BY <1>1 DEF Versions, NoReply
<1>6. QED
    BY <1>2, <1>3, <1>4, <1>5 DEF Contract!Init, Asked, Outcomes, Versions

\* Every step is one of the contract or is not seen.
LEMMA StepRefines ==
    IInv /\ Unanswered /\ Existing /\ [Next]_vars => [Contract!Next]_(Contract!vars)
<1> SUFFICES ASSUME IInv, Unanswered, Existing, [Next]_vars
             PROVE  Contract!Next \/ UNCHANGED <<origin, acked, Asked, Outcomes, Versions>>
    BY ContractVars
<1> USE DEF frame, store, local, resource, reload
<1>0. Types /\ Begun /\ Known /\ Indexed /\ CacheCoherent
    BY DEF IInv
<1>1. ASSUME NEW r \in Requests, Begin(r)
      PROVE  Contract!Next \/ UNCHANGED <<origin, acked, Asked, Outcomes, Versions>>
    <2>1. /\ phase[r] = "idle" /\ phase' = [phase EXCEPT ![r] = "picked"]
          /\ UNCHANGED <<reply, origin, acked>> /\ reply[r] = NoReply
        BY <1>0, <1>1 DEF Begin, Goto, Begun
    <2>2. CASE r \in Gets
        <3>1. PICK k \in Keys : key' = [key EXCEPT ![r] = k]
            BY <1>1, <2>2, RequestsAssumption DEF Begin
        <3>2. PathOf[k] \in Paths /\ k \in Keys
            BY PathOfAssumption
        <3>3. phase'[r] = "picked" /\ \A x \in Gets \ {r} : phase'[x] = phase[x]
            BY <1>0, <2>1, <2>2 DEF Types, Requests
        <3>4. Asked' = [Asked EXCEPT ![r] = PathOf[k]]
            BY <1>0, <2>2, <3>1, <3>3 DEF Asked, Types
        <3>5. /\ Outcome(r) = "idle" /\ Outcome(r)' = "waiting"
              /\ \A x \in Gets \ {r} : Outcome(x)' = Outcome(x)
            BY <2>1, <2>2, <3>3 DEF Outcome, NoReply
        <3>6. Outcomes[r] = "idle" /\ Outcomes' = [Outcomes EXCEPT ![r] = "waiting"]
            BY <2>2, <3>5 DEF Outcomes
        <3>7. Contract!Ask(r, PathOf[k])
            BY <2>1, <3>4, <3>6 DEF Contract!Ask, Asked, Outcomes, Versions
        <3>8. QED
            BY <2>2, <3>2, <3>7 DEF Contract!Next
    <2>3. CASE r \notin Gets
        <3>1. UNCHANGED key /\ \A x \in Gets : phase'[x] = phase[x]
            BY <1>0, <1>1, <2>1, <2>3 DEF Begin, Types, Requests
        <3>2. QED
            BY <2>1, <3>1, Unseen
    <2>4. QED
        BY <2>2, <2>3
<1>2. ASSUME NEW r \in Gets, LocalStep(r) \/ GenerationStep(r) \/ StoreStep(r)
      PROVE  UNCHANGED <<origin, acked, Asked, Outcomes, Versions>>
    <2>1. \A x \in Gets : phase'[x] = "idle" <=> phase[x] = "idle"
        <3>1. CASE LocalStep(r)
            BY <1>0, <3>1, LocalEffect DEF Requests
        <3>2. CASE GenerationStep(r) \/ StoreStep(r)
            BY <1>0, <3>2 DEF GenerationStep, StoreStep, Goto, Types, Requests
        <3>3. QED
            BY <1>2, <3>1, <3>2
    <2>2. UNCHANGED <<key, reply, origin, acked>>
        BY <1>2 DEF LocalStep, GenerationStep, StoreStep
    <2>3. QED
        BY <2>1, <2>2, Unseen
<1>3. ASSUME NEW r \in Gets, ServeStep(r) PROVE Contract!Next
    <2>1. /\ phase[r] \in {"get", "recheck", "failed"} /\ key[r] \in Keys
          /\ phase' = [phase EXCEPT ![r] = "respond"]
          /\ \A x \in Requests \ {r} : reply'[x] = reply[x]
          /\ UNCHANGED <<key, origin, acked>>
        BY <1>0, <1>3, ServeEffect
    <2>2. key[r] \in Present /\ PathOf[key[r]] \in Paths
        BY <1>3, <2>1, PathOfAssumption DEF ServeStep, Present
    <2>3. /\ items[key[r]].by \in Gets
          /\ reply[items[key[r]].by].ver \in Nat
          /\ acked[PathOf[key[r]]] \in Nat /\ origin[PathOf[key[r]]] \in Nat
        BY <1>0, <2>1, <2>2 DEF Present, Types, EntryType, Requests, Replies
    <2>4. EntryVersion(items[key[r]]) \in acked[PathOf[key[r]]]..origin[PathOf[key[r]]]
        BY <1>0, <2>2, <2>3 DEF CacheCoherent, Existing, EntryVersion
    <2>5. /\ reply'[r].src \in {"hit", "stale", "fetched"}
          /\ reply'[r].ver = EntryVersion(items[key[r]])
        BY <1>0, <1>3 DEF ServeStep, Serve, Reply, Types, Requests
    <2>6. QED
        BY <2>1, <2>4, <2>5, AnswerRefines
<1>4. ASSUME NEW r \in Gets, ErrorStep(r) PROVE Contract!Next
    <2>1. /\ phase[r] \in {"waiting", "failed"} /\ phase' = [phase EXCEPT ![r] = "respond"]
          /\ reply' = [reply EXCEPT ![r] = [src |-> "error", ver |-> 0]]
          /\ UNCHANGED <<key, origin, acked>>
        BY <1>4 DEF ErrorStep, Goto, Reply
    <2>2. /\ reply'[r] = [src |-> "error", ver |-> 0]
          /\ \A x \in Requests \ {r} : reply'[x] = reply[x]
        BY <1>0, <2>1 DEF Types, Requests
    <2>3. QED
        BY <2>1, <2>2, AnswerRefines
<1>5. ASSUME NEW r \in Gets, FetchOK(r) PROVE Contract!Next
    <2>1. /\ phase[r] = "fetch" /\ phase' = [phase EXCEPT ![r] = "fetched"]
          /\ UNCHANGED <<key, origin, acked>> /\ key[r] \in Keys
          /\ Reply(r, "fetched", origin[PathOf[key[r]]])
        BY <1>0, <1>5 DEF FetchOK, Goto, Begun
    <2>2. /\ PathOf[key[r]] \in Paths
          /\ acked[PathOf[key[r]]] \in Nat /\ origin[PathOf[key[r]]] \in Nat
          /\ acked[PathOf[key[r]]] <= origin[PathOf[key[r]]]
        BY <1>0, <2>1, PathOfAssumption DEF Types, Known
    <2>3. /\ reply'[r].src = "fetched" /\ reply'[r].ver = origin[PathOf[key[r]]]
          /\ \A x \in Requests \ {r} : reply'[x] = reply[x]
        BY <1>0, <2>1, <2>2, FetchEffect DEF Requests
    <2>4. reply'[r].ver \in acked[PathOf[key[r]]]..origin[PathOf[key[r]]]
        BY <2>2, <2>3
    <2>5. QED
        BY <2>1, <2>3, <2>4, AnswerRefines
<1>6. ASSUME NEW w \in Writes, WriteOK(w) \/ LateWrite(w) PROVE Contract!Next
    <2>1. /\ path[w] \in Paths /\ origin' = [origin EXCEPT ![path[w]] = @ + 1]
          /\ UNCHANGED <<key, acked>>
        BY <1>0, <1>6 DEF WriteOK, LateWrite, Begun
    <2>2. \A x \in Gets : phase'[x] = phase[x] /\ reply'[x] = reply[x]
        BY <1>0, <1>6, RequestsAssumption DEF WriteOK, LateWrite, Reply, Goto, Types, Requests
    <2>3. UNCHANGED <<Asked, Outcomes, Versions>>
        BY <2>1, <2>2, Unseen
    <2>4. Contract!Change(path[w])
        BY <2>1, <2>3 DEF Contract!Change, Asked, Outcomes, Versions
    <2>5. QED
        BY <2>1, <2>4 DEF Contract!Next
<1>7. ASSUME NEW w \in Writes, WriteError(w)
      PROVE  UNCHANGED <<origin, acked, Asked, Outcomes, Versions>>
    <2>1. /\ UNCHANGED <<key, origin, acked>>
          /\ \A x \in Gets : phase'[x] = phase[x] /\ reply'[x] = reply[x]
        BY <1>0, <1>7, RequestsAssumption DEF WriteError, Reply, Goto, Types, Requests
    <2>2. QED
        BY <2>1, Unseen
<1>8. ASSUME NEW w \in Writes, Purge(w) PROVE Contract!Next
    <2>1. path[w] \in Paths /\ Answer(w) /\ UNCHANGED <<key, reply, origin>>
        BY <1>0, <1>8 DEF Purge, Begun
    <2>2. \A x \in Gets : phase'[x] = phase[x] /\ reply'[x] = reply[x]
        BY <1>0, <1>8, <2>1, RequestsAssumption DEF Purge, Goto, Types, Requests
    <2>3. UNCHANGED <<Asked, Outcomes, Versions>>
        BY <2>1, <2>2, Unseen
    <2>4. /\ acked' \in [Paths -> Nat]
          /\ \A p \in Paths : acked[p] <= acked'[p] /\ acked'[p] <= origin[p]
          /\ \A p \in Paths \ {path[w]} : acked'[p] = acked[p]
        BY <1>0, <2>1, AnswerEffect
    <2>5. acked'[path[w]] \in acked[path[w]]..origin[path[w]]
        BY <1>0, <2>1, <2>4 DEF Types
    <2>6. acked' = [acked EXCEPT ![path[w]] = acked'[path[w]]]
        BY <1>0, <2>4 DEF Types
    <2>7. Contract!Acknowledge(path[w])
        BY <2>1, <2>3, <2>5, <2>6 DEF Contract!Acknowledge, Asked, Outcomes, Versions
    <2>8. QED
        BY <2>1, <2>7 DEF Contract!Next
<1>9. CASE Clear
    BY <1>9, Unseen DEF Clear
<1>10. ASSUME NEW k \in Keys, Tick(k)
       PROVE  UNCHANGED <<origin, acked, Asked, Outcomes, Versions>>
    BY <1>10, Unseen DEF Tick
<1>11. CASE DeleteStep
    <2>1. \A x \in Gets : phase'[x] = "idle" <=> phase[x] = "idle"
        BY <1>0, <1>11 DEF DeleteStep, Goto, Types, Requests
    <2>2. UNCHANGED <<key, reply, origin, acked>>
        BY <1>11 DEF DeleteStep
    <2>3. QED
        BY <2>1, <2>2, Unseen
<1>12. CASE QuietStep
    BY <1>12, Unseen DEF QuietStep
<1>13. QED
    BY <1>1, <1>2, <1>3, <1>4, <1>5, <1>6, <1>7, <1>8, <1>9, <1>10, <1>11, <1>12, Kinds

\* The response cache implements ResponseContract: behind generations, flights, stale
\* backups and purges, each resource is a register, and a GET reads from it once.
THEOREM Refinement == Spec => Implements
<1>1. Spec => [](IInv /\ Unanswered /\ Existing)
    BY Inductive, Answers, PTL
<1>2. QED
    BY <1>1, InitRefines, StepRefines, PTL DEF Spec, Implements, Contract!Spec
=============================================================================
