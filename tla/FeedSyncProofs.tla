---------------------------- MODULE FeedSyncProofs ----------------------------
(***************************************************************************)
(* Proofs about FeedSync for any feeds, entries, admin requests and number *)
(* of restarts: no feed is synced twice at a time, the row of a feed tells *)
(* how many entries it has unless they were edited by hand since they were *)
(* replaced, and the admin has the last word, as long as no edit or        *)
(* deletion of the feed meets a sync of it.                                *)
(***************************************************************************)
EXTENDS FeedSync, FiniteSetTheorems, TLAPS

ProcStates == [at : Stages, feed : Feeds \cup {None}, copy : Rows \cup {None},
               list : SUBSET EntryIds, err : BOOLEAN]

\* TypeOK without its last conjunct, which follows from Claimed.
Types ==
    /\ row \in [Feeds -> Rows \cup {None}]
    /\ entries \in [Feeds -> SUBSET EntryIds]
    /\ created \subseteq Feeds /\ syncing \subseteq created /\ pending \subseteq created
    /\ proc \in [Procs -> ProcStates]
    /\ stopped \in BOOLEAN /\ restarts \in 0..MaxRestarts
    /\ unrecorded \subseteq created /\ deleted \subseteq created /\ crossed \subseteq created
    /\ touched \subseteq Feeds
    /\ wanted \in [Feeds -> Settings \cup {None}]

Syncing(p) == proc[p].at \in {"load", "fetch", "replace", "record", "reload"}

\* The feeds in syncing are those of the goroutines inside syncFeedInternal, which
\* sync different feeds.
Claimed ==
    /\ \A p \in Procs : Syncing(p) => proc[p].feed \in syncing
    /\ \A f \in syncing : \E p \in Procs : Syncing(p) /\ proc[p].feed = f
    /\ \A p, r \in Procs : Syncing(p) /\ Syncing(r) /\ proc[p].feed = proc[r].feed => p = r
    /\ \A p \in Procs : proc[p].at = "save" => proc[p].feed \in created
    /\ \A p \in Procs : proc[p].at = "put" => proc[p].feed \in Feeds

\* A feed that was not created has no row, and no entries but those added by hand.
Unborn == \A f \in Feeds \ created : ~Exists(f) /\ (f \in touched \/ entries[f] = {})

Fetched == {"fetch", "replace", "record"}

\* The copy of its row that p holds agrees with the row, in what p does not change.
CopyAgrees(p, f) ==
    /\ Exists(f)
    /\ proc[p].at \in Fetched => proc[p].copy.set = row[f].set
    /\ proc[p].at = "save" => /\ proc[p].copy.err = row[f].err
                              /\ proc[p].copy.count = row[f].count
    /\ proc[p].at = "record" /\ ~proc[p].err /\ f \notin touched => entries[f] = proc[p].list

\* So it does as long as no two goroutines met on the feed.
Copies ==
    \A p \in Procs : proc[p].at \in Fetched \cup {"save"} =>
        /\ proc[p].copy # None
        /\ proc[p].feed \notin crossed => CopyAgrees(p, proc[p].feed)

\* Between ReplaceFeedEntries and recordResult the row does not tell the entries.
Recording(f) == \E p \in Procs : proc[p].feed = f /\ proc[p].at = "record"
Tells(f) == Exists(f) /\ ~row[f].err => row[f].count = Cardinality(entries[f])
Told == \A f \in Feeds \ (crossed \cup unrecorded \cup touched) : Recording(f) \/ Tells(f)

IInv == Types /\ Claimed /\ Unborn /\ Copies /\ Told /\ AdminWritesLast


-----------------------------------------------------------------------------
(* What the steps do to a goroutine                                          *)

\* What is found is at most every address.
LEMMA Counts ==
    ASSUME NEW S \in SUBSET EntryIds
    PROVE  Cardinality(S) \in 0..Cardinality(EntryIds)
    BY FeedsAssumption, FS_Subset, FS_CardinalityType

\* The function y is proc with p in another state: its fields are s, f, c, l and e.
Becomes(y, p, s, f, c, l, e) ==
    /\ y \in [Procs -> ProcStates]
    /\ y[p].at = s /\ y[p].feed = f /\ y[p].copy = c /\ y[p].list = l /\ y[p].err = e
    /\ \A r \in Procs \ {p} : y[r] = proc[r]

\* The same p in the state it is in.
Stays(p) == Becomes(proc, p, proc[p].at, proc[p].feed, proc[p].copy, proc[p].list, proc[p].err)

\* The fields of a goroutine have their types.
LEMMA Still ==
    ASSUME Types, NEW p \in Procs
    PROVE  /\ Stays(p) /\ proc[p].at \in Stages /\ proc[p].feed \in Feeds \cup {None}
           /\ proc[p].copy \in Rows \cup {None} /\ proc[p].list \in SUBSET EntryIds
           /\ proc[p].err \in BOOLEAN
    BY DEF Types, Stays, Becomes, ProcStates

\* A change of the field at.
LEMMA SetAt ==
    ASSUME NEW y, NEW p \in Procs, NEW s, NEW f, NEW c, NEW l, NEW e,
           Becomes(y, p, s, f, c, l, e), NEW v \in Stages
    PROVE  Becomes([y EXCEPT ![p].at = v], p, v, f, c, l, e)
    BY SMT DEF Becomes, ProcStates

\* A change of the field feed.
LEMMA SetFeed ==
    ASSUME NEW y, NEW p \in Procs, NEW s, NEW f, NEW c, NEW l, NEW e,
           Becomes(y, p, s, f, c, l, e), NEW v \in Feeds \cup {None}
    PROVE  Becomes([y EXCEPT ![p].feed = v], p, s, v, c, l, e)
    BY SMT DEF Becomes, ProcStates

\* A change of the field copy.
LEMMA SetCopy ==
    ASSUME NEW y, NEW p \in Procs, NEW s, NEW f, NEW c, NEW l, NEW e,
           Becomes(y, p, s, f, c, l, e), NEW v \in Rows \cup {None}
    PROVE  Becomes([y EXCEPT ![p].copy = v], p, s, f, v, l, e)
    BY SMT DEF Becomes, ProcStates

\* A change of the field list.
LEMMA SetList ==
    ASSUME NEW y, NEW p \in Procs, NEW s, NEW f, NEW c, NEW l, NEW e,
           Becomes(y, p, s, f, c, l, e), NEW v \in SUBSET EntryIds
    PROVE  Becomes([y EXCEPT ![p].list = v], p, s, f, c, v, e)
    BY SMT DEF Becomes, ProcStates

\* A change of the field err.
LEMMA SetErr ==
    ASSUME NEW y, NEW p \in Procs, NEW s, NEW f, NEW c, NEW l, NEW e,
           Becomes(y, p, s, f, c, l, e), NEW v \in BOOLEAN
    PROVE  Becomes([y EXCEPT ![p].err = v], p, s, f, c, l, v)
    BY SMT DEF Becomes, ProcStates

\* A change of the whole state.
LEMMA SetTo ==
    ASSUME Types, NEW p \in Procs, NEW v \in ProcStates
    PROVE  Becomes([proc EXCEPT ![p] = v], p, v.at, v.feed, v.copy, v.list, v.err)
    BY SMT DEF Types, Becomes

\* After Start every goroutine is idle, but that of the loop may have ended.
LEMMA Started ==
    ASSUME NEW y \in Start
    PROVE  y \in [Procs -> ProcStates] /\ \A p \in Procs : y[p].at \in {"idle", "done"}
<1>1. PICK s \in {"idle", "done"} :
             y = [p \in Procs |-> IF p = Loop THEN [Idle EXCEPT !.at = s] ELSE Idle]
    BY DEF Start
<1>2. Idle \in ProcStates /\ Idle.at = "idle"
    BY DEF Idle, ProcStates, Stages
<1>3. [Idle EXCEPT !.at = s] \in ProcStates /\ [Idle EXCEPT !.at = s].at = s
    BY DEF Idle, ProcStates, Stages
<1>4. QED
    BY <1>1, <1>2, <1>3

\* A goroutine that is in the middle of something has a feed that was created.
LEMMA HasFeed ==
    ASSUME IInv, NEW p \in Procs,
           proc[p].at \in {"load", "fetch", "replace", "record", "reload", "save"}
    PROVE  /\ proc[p].feed \in created /\ proc[p].feed \in Feeds
           /\ proc[p].at # "save" => Syncing(p) /\ proc[p].feed \in syncing
<1>1. CASE Syncing(p)
    BY <1>1 DEF IInv, Claimed, Types, Syncing
<1>2. CASE ~Syncing(p)
    BY <1>2 DEF IInv, Claimed, Types, Syncing
<1>3. QED
    BY <1>1, <1>2

\* A goroutine returns.
LEMMA ReturnsEffect ==
    ASSUME IInv, NEW p \in Procs, Returns(p)
    PROVE  Becomes(proc', p, "idle", None, None, {}, FALSE)
<1>1. Idle \in ProcStates /\ Idle.at = "idle" /\ Idle.feed = None /\ Idle.copy = None
      /\ Idle.list = {} /\ Idle.err = FALSE
    BY DEF Idle, ProcStates, Stages
<1>2. Becomes([proc EXCEPT ![p] = Idle], p, "idle", None, None, {}, FALSE)
    BY <1>1, SetTo DEF IInv
<1>3. QED
    BY <1>2 DEF Returns

\* A goroutine goes on to another stage.
LEMMA GoesEffect ==
    ASSUME IInv, NEW p \in Procs, NEW s \in Stages, Goes(p, s)
    PROVE  Becomes(proc', p, s, proc[p].feed, proc[p].copy, proc[p].list, proc[p].err)
    BY Still, SetAt DEF Goes, IInv, Stays

\* syncFeedInternal begins, unless the feed is being synced.
LEMMA ClaimEffect ==
    ASSUME IInv, NEW p \in Procs, NEW f \in created, Claim(p, f)
    PROVE  \/ UNCHANGED <<syncing, proc>>
           \/ /\ f \notin syncing /\ syncing' = syncing \cup {f}
              /\ Becomes(proc', p, "load", f, None, {}, FALSE)
<1> SUFFICES ASSUME f \notin syncing
             PROVE  /\ syncing' = syncing \cup {f}
                    /\ Becomes(proc', p, "load", f, None, {}, FALSE)
    BY DEF Claim
<1> DEFINE x == [at |-> "load", feed |-> f, copy |-> None, list |-> {}, err |-> FALSE]
<1>1. proc' = [proc EXCEPT ![p] = x] /\ syncing' = syncing \cup {f}
    BY DEF Claim, Idle
<1>2. /\ x \in ProcStates /\ x.at = "load" /\ x.feed = f /\ x.copy = None
      /\ x.list = {} /\ x.err = FALSE
    BY DEF ProcStates, Stages, IInv, Types
<1> HIDE DEF x
<1>3. Becomes([proc EXCEPT ![p] = x], p, "load", f, None, {}, FALSE)
    BY <1>2, SetTo DEF IInv
<1>4. QED
    BY <1>1, <1>3

\* LoadFeed goes on with the row or returns.
LEMMA LoadEffect ==
    ASSUME IInv, NEW p \in Procs, LoadFeed(p)
    PROVE  \/ /\ Exists(proc[p].feed) /\ syncing' = syncing
              /\ Becomes(proc', p, "fetch", proc[p].feed, row[proc[p].feed], proc[p].list,
                         proc[p].err)
           \/ /\ syncing' = syncing \ {proc[p].feed}
              /\ Becomes(proc', p, "idle", None, None, {}, FALSE)
<1>1. CASE Leave(p)
    BY <1>1, ReturnsEffect DEF Leave
<1>2. CASE ~Leave(p)
    <2> DEFINE c == row[proc[p].feed]
    <2>1. c \in Rows \cup {None} /\ "fetch" \in Stages
        BY HasFeed DEF LoadFeed, IInv, Types, Stages
    <2>2. /\ Exists(proc[p].feed) /\ syncing' = syncing
          /\ proc' = [[proc EXCEPT ![p].at = "fetch"] EXCEPT ![p].copy = c]
        BY <1>2 DEF LoadFeed
    <2> HIDE DEF c
    <2>3. Becomes([proc EXCEPT ![p].at = "fetch"], p, "fetch", proc[p].feed, proc[p].copy,
                  proc[p].list, proc[p].err)
        BY <2>1, Still, SetAt DEF IInv, Stays
    <2>4. Becomes([[proc EXCEPT ![p].at = "fetch"] EXCEPT ![p].copy = c], p, "fetch",
                  proc[p].feed, c, proc[p].list, proc[p].err)
        BY <2>1, <2>3, SetCopy
    <2>5. QED
        BY <2>2, <2>4 DEF c
<1>3. QED
    BY <1>1, <1>2

\* fetchAndParse goes on with a list or an error.
LEMMA FetchEffect ==
    ASSUME IInv, NEW p \in Procs, fetchAndParse(p)
    PROVE  \/ \E l \in SUBSET EntryIds :
                 Becomes(proc', p, "replace", proc[p].feed, proc[p].copy, l, proc[p].err)
           \/ Becomes(proc', p, "record", proc[p].feed, proc[p].copy, proc[p].list, TRUE)
<1>1. "replace" \in Stages /\ "record" \in Stages
    BY DEF Stages
<1>2. ASSUME NEW l \in SUBSET EntryIds,
             proc' = [proc EXCEPT ![p].at = "replace", ![p].list = l]
      PROVE  Becomes(proc', p, "replace", proc[p].feed, proc[p].copy, l, proc[p].err)
    <2>1. Becomes([proc EXCEPT ![p].at = "replace"], p, "replace", proc[p].feed,
                  proc[p].copy, proc[p].list, proc[p].err)
        BY <1>1, Still, SetAt DEF IInv, Stays
    <2>2. Becomes([[proc EXCEPT ![p].at = "replace"] EXCEPT ![p].list = l], p, "replace",
                  proc[p].feed, proc[p].copy, l, proc[p].err)
        BY <2>1, SetList
    <2>3. QED
        BY <1>2, <2>2
<1>3. CASE proc' = [proc EXCEPT ![p].at = "record", ![p].err = TRUE]
    <2>1. Becomes([proc EXCEPT ![p].at = "record"], p, "record", proc[p].feed,
                  proc[p].copy, proc[p].list, proc[p].err)
        BY <1>1, Still, SetAt DEF IInv, Stays
    <2>2. Becomes([[proc EXCEPT ![p].at = "record"] EXCEPT ![p].err = TRUE], p, "record",
                  proc[p].feed, proc[p].copy, proc[p].list, TRUE)
        BY <2>1, SetErr
    <2>3. QED
        BY <1>3, <2>2
<1>4. QED
    BY <1>2, <1>3 DEF fetchAndParse, parseEntries, Unused

\* ReplaceFeedEntries writes the list, or fails, which it may say after writing it.
LEMMA ReplaceEffect ==
    ASSUME IInv, NEW p \in Procs, ReplaceFeedEntries(p)
    PROVE  \/ /\ entries' = [entries EXCEPT ![proc[p].feed] = proc[p].list]
              /\ touched' = touched \ {proc[p].feed}
              /\ Becomes(proc', p, "record", proc[p].feed, proc[p].copy, proc[p].list,
                         proc[p].err)
           \/ /\ entries' \in {entries, [entries EXCEPT ![proc[p].feed] = proc[p].list]}
              /\ touched' = touched
              /\ Becomes(proc', p, "record", proc[p].feed, proc[p].copy, {}, TRUE)
<1>1. "record" \in Stages /\ {} \in SUBSET EntryIds
    BY DEF Stages
<1>2. Becomes([proc EXCEPT ![p].at = "record"], p, "record", proc[p].feed,
              proc[p].copy, proc[p].list, proc[p].err)
    BY <1>1, Still, SetAt DEF IInv, Stays
<1>3. CASE proc' = [proc EXCEPT ![p].at = "record", ![p].err = TRUE, ![p].list = {}]
           /\ entries' \in {entries, [entries EXCEPT ![proc[p].feed] = proc[p].list]}
           /\ touched' = touched
    <2> DEFINE x == [proc EXCEPT ![p].at = "record"]
    <2>1. proc' = [[x EXCEPT ![p].err = TRUE] EXCEPT ![p].list = {}]
        BY <1>3
    <2>2. Becomes(x, p, "record", proc[p].feed, proc[p].copy, proc[p].list, proc[p].err)
        BY <1>2
    <2> HIDE DEF x
    <2>3. Becomes([x EXCEPT ![p].err = TRUE], p, "record", proc[p].feed, proc[p].copy,
                  proc[p].list, TRUE)
        BY <2>2, SetErr
    <2>4. Becomes([[x EXCEPT ![p].err = TRUE] EXCEPT ![p].list = {}], p, "record",
                  proc[p].feed, proc[p].copy, {}, TRUE)
        BY <1>1, <2>3, SetList
    <2>5. QED
        BY <1>3, <2>1, <2>4
<1>4. QED
    BY <1>2, <1>3 DEF ReplaceFeedEntries, Goes

\* recordResult writes the copy with the result in it, or fails; with an error the
\* sync ends here.
LEMMA RecordEffect ==
    ASSUME IInv, NEW p \in Procs, recordResult(p)
    PROVE  /\ \/ /\ \E r \in Rows :
                       /\ row' = [row EXCEPT ![proc[p].feed] = r]
                       /\ r.set = proc[p].copy.set /\ r.err = proc[p].err
                       /\ r.count = Cardinality(proc[p].list)
                 /\ unrecorded' = unrecorded \ {proc[p].feed}
              \/ row' = row /\ unrecorded' = unrecorded \cup {proc[p].feed}
           /\ \/ /\ proc[p].err /\ syncing' = syncing \ {proc[p].feed}
                 /\ Becomes(proc', p, "idle", None, None, {}, FALSE)
              \/ /\ ~proc[p].err /\ syncing' = syncing
                 /\ Becomes(proc', p, "reload", proc[p].feed, proc[p].copy, proc[p].list,
                            proc[p].err)
<1> DEFINE c == proc[p].copy
           d == [c EXCEPT !.last = "recent"]
           n == Cardinality(proc[p].list)
           x == [d EXCEPT !.err = proc[p].err]
           r == [x EXCEPT !.count = n]
<1>1. proc[p].at = "record" /\ "reload" \in Stages
    BY DEF recordResult, Stages
<1>2. c \in Rows /\ n \in 0..Cardinality(EntryIds) /\ proc[p].err \in BOOLEAN
    BY <1>1, Still, Counts DEF IInv, Copies, Fetched
<1>3. r = [proc[p].copy EXCEPT !.last = "recent", !.err = proc[p].err,
                               !.count = Cardinality(proc[p].list)]
    OBVIOUS
<1> HIDE DEF c, n
<1>4. d \in Rows /\ d.set = c.set
    BY <1>2, SMT DEF Rows
<1> HIDE DEF d
<1>5. x \in Rows /\ x.set = c.set /\ x.err = proc[p].err
    BY <1>2, <1>4, SMT DEF Rows
<1> HIDE DEF x
<1>6. r \in Rows /\ r.set = c.set /\ r.err = proc[p].err /\ r.count = n
    BY <1>2, <1>5, SMT DEF Rows
<1> HIDE DEF r
<1>7. CASE proc[p].err
    BY <1>3, <1>6, <1>7, ReturnsEffect DEF recordResult, Save, Leave, c, n
<1>8. CASE ~proc[p].err
    BY <1>1, <1>3, <1>6, <1>8, GoesEffect DEF recordResult, Save, c, n
<1>9. QED
    BY <1>7, <1>8

\* A request of the admin takes up feed f and goes on to its reload.
LEMMA ApplyEffect ==
    ASSUME IInv, NEW p \in Procs, NEW f \in Feeds,
           proc' = [proc EXCEPT ![p].at = "apply", ![p].feed = f]
    PROVE  Becomes(proc', p, "apply", f, proc[p].copy, proc[p].list, proc[p].err)
<1>1. "apply" \in Stages /\ f \in Feeds \cup {None}
    BY DEF Stages
<1>2. Becomes([proc EXCEPT ![p].at = "apply"], p, "apply", proc[p].feed, proc[p].copy,
              proc[p].list, proc[p].err)
    BY <1>1, Still, SetAt DEF IInv, Stays
<1>3. Becomes([[proc EXCEPT ![p].at = "apply"] EXCEPT ![p].feed = f], p, "apply", f,
              proc[p].copy, proc[p].list, proc[p].err)
    BY <1>1, <1>2, SetFeed
<1>4. QED
    BY <1>3

\* UpdateThreatIntelFeed goes on with a copy in which it changed what the admin sets.
LEMMA UpdateEffect ==
    ASSUME IInv, NEW a \in Admins, NEW f \in Feeds, UpdateThreatIntelFeed(a, f)
    PROVE  \E c \in Rows : /\ c.err = row[f].err /\ c.count = row[f].count
                           /\ Becomes(proc', a, "save", f, c, {}, FALSE)
<1>1. PICK s \in Settings, e \in BOOLEAN :
             proc' = [proc EXCEPT ![a] = [Idle EXCEPT !.at = "save", !.feed = f,
                         !.copy = [row[f] EXCEPT !.set = s, !.enabled = e]]]
    BY DEF UpdateThreatIntelFeed
<1> DEFINE d == [row[f] EXCEPT !.set = s]
           c == [d EXCEPT !.enabled = e]
           x == [Idle EXCEPT !.at = "save"]
           y == [x EXCEPT !.feed = f]
           z == [y EXCEPT !.copy = c]
<1>2. row[f] \in Rows
    BY DEF UpdateThreatIntelFeed, Exists, IInv, Types
<1>3. proc' = [proc EXCEPT ![a] = z]
    BY <1>1
<1>4. x \in ProcStates /\ x.at = "save" /\ x.list = {} /\ x.err = FALSE
    BY DEF Idle, ProcStates, Stages
<1> HIDE DEF x
<1>5. y \in ProcStates /\ y.at = "save" /\ y.feed = f /\ y.list = {} /\ y.err = FALSE
    BY <1>4, SMT DEF ProcStates
<1> HIDE DEF y
<1>6. d \in Rows /\ d.err = row[f].err /\ d.count = row[f].count
    BY <1>2, SMT DEF Rows
<1> HIDE DEF d
<1>7. c \in Rows /\ c.err = row[f].err /\ c.count = row[f].count
    BY <1>6, SMT DEF Rows
<1> HIDE DEF c
<1>8. /\ z \in ProcStates /\ z.at = "save" /\ z.feed = f /\ z.copy = c /\ z.list = {}
      /\ z.err = FALSE
    BY <1>5, <1>7, SMT DEF ProcStates
<1> HIDE DEF z
<1>9. Becomes([proc EXCEPT ![a] = z], a, "save", f, c, {}, FALSE)
    BY <1>8, SetTo DEF IInv, Procs
<1>10. QED
    BY <1>3, <1>7, <1>9

\* The end of an interval changes nothing that the invariant looks at.
LEMMA AgedEffect ==
    ASSUME NEW r \in Rows \cup {None}
    PROVE  /\ Aged(r) \in Rows \cup {None} /\ (Aged(r) = None <=> r = None)
           /\ r # None => /\ Aged(r).set = r.set /\ Aged(r).err = r.err
                          /\ Aged(r).count = r.count
<1>1. CASE r # None /\ r.last = "recent"
    <2>1. [r EXCEPT !.last = "old"] \in Rows /\ Aged(r) = [r EXCEPT !.last = "old"]
        BY <1>1 DEF Aged, Rows
    <2>2. /\ [r EXCEPT !.last = "old"].set = r.set /\ [r EXCEPT !.last = "old"].err = r.err
          /\ [r EXCEPT !.last = "old"].count = r.count
        BY <1>1 DEF Rows
    <2>3. QED
        BY <1>1, <2>1, <2>2, RowsAssumption
<1>2. CASE ~(r # None /\ r.last = "recent")
    BY <1>2 DEF Aged
<1>3. QED
    BY <1>1, <1>2

\* p writes feed f: if another goroutine holds its row, the feed is crossed.
Crosses(p, f) ==
    /\ crossed \subseteq crossed' /\ crossed' \subseteq crossed \cup {f}
    /\ \A q \in Procs \ {p} : Holds(q, f) => f \in crossed'

\* Cross says that.
LEMMA CrossEffect ==
    ASSUME NEW p, NEW f, Cross(p, f)
    PROVE  Crosses(p, f)
    BY DEF Cross, Crosses

\* Two rows that differ at most in when the feed was synced last.
Same(r, s) == /\ r \in Rows \cup {None} /\ s \in Rows \cup {None} /\ (r = None <=> s = None)
              /\ r # None => r.set = s.set /\ r.err = s.err /\ r.count = s.count

\* At most the row of f is written.
OnlyRow(f) == /\ row' \in [Feeds -> Rows \cup {None}]
              /\ \A g \in Feeds \ {f} : row'[g] = row[g]

-----------------------------------------------------------------------------
(* The steps                                                                 *)

\* The round of the loop keeps the invariant.
LEMMA RoundKeeps ==
    ASSUME IInv, Round
    PROVE  IInv'
<1>1. /\ pending' \subseteq created
      /\ row' = row /\ entries' = entries /\ created' = created /\ syncing' = syncing
      /\ proc' = proc /\ stopped' = stopped /\ restarts' = restarts
      /\ unrecorded' = unrecorded /\ wanted' = wanted /\ deleted' = deleted
      /\ crossed' = crossed /\ touched' = touched
    BY DEF Round, isDue, Exists, database, history, IInv, Types, Unborn
<1>2. Types'
    BY <1>1 DEF IInv, Types, Rows
<1>3. Claimed'
    BY <1>1 DEF IInv, Types, Claimed, Syncing
<1>4. Unborn'
    BY <1>1 DEF IInv, Types, Unborn, Exists
<1>5. Copies'
    BY <1>1 DEF IInv, Types, Copies, CopyAgrees, Fetched, Exists
<1>6. Told'
    BY <1>1 DEF IInv, Types, Told, Recording, Tells, Exists
<1>7. AdminWritesLast'
    BY <1>1 DEF IInv, Types, Exists, AdminWritesLast
<1>8. QED
    BY <1>2, <1>3, <1>4, <1>5, <1>6, <1>7 DEF IInv

\* Stop keeps the invariant.
LEMMA StopKeeps ==
    ASSUME IInv, Stop
    PROVE  IInv'
<1>1. /\ stopped' \in BOOLEAN
      /\ row' = row /\ entries' = entries /\ created' = created /\ syncing' = syncing
      /\ proc' = proc /\ pending' = pending /\ restarts' = restarts
      /\ unrecorded' = unrecorded /\ wanted' = wanted /\ deleted' = deleted
      /\ crossed' = crossed /\ touched' = touched
    BY DEF Stop, database, history
<1>2. Types'
    BY <1>1 DEF IInv, Types, Rows
<1>3. Claimed'
    BY <1>1 DEF IInv, Types, Claimed, Syncing
<1>4. Unborn'
    BY <1>1 DEF IInv, Types, Unborn, Exists
<1>5. Copies'
    BY <1>1 DEF IInv, Types, Copies, CopyAgrees, Fetched, Exists
<1>6. Told'
    BY <1>1 DEF IInv, Types, Told, Recording, Tells, Exists
<1>7. AdminWritesLast'
    BY <1>1 DEF IInv, Types, Exists, AdminWritesLast
<1>8. QED
    BY <1>2, <1>3, <1>4, <1>5, <1>6, <1>7 DEF IInv

\* The end of the loop keeps the invariant.
LEMMA LoopExitKeeps ==
    ASSUME IInv, LoopExit
    PROVE  IInv'
<1>1. /\ Loop \in Procs /\ proc[Loop].at = "idle"
      /\ Becomes(proc', Loop, "done", proc[Loop].feed, proc[Loop].copy, proc[Loop].list,
                  proc[Loop].err)
      /\ row' = row /\ entries' = entries /\ created' = created /\ syncing' = syncing
      /\ pending' = pending /\ stopped' = stopped /\ restarts' = restarts
      /\ unrecorded' = unrecorded /\ wanted' = wanted /\ deleted' = deleted
      /\ crossed' = crossed /\ touched' = touched
    BY GoesEffect DEF LoopExit, database, history, Procs, Stages
<1>2. Types'
    BY <1>1 DEF IInv, Types, Becomes, Rows
<1>3. Claimed'
    BY <1>1 DEF IInv, Types, Claimed, Syncing, Becomes
<1>4. Unborn'
    BY <1>1 DEF IInv, Types, Unborn, Exists, Becomes
<1>5. Copies'
    BY <1>1 DEF IInv, Types, Copies, CopyAgrees, Fetched, Exists, Becomes
<1>6. Told'
    BY <1>1 DEF IInv, Types, Told, Recording, Tells, Exists, Becomes
<1>7. AdminWritesLast'
    BY <1>1 DEF IInv, Types, Exists, AdminWritesLast
<1>8. QED
    BY <1>2, <1>3, <1>4, <1>5, <1>6, <1>7 DEF IInv

\* A restart keeps the invariant.
LEMMA RestartKeeps ==
    ASSUME IInv, Restart
    PROVE  IInv'
<1>1. /\ \A p \in Procs : proc'[p].at \in {"idle", "done"}
      /\ syncing' = {} /\ pending' = {} /\ stopped' = FALSE /\ restarts' \in 0..MaxRestarts
      /\ unrecorded \subseteq unrecorded' /\ unrecorded' \subseteq created
      /\ \A f \in Feeds : Recording(f) => f \in unrecorded'
      /\ proc' \in [Procs -> ProcStates]
      /\ row' = row /\ entries' = entries /\ created' = created /\ wanted' = wanted
      /\ deleted' = deleted /\ crossed' = crossed /\ touched' = touched
    <2>1. proc' \in [Procs -> ProcStates] /\ \A p \in Procs : proc'[p].at \in {"idle", "done"}
        BY Started DEF Restart
    <2>3. restarts' \in 0..MaxRestarts
        BY BoundAssumption DEF Restart, IInv, Types
    <2>4. \A p \in Procs : proc[p].at = "record" => proc[p].feed \in created
        BY HasFeed
    <2>5. unrecorded' = unrecorded
             \cup {proc[p].feed : p \in {q \in Procs : proc[q].at = "record"}}
        BY DEF Restart
    <2>6. unrecorded \subseteq unrecorded' /\ unrecorded' \subseteq created
        BY <2>4, <2>5 DEF IInv, Types
    <2>7. \A f \in Feeds : Recording(f) => f \in unrecorded'
        BY <2>5 DEF Recording
    <2>8. QED
        BY <2>1, <2>3, <2>6, <2>7 DEF Restart, database
<1>2. Types'
    BY <1>1 DEF IInv, Types, Rows
<1>3. Claimed'
    BY <1>1 DEF IInv, Types, Claimed, Syncing
<1>4. Unborn'
    BY <1>1 DEF IInv, Types, Unborn, Exists
<1>5. Copies'
    BY <1>1 DEF IInv, Types, Copies, CopyAgrees, Fetched, Exists
<1>6. Told'
    BY <1>1 DEF IInv, Types, Told, Recording, Tells, Exists
<1>7. AdminWritesLast'
    BY <1>1 DEF IInv, Types, Exists, AdminWritesLast
<1>8. QED
    BY <1>2, <1>3, <1>4, <1>5, <1>6, <1>7 DEF IInv

\* A sync from the loop keeps the invariant.
LEMMA SyncFeedKeeps ==
    ASSUME IInv, NEW f \in Feeds, SyncFeed(f)
    PROVE  IInv'
<1>1. /\ Loop \in Procs /\ proc[Loop].at = "idle" /\ f \in created
      /\ \/ syncing' = syncing /\ proc' = proc
         \/ /\ f \notin syncing /\ syncing' = syncing \cup {f}
            /\ Becomes(proc', Loop, "load", f, None, {}, FALSE)
      /\ pending' = pending \ {f}
      /\ row' = row /\ entries' = entries /\ created' = created /\ stopped' = stopped
      /\ restarts' = restarts /\ unrecorded' = unrecorded /\ wanted' = wanted
      /\ deleted' = deleted /\ crossed' = crossed /\ touched' = touched
    BY ClaimEffect DEF SyncFeed, database, history, Procs, IInv, Types
<1>2. Types'
    BY <1>1 DEF IInv, Types, Becomes, Rows
<1>3. Claimed'
    BY <1>1 DEF IInv, Types, Claimed, Syncing, Becomes
<1>4. Unborn'
    BY <1>1 DEF IInv, Types, Unborn, Exists, Becomes
<1>5. Copies'
    BY <1>1 DEF IInv, Types, Copies, CopyAgrees, Fetched, Exists, Becomes
<1>6. Told'
    BY <1>1 DEF IInv, Types, Told, Recording, Tells, Exists, Becomes
<1>7. AdminWritesLast'
    BY <1>1 DEF IInv, Types, Exists, AdminWritesLast
<1>8. QED
    BY <1>2, <1>3, <1>4, <1>5, <1>6, <1>7 DEF IInv

\* A sync from the admin API keeps the invariant.
LEMMA SyncNowKeeps ==
    ASSUME IInv, NEW a \in Admins, NEW f \in Feeds, SyncNow(a, f)
    PROVE  IInv'
<1>1. /\ a \in Procs /\ proc[a].at = "idle" /\ f \in created
      /\ \/ syncing' = syncing /\ proc' = proc
         \/ /\ f \notin syncing /\ syncing' = syncing \cup {f}
            /\ Becomes(proc', a, "load", f, None, {}, FALSE)
      /\ pending' = pending /\ row' = row /\ entries' = entries /\ created' = created
      /\ stopped' = stopped /\ restarts' = restarts /\ unrecorded' = unrecorded
      /\ wanted' = wanted /\ deleted' = deleted /\ crossed' = crossed /\ touched' = touched
    BY ClaimEffect DEF SyncNow, database, history, Procs
<1>2. Types'
    BY <1>1 DEF IInv, Types, Becomes, Rows
<1>3. Claimed'
    BY <1>1 DEF IInv, Types, Claimed, Syncing, Becomes
<1>4. Unborn'
    BY <1>1 DEF IInv, Types, Unborn, Exists, Becomes
<1>5. Copies'
    BY <1>1 DEF IInv, Types, Copies, CopyAgrees, Fetched, Exists, Becomes
<1>6. Told'
    BY <1>1 DEF IInv, Types, Told, Recording, Tells, Exists, Becomes
<1>7. AdminWritesLast'
    BY <1>1 DEF IInv, Types, Exists, AdminWritesLast
<1>8. QED
    BY <1>2, <1>3, <1>4, <1>5, <1>6, <1>7 DEF IInv

\* Reading the row keeps the invariant.
LEMMA LoadKeeps ==
    ASSUME IInv, NEW p \in Procs, LoadFeed(p)
    PROVE  IInv'
<1>1. /\ proc[p].at = "load"
      /\ \/ /\ Exists(proc[p].feed) /\ syncing' = syncing
            /\ Becomes(proc', p, "fetch", proc[p].feed, row[proc[p].feed], proc[p].list,
                       proc[p].err)
         \/ /\ syncing' = syncing \ {proc[p].feed}
            /\ Becomes(proc', p, "idle", None, None, {}, FALSE)
      /\ row' = row /\ entries' = entries /\ created' = created /\ pending' = pending
      /\ stopped' = stopped /\ restarts' = restarts /\ unrecorded' = unrecorded
      /\ wanted' = wanted /\ deleted' = deleted /\ crossed' = crossed /\ touched' = touched
    BY LoadEffect DEF LoadFeed, database, history
<1>2. Types'
    BY <1>1, HasFeed DEF IInv, Types, Becomes, Rows
<1>3. Claimed'
    BY <1>1, HasFeed DEF IInv, Types, Claimed, Syncing, Becomes
<1>4. Unborn'
    BY <1>1, HasFeed DEF IInv, Types, Unborn, Exists, Becomes
<1>5. Copies'
    BY <1>1, HasFeed DEF IInv, Types, Copies, CopyAgrees, Fetched, Exists, Becomes
<1>6. Told'
    BY <1>1, HasFeed DEF IInv, Types, Told, Recording, Tells, Exists, Becomes
<1>7. AdminWritesLast'
    BY <1>1, HasFeed DEF IInv, Types, Exists, AdminWritesLast
<1>8. QED
    BY <1>2, <1>3, <1>4, <1>5, <1>6, <1>7 DEF IInv

\* Fetching the list keeps the invariant.
LEMMA FetchKeeps ==
    ASSUME IInv, NEW p \in Procs, fetchAndParse(p)
    PROVE  IInv'
<1>1. /\ proc[p].at = "fetch"
      /\ \/ \E l \in SUBSET EntryIds :
               Becomes(proc', p, "replace", proc[p].feed, proc[p].copy, l, proc[p].err)
         \/ Becomes(proc', p, "record", proc[p].feed, proc[p].copy, proc[p].list, TRUE)
      /\ row' = row /\ entries' = entries /\ created' = created /\ syncing' = syncing
      /\ pending' = pending /\ stopped' = stopped /\ restarts' = restarts
      /\ unrecorded' = unrecorded /\ wanted' = wanted /\ deleted' = deleted
      /\ crossed' = crossed /\ touched' = touched
    BY FetchEffect DEF fetchAndParse, database, history
<1>2. Types'
    BY <1>1, HasFeed DEF IInv, Types, Becomes, Rows
<1>3. Claimed'
    BY <1>1, HasFeed DEF IInv, Types, Claimed, Syncing, Becomes
<1>4. Unborn'
    BY <1>1, HasFeed DEF IInv, Types, Unborn, Exists, Becomes
<1>5. Copies'
    BY <1>1, HasFeed DEF IInv, Types, Copies, CopyAgrees, Fetched, Exists, Becomes
<1>6. Told'
    BY <1>1, HasFeed DEF IInv, Types, Told, Recording, Tells, Exists, Becomes
<1>7. AdminWritesLast'
    BY <1>1, HasFeed DEF IInv, Types, Exists, AdminWritesLast
<1>8. QED
    BY <1>2, <1>3, <1>4, <1>5, <1>6, <1>7 DEF IInv

\* Replacing the entries keeps the invariant.
LEMMA ReplaceKeeps ==
    ASSUME IInv, NEW p \in Procs, ReplaceFeedEntries(p)
    PROVE  IInv'
<1>1. /\ proc[p].at = "replace" /\ proc[p].feed \in Feeds /\ proc[p].feed \in created
      /\ entries' \in [Feeds -> SUBSET EntryIds]
      /\ \A g \in Feeds \ {proc[p].feed} : entries'[g] = entries[g]
      /\ \E l \in SUBSET EntryIds, e \in BOOLEAN :
            /\ ~e => entries'[proc[p].feed] = l
            /\ Becomes(proc', p, "record", proc[p].feed, proc[p].copy, l, e)
      /\ touched' \subseteq touched /\ touched \subseteq touched' \cup {proc[p].feed}
      /\ Crosses(p, proc[p].feed)
      /\ row' = row /\ created' = created /\ syncing' = syncing /\ pending' = pending
      /\ stopped' = stopped /\ restarts' = restarts /\ unrecorded' = unrecorded
      /\ wanted' = wanted /\ deleted' = deleted
    <2>1. /\ proc[p].at = "replace" /\ proc[p].feed \in Feeds /\ proc[p].feed \in created
          /\ proc[p].list \in SUBSET EntryIds /\ proc[p].err \in BOOLEAN
        BY HasFeed, Still DEF ReplaceFeedEntries, IInv
    <2>2. Crosses(p, proc[p].feed)
        BY CrossEffect DEF ReplaceFeedEntries
    <2>3. /\ row' = row /\ created' = created /\ syncing' = syncing /\ pending' = pending
          /\ stopped' = stopped /\ restarts' = restarts /\ unrecorded' = unrecorded
          /\ wanted' = wanted /\ deleted' = deleted
        BY DEF ReplaceFeedEntries
    <2>4. CASE entries' = entries
               /\ touched' = touched
               /\ Becomes(proc', p, "record", proc[p].feed, proc[p].copy, {}, TRUE)
        BY <2>1, <2>2, <2>3, <2>4 DEF IInv, Types
    <2>5. ASSUME NEW l \in SUBSET EntryIds, NEW e \in BOOLEAN,
                 entries' = [entries EXCEPT ![proc[p].feed] = proc[p].list],
                 Becomes(proc', p, "record", proc[p].feed, proc[p].copy, l, e),
                 ~e => l = proc[p].list
          PROVE  /\ entries' \in [Feeds -> SUBSET EntryIds]
                 /\ \A g \in Feeds \ {proc[p].feed} : entries'[g] = entries[g]
                 /\ ~e => entries'[proc[p].feed] = l
        BY <2>1, <2>5 DEF IInv, Types
    <2>6. {} \in SUBSET EntryIds
        OBVIOUS
    <2>7. QED
        BY <2>1, <2>2, <2>3, <2>4, <2>5, <2>6, ReplaceEffect
<1>2. Types'
    BY <1>1, HasFeed DEF IInv, Types, Becomes, Crosses, Rows
<1>3. Claimed'
    BY <1>1, HasFeed DEF IInv, Types, Claimed, Syncing, Becomes
<1>4. Unborn'
    BY <1>1, HasFeed DEF IInv, Types, Unborn, Exists, Becomes
<1>5. Copies'
    BY <1>1, HasFeed
    DEF IInv, Types, Copies, CopyAgrees, Fetched, Exists, Becomes, Crosses, Holds
<1>6. Told'
    BY <1>1, HasFeed DEF IInv, Types, Told, Recording, Tells, Exists, Becomes, Crosses, Holds
<1>7. AdminWritesLast'
    <2> SUFFICES ASSUME NEW g \in Feeds, g \notin crossed'
                 PROVE  /\ g \in deleted => ~Exists(g) /\ (g \in touched' \/ entries'[g] = {})
                        /\ Exists(g) => row[g].set = wanted[g]
        BY <1>1 DEF AdminWritesLast, Exists
    <2>1. g \notin crossed
        BY <1>1 DEF Crosses
    <2>2. g = proc[p].feed => Exists(g)
        BY <1>1, <2>1 DEF IInv, Copies, CopyAgrees, Fetched
    <2>3. QED
        BY <1>1, <2>1, <2>2 DEF IInv, AdminWritesLast
<1>8. QED
    BY <1>2, <1>3, <1>4, <1>5, <1>6, <1>7 DEF IInv

\* Saving the result keeps the invariant.
LEMMA RecordKeeps ==
    ASSUME IInv, NEW p \in Procs, recordResult(p)
    PROVE  IInv'
<1>1. /\ proc[p].at = "record" /\ proc[p].feed \in Feeds /\ proc[p].feed \in created
      /\ OnlyRow(proc[p].feed)
      /\ \/ /\ row'[proc[p].feed] \in Rows
            /\ row'[proc[p].feed].set = proc[p].copy.set
            /\ row'[proc[p].feed].err = proc[p].err
            /\ row'[proc[p].feed].count = Cardinality(proc[p].list)
            /\ unrecorded' = unrecorded \ {proc[p].feed}
         \/ row' = row /\ unrecorded' = unrecorded \cup {proc[p].feed}
      /\ \/ /\ proc[p].err /\ syncing' = syncing \ {proc[p].feed}
            /\ Becomes(proc', p, "idle", None, None, {}, FALSE)
         \/ /\ ~proc[p].err /\ syncing' = syncing
            /\ Becomes(proc', p, "reload", proc[p].feed, proc[p].copy, proc[p].list,
                        proc[p].err)
      /\ Crosses(p, proc[p].feed)
      /\ entries' = entries /\ created' = created /\ pending' = pending
      /\ stopped' = stopped /\ restarts' = restarts /\ wanted' = wanted
      /\ deleted' = deleted /\ touched' = touched
    <2>1. proc[p].at = "record" /\ proc[p].feed \in Feeds /\ proc[p].feed \in created
        BY HasFeed DEF recordResult
    <2>2. Crosses(p, proc[p].feed)
        BY CrossEffect DEF recordResult
    <2>3. /\ entries' = entries /\ created' = created /\ pending' = pending
          /\ stopped' = stopped /\ restarts' = restarts /\ wanted' = wanted
          /\ deleted' = deleted /\ touched' = touched
        BY DEF recordResult
    <2>4. ASSUME NEW r \in Rows, row' = [row EXCEPT ![proc[p].feed] = r]
          PROVE  OnlyRow(proc[p].feed) /\ row'[proc[p].feed] = r
        BY <2>1, <2>4 DEF OnlyRow, IInv, Types
    <2>5. ASSUME row' = row
          PROVE  OnlyRow(proc[p].feed)
        BY <2>5 DEF OnlyRow, IInv, Types
    <2>6. QED
        BY <2>1, <2>2, <2>3, <2>4, <2>5, RecordEffect
<1>2. Types'
    BY <1>1, HasFeed DEF IInv, Types, Becomes, Crosses, OnlyRow, Rows
<1>3. Claimed'
    BY <1>1, HasFeed DEF IInv, Types, Claimed, Syncing, Becomes, OnlyRow
<1>4. Unborn'
    BY <1>1, HasFeed DEF IInv, Types, Unborn, Exists, OnlyRow, Becomes
<1>5. Copies'
    BY <1>1, HasFeed
    DEF IInv, Types, Copies, CopyAgrees, Fetched, Exists, Becomes, Crosses, Holds, OnlyRow
<1>6. Told'
    <2> DEFINE f == proc[p].feed
    <2> SUFFICES ASSUME NEW g \in Feeds, g \notin crossed', g \notin unrecorded',
                        g \notin touched
                 PROVE  Recording(g)' \/ Tells(g)'
        BY <1>1 DEF Told
    <2>1. CASE g = f
        <3>1. f \notin crossed /\ CopyAgrees(p, f)
            BY <1>1, <2>1 DEF Crosses, IInv, Copies, Fetched
        <3>2. ~proc[p].err => entries[f] = proc[p].list
            BY <1>1, <2>1, <3>1 DEF CopyAgrees
        <3>3. row'[f].err = proc[p].err /\ row'[f].count = Cardinality(proc[p].list)
            BY <1>1, <2>1
        <3>4. QED
            BY <1>1, <2>1, <3>2, <3>3 DEF Tells
    <2>2. CASE g # f
        <3>1. /\ g \notin crossed /\ g \notin unrecorded
              /\ row'[g] = row[g] /\ entries'[g] = entries[g]
            BY <1>1, <2>2 DEF Crosses, OnlyRow
        <3>2. Tells(g) => Tells(g)'
            BY <3>1 DEF Tells, Exists
        <3>3. Recording(g) => Recording(g)'
            BY <1>1, <2>2 DEF Recording, Becomes
        <3>4. QED
            BY <3>1, <3>2, <3>3 DEF IInv, Told
    <2>3. QED
        BY <2>1, <2>2
<1>7. AdminWritesLast'
    <2> DEFINE f == proc[p].feed
    <2> SUFFICES ASSUME NEW g \in Feeds, g \notin crossed'
                 PROVE  /\ g \in deleted => ~Exists(g)' /\ (g \in touched \/ entries[g] = {})
                        /\ Exists(g)' => row'[g].set = wanted[g]
        BY <1>1 DEF AdminWritesLast
    <2>1. g \notin crossed
        BY <1>1 DEF Crosses
    <2>2. g = f => Exists(g) /\ proc[p].copy.set = row[g].set
        BY <1>1, <2>1 DEF IInv, Copies, CopyAgrees, Fetched
    <2>3. g # f => row'[g] = row[g]
        BY <1>1 DEF OnlyRow
    <2>4. QED
        BY <1>1, <2>1, <2>2, <2>3 DEF IInv, AdminWritesLast, Exists
<1>8. QED
    BY <1>2, <1>3, <1>4, <1>5, <1>6, <1>7 DEF IInv

\* The reload after a sync keeps the invariant.
LEMMA SyncReloadKeeps ==
    ASSUME IInv, NEW p \in Procs, SyncReload(p)
    PROVE  IInv'
<1>1. /\ proc[p].at = "reload" /\ syncing' = syncing \ {proc[p].feed}
      /\ Becomes(proc', p, "idle", None, None, {}, FALSE)
      /\ row' = row /\ entries' = entries /\ created' = created /\ pending' = pending
      /\ stopped' = stopped /\ restarts' = restarts /\ unrecorded' = unrecorded
      /\ wanted' = wanted /\ deleted' = deleted /\ crossed' = crossed /\ touched' = touched
    BY ReturnsEffect DEF SyncReload, Leave, database, history
<1>2. Types'
    BY <1>1, HasFeed DEF IInv, Types, Becomes, Rows
<1>3. Claimed'
    BY <1>1, HasFeed DEF IInv, Types, Claimed, Syncing, Becomes
<1>4. Unborn'
    BY <1>1, HasFeed DEF IInv, Types, Unborn, Exists, Becomes
<1>5. Copies'
    BY <1>1, HasFeed DEF IInv, Types, Copies, CopyAgrees, Fetched, Exists, Becomes
<1>6. Told'
    BY <1>1, HasFeed DEF IInv, Types, Told, Recording, Tells, Exists, Becomes
<1>7. AdminWritesLast'
    BY <1>1, HasFeed DEF IInv, Types, Exists, AdminWritesLast
<1>8. QED
    BY <1>2, <1>3, <1>4, <1>5, <1>6, <1>7 DEF IInv

\* Creating a feed keeps the invariant.
LEMMA CreateKeeps ==
    ASSUME IInv, NEW a \in Admins, NEW f \in Feeds, CreateThreatIntelFeed(a, f)
    PROVE  IInv'
<1>1. /\ a \in Procs /\ proc[a].at = "idle" /\ f \notin created
      /\ Becomes(proc', a, "apply", f, proc[a].copy, proc[a].list, proc[a].err)
      /\ OnlyRow(f) /\ row'[f] \in Rows /\ row'[f].err = FALSE /\ row'[f].count = 0
      /\ wanted' = [wanted EXCEPT ![f] = row'[f].set] /\ row'[f].set \in Settings
      /\ created' = created \cup {f}
      /\ entries' = entries /\ syncing' = syncing /\ pending' = pending
      /\ stopped' = stopped /\ restarts' = restarts /\ unrecorded' = unrecorded
      /\ deleted' = deleted /\ crossed' = crossed /\ touched' = touched
    <2>1. PICK s \in Settings, e \in BOOLEAN :
             /\ row' = [row EXCEPT ![f] = [set |-> s, enabled |-> e, last |-> "never",
                                           err |-> FALSE, count |-> 0]]
             /\ wanted' = [wanted EXCEPT ![f] = s]
        BY DEF CreateThreatIntelFeed, Save
    <2> DEFINE r == [set |-> s, enabled |-> e, last |-> "never", err |-> FALSE, count |-> 0]
    <2>2. 0 \in 0..Cardinality(EntryIds)
        BY FeedsAssumption, FS_CardinalityType
    <2>3. r \in Rows /\ r.set = s /\ r.err = FALSE /\ r.count = 0
        BY <2>2 DEF Rows
    <2>4. row' = [row EXCEPT ![f] = r] /\ wanted' = [wanted EXCEPT ![f] = s]
        BY <2>1
    <2> HIDE DEF r
    <2>5. OnlyRow(f) /\ row'[f] = r
        BY <2>3, <2>4 DEF OnlyRow, IInv, Types
    <2>6. Becomes(proc', a, "apply", f, proc[a].copy, proc[a].list, proc[a].err)
        BY ApplyEffect DEF CreateThreatIntelFeed, Procs
    <2>7. QED
        BY <2>3, <2>4, <2>5, <2>6 DEF CreateThreatIntelFeed, Procs
<1>2. Types'
    BY <1>1 DEF IInv, Types, Becomes, OnlyRow, Rows
<1>3. Claimed'
    BY <1>1 DEF IInv, Types, Claimed, Syncing, Becomes, OnlyRow
<1>4. Unborn'
    BY <1>1 DEF IInv, Types, Unborn, Exists, OnlyRow, Becomes
<1>5. Copies'
    <2> SUFFICES ASSUME NEW q \in Procs, proc'[q].at \in Fetched \cup {"save"}
                 PROVE  /\ proc'[q].copy # None
                        /\ proc'[q].feed \notin crossed => CopyAgrees(q, proc[q].feed)'
        BY <1>1 DEF Copies, Becomes, Fetched
    <2>1. q # a /\ proc'[q] = proc[q]
        BY <1>1 DEF Becomes, Fetched
    <2>2. proc[q].feed \in created /\ proc[q].feed \in Feeds
        BY <2>1, HasFeed DEF Fetched
    <2>3. row'[proc[q].feed] = row[proc[q].feed]
        BY <1>1, <2>2 DEF OnlyRow
    <2>4. QED
        BY <1>1, <2>1, <2>2, <2>3 DEF IInv, Copies, CopyAgrees, Exists
<1>6. Told'
    <2> SUFFICES ASSUME NEW g \in Feeds, g \notin crossed, g \notin unrecorded,
                        g \notin touched
                 PROVE  Recording(g)' \/ Tells(g)'
        BY <1>1 DEF Told
    <2>1. CASE g = f
        BY <1>1, <2>1, FS_EmptySet DEF IInv, Unborn, Tells
    <2>2. CASE g # f
        <3>1. Tells(g) => Tells(g)'
            BY <1>1, <2>2 DEF Tells, Exists, OnlyRow
        <3>2. Recording(g) => Recording(g)'
            BY <1>1 DEF Recording, Becomes
        <3>3. QED
            BY <3>1, <3>2 DEF IInv, Told
    <2>3. QED
        BY <2>1, <2>2
<1>7. AdminWritesLast'
    BY <1>1 DEF IInv, Types, Exists, AdminWritesLast, OnlyRow
<1>8. QED
    BY <1>2, <1>3, <1>4, <1>5, <1>6, <1>7 DEF IInv

\* An edit that begins keeps the invariant.
LEMMA UpdateKeeps ==
    ASSUME IInv, NEW a \in Admins, NEW f \in Feeds, UpdateThreatIntelFeed(a, f)
    PROVE  IInv'
<1>1. /\ a \in Procs /\ proc[a].at = "idle" /\ Exists(f)
      /\ \E c \in Rows : /\ c.err = row[f].err /\ c.count = row[f].count
                        /\ Becomes(proc', a, "save", f, c, {}, FALSE)
      /\ row' = row /\ entries' = entries /\ created' = created /\ syncing' = syncing
      /\ pending' = pending /\ stopped' = stopped /\ restarts' = restarts
      /\ unrecorded' = unrecorded /\ wanted' = wanted /\ deleted' = deleted
      /\ crossed' = crossed /\ touched' = touched
    BY UpdateEffect DEF UpdateThreatIntelFeed, database, history, Procs
<1>2. Types'
    BY <1>1 DEF IInv, Types, Becomes, Rows
<1>3. Claimed'
    <2>1. PICK c \in Rows : Becomes(proc', a, "save", f, c, {}, FALSE)
        BY <1>1
    <2>2. f \in created
        BY <1>1 DEF IInv, Unborn
    <2>3. \A p \in Procs : Syncing(p)' <=> Syncing(p)
        BY <1>1, <2>1 DEF Becomes, Syncing
    <2>4. \A p \in Procs : Syncing(p) => proc'[p] = proc[p]
        BY <1>1, <2>1 DEF Becomes, Syncing
    <2>5. \A p \in Procs : /\ proc'[p].at = "save" => proc'[p].feed \in created
                           /\ proc'[p].at = "put" => proc'[p].feed \in Feeds
        <3>1. proc'[a].at = "save" /\ proc'[a].feed = f
            BY <1>1, <2>1 DEF Becomes
        <3>2. \A p \in Procs \ {a} : proc'[p] = proc[p]
            BY <2>1 DEF Becomes
        <3>3. QED
            BY <2>2, <3>1, <3>2 DEF IInv, Claimed
    <2>6. QED
        BY <1>1, <2>3, <2>4, <2>5 DEF IInv, Claimed
<1>4. Unborn'
    BY <1>1 DEF IInv, Types, Unborn, Exists, Becomes
<1>5. Copies'
    <2>1. PICK c \in Rows : /\ c.err = row[f].err /\ c.count = row[f].count
                            /\ Becomes(proc', a, "save", f, c, {}, FALSE)
        BY <1>1
    <2> SUFFICES ASSUME NEW q \in Procs, proc'[q].at \in Fetched \cup {"save"}
                 PROVE  /\ proc'[q].copy # None
                        /\ proc'[q].feed \notin crossed => CopyAgrees(q, proc[q].feed)'
        BY <1>1 DEF Copies
    <2>2. CASE q = a
        BY <1>1, <2>1, <2>2, RowsAssumption DEF CopyAgrees, Becomes, Exists, Fetched
    <2>3. CASE q # a
        BY <1>1, <2>1, <2>3 DEF IInv, Copies, CopyAgrees, Becomes, Exists
    <2>4. QED
        BY <2>2, <2>3
<1>6. Told'
    BY <1>1 DEF IInv, Types, Told, Recording, Tells, Exists, Becomes
<1>7. AdminWritesLast'
    BY <1>1 DEF IInv, Types, Exists, AdminWritesLast
<1>8. QED
    BY <1>2, <1>3, <1>4, <1>5, <1>6, <1>7 DEF IInv

\* Saving an edit keeps the invariant.
LEMMA UpdateSaveKeeps ==
    ASSUME IInv, NEW a \in Admins, UpdateSave(a)
    PROVE  IInv'
<1>1. /\ a \in Procs /\ proc[a].at = "save" /\ proc[a].feed \in Feeds /\ proc[a].feed \in created
      /\ proc[a].copy \in Rows
      /\ \/ /\ row' = [row EXCEPT ![proc[a].feed] = proc[a].copy]
            /\ wanted' = [wanted EXCEPT ![proc[a].feed] = proc[a].copy.set]
            /\ Crosses(a, proc[a].feed)
            /\ Becomes(proc', a, "apply", proc[a].feed, proc[a].copy, proc[a].list, proc[a].err)
         \/ /\ row' = row /\ wanted' = wanted /\ crossed' = crossed
            /\ Becomes(proc', a, "idle", None, None, {}, FALSE)
      /\ entries' = entries /\ created' = created /\ syncing' = syncing
      /\ pending' = pending /\ stopped' = stopped /\ restarts' = restarts
      /\ unrecorded' = unrecorded /\ deleted' = deleted /\ touched' = touched
    <2>1. a \in Procs /\ proc[a].at = "save"
        BY DEF UpdateSave, Procs
    <2>2. /\ proc[a].feed \in Feeds /\ proc[a].feed \in created /\ proc[a].copy \in Rows
          /\ proc[a].list \in SUBSET EntryIds /\ proc[a].err \in BOOLEAN
        BY <2>1, HasFeed, Still DEF IInv, Copies
    <2>3. QED
        BY <2>1, <2>2, GoesEffect, ReturnsEffect, CrossEffect DEF UpdateSave, Save, Stages
<1>2. Types'
    BY <1>1, HasFeed DEF IInv, Types, Becomes, Crosses, Rows
<1>3. Claimed'
    BY <1>1, HasFeed DEF IInv, Types, Claimed, Syncing, Becomes
<1>4. Unborn'
    BY <1>1, HasFeed DEF IInv, Types, Unborn, Exists, Becomes
<1>5. Copies'
    BY <1>1, HasFeed
    DEF IInv, Types, Copies, CopyAgrees, Fetched, Exists, Becomes, Crosses, Holds
<1>6. Told'
    <2> DEFINE f == proc[a].feed
    <2> SUFFICES ASSUME NEW g \in Feeds, g \notin crossed', g \notin unrecorded,
                        g \notin touched
                 PROVE  Recording(g)' \/ Tells(g)'
        BY <1>1 DEF Told
    <2>1. g \notin crossed
        BY <1>1 DEF Crosses
    <2>2. g = f => CopyAgrees(a, g)
        BY <1>1, <2>1 DEF IInv, Copies
    <2>3. Recording(g) => Recording(g)'
        BY <1>1 DEF Recording, Becomes
    <2>4. Tells(g) => Tells(g)'
        <3>1. CASE g = f /\ row' # row
            BY <1>1, <2>2, <3>1 DEF Tells, CopyAgrees, IInv, Types
        <3>2. CASE ~(g = f /\ row' # row)
            BY <1>1, <3>2 DEF Tells, Exists, IInv, Types
        <3>3. QED
            BY <3>1, <3>2
    <2>5. QED
        BY <2>1, <2>3, <2>4 DEF IInv, Told
<1>7. AdminWritesLast'
    <2> DEFINE f == proc[a].feed
    <2> SUFFICES ASSUME NEW g \in Feeds, g \notin crossed'
                 PROVE  /\ g \in deleted => ~Exists(g)' /\ (g \in touched \/ entries[g] = {})
                        /\ Exists(g)' => row'[g].set = wanted'[g]
        BY <1>1 DEF AdminWritesLast
    <2>1. g \notin crossed
        BY <1>1 DEF Crosses
    <2>2. g = f => Exists(g)
        BY <1>1, <2>1 DEF IInv, Copies, CopyAgrees
    <2>3. CASE /\ row' = [row EXCEPT ![f] = proc[a].copy]
               /\ wanted' = [wanted EXCEPT ![f] = proc[a].copy.set]
        <3>1. CASE g = f
            <4>1. row'[g] = proc[a].copy /\ wanted'[g] = proc[a].copy.set
                BY <1>1, <2>3, <3>1 DEF IInv, Types
            <4>2. g \notin deleted
                BY <2>1, <2>2, <3>1 DEF IInv, AdminWritesLast
            <4>3. QED
                BY <4>1, <4>2
        <3>2. CASE g # f
            <4>1. row'[g] = row[g] /\ wanted'[g] = wanted[g]
                BY <2>3, <3>2 DEF IInv, Types
            <4>2. QED
                BY <2>1, <4>1 DEF IInv, AdminWritesLast, Exists
        <3>3. QED
            BY <3>1, <3>2
    <2>4. CASE row' = row /\ wanted' = wanted
        BY <2>1, <2>4 DEF IInv, AdminWritesLast, Exists
    <2>5. QED
        BY <1>1, <2>3, <2>4
<1>8. QED
    BY <1>2, <1>3, <1>4, <1>5, <1>6, <1>7 DEF IInv

\* Deleting a feed keeps the invariant.
LEMMA DeleteKeeps ==
    ASSUME IInv, NEW a \in Admins, NEW f \in Feeds, DeleteThreatIntelFeed(a, f)
    PROVE  IInv'
<1>1. /\ a \in Procs /\ proc[a].at = "idle" /\ f \in created
      /\ row' = [row EXCEPT ![f] = None] /\ entries' = [entries EXCEPT ![f] = {}]
      /\ Becomes(proc', a, "apply", f, proc[a].copy, proc[a].list, proc[a].err)
      /\ deleted' = deleted \cup {f} /\ touched' = touched \ {f} /\ Crosses(a, f)
      /\ created' = created /\ syncing' = syncing /\ pending' = pending
      /\ stopped' = stopped /\ restarts' = restarts /\ unrecorded' = unrecorded
      /\ wanted' = wanted
    BY ApplyEffect, CrossEffect DEF DeleteThreatIntelFeed, Procs
<1>2. Types'
    BY <1>1 DEF IInv, Types, Becomes, Crosses, Rows
<1>3. Claimed'
    BY <1>1 DEF IInv, Types, Claimed, Syncing, Becomes
<1>4. Unborn'
    BY <1>1 DEF IInv, Types, Unborn, Exists, Becomes
<1>5. Copies'
    BY <1>1 DEF IInv, Types, Copies, CopyAgrees, Fetched, Exists, Becomes, Crosses, Holds
<1>6. Told'
    BY <1>1 DEF IInv, Types, Told, Recording, Tells, Exists, Becomes, Crosses, Holds
<1>7. AdminWritesLast'
    BY <1>1 DEF IInv, Types, Exists, AdminWritesLast, Crosses
<1>8. QED
    BY <1>2, <1>3, <1>4, <1>5, <1>6, <1>7 DEF IInv

\* An admin wrote entries of feed f by hand: they changed only if that was noted.
HandWritten(f) ==
    /\ entries' \in [Feeds -> SUBSET EntryIds]
    /\ \A g \in Feeds : g = f \/ entries'[g] = entries[g]
    /\ f \in touched' \/ entries'[f] = entries[f]

\* A step of an admin that only writes entries keeps the invariant.
LEMMA HandKeeps ==
    ASSUME IInv, NEW a \in Procs, proc[a].at \in {"idle", "put"}, NEW f \in Feeds,
           HandWritten(f), touched' \in {touched, touched \cup {f}},
           NEW s \in {"idle", "apply"}, NEW g, NEW c, NEW l, NEW e,
           Becomes(proc', a, s, g, c, l, e),
           UNCHANGED <<row, created, syncing, pending, stopped, restarts, unrecorded, wanted,
                       deleted, crossed>>
    PROVE  IInv'
<1>1. touched \subseteq touched' /\ touched' \subseteq Feeds
    BY DEF IInv, Types
<1>2. Types'
    BY <1>1 DEF IInv, Types, Becomes, HandWritten, Rows
<1>3. Claimed'
    BY DEF IInv, Types, Claimed, Syncing, Becomes
<1>4. Unborn'
    BY <1>1 DEF IInv, Types, Unborn, Exists, HandWritten
<1>5. Copies'
    <2> SUFFICES ASSUME NEW q \in Procs, proc'[q].at \in Fetched \cup {"save"}
                 PROVE  /\ proc'[q].copy # None
                        /\ proc'[q].feed \notin crossed => CopyAgrees(q, proc[q].feed)'
        BY DEF Copies, Becomes, Fetched
    <2>1. q # a /\ proc'[q] = proc[q]
        BY DEF Becomes, Fetched
    <2>2. proc[q].feed \in Feeds
        BY <2>1, HasFeed DEF Fetched
    <2>3. proc[q].feed \notin touched' =>
             proc[q].feed \notin touched /\ entries'[proc[q].feed] = entries[proc[q].feed]
        BY <1>1, <2>2 DEF HandWritten
    <2>4. QED
        BY <2>1, <2>3 DEF IInv, Copies, CopyAgrees, Exists
<1>6. Told'
    <2> SUFFICES ASSUME NEW h \in Feeds, h \notin crossed, h \notin unrecorded, h \notin touched'
                 PROVE  Recording(h)' \/ Tells(h)'
        BY DEF Told
    <2>1. h \notin touched /\ entries'[h] = entries[h]
        BY <1>1 DEF HandWritten
    <2>2. Recording(h) => Recording(h)'
        BY DEF Recording, Becomes
    <2>3. Tells(h) => Tells(h)'
        BY <2>1 DEF Tells, Exists
    <2>4. QED
        BY <2>1, <2>2, <2>3 DEF IInv, Told
<1>7. AdminWritesLast'
    BY <1>1 DEF IInv, Exists, AdminWritesLast, HandWritten
<1>8. QED
    BY <1>2, <1>3, <1>4, <1>5, <1>6, <1>7 DEF IInv

\* An entry added by hand keeps the invariant.
LEMMA CreateIPKeeps ==
    ASSUME IInv, NEW a \in Admins, NEW f \in Feeds, CreateIPEntry(a, f)
    PROVE  IInv'
<1>1. /\ a \in Procs /\ proc[a].at = "idle"
      /\ \E e \in EntryIds : entries' = [entries EXCEPT ![f] = entries[f] \cup {e}]
    BY DEF CreateIPEntry, Unused, Procs
<1>2. Becomes(proc', a, "apply", proc[a].feed, proc[a].copy, proc[a].list, proc[a].err)
    BY <1>1, GoesEffect DEF CreateIPEntry, Stages
<1>3. HandWritten(f) /\ touched' = touched \cup {f}
    BY <1>1 DEF CreateIPEntry, HandWritten, IInv, Types
<1>4. QED
    BY <1>1, <1>2, <1>3, HandKeeps DEF CreateIPEntry

\* An entry deleted by hand keeps the invariant.
LEMMA DeleteIPKeeps ==
    ASSUME IInv, NEW a \in Admins, NEW f \in Feeds, DeleteIPEntry(a, f)
    PROVE  IInv'
<1>1. /\ a \in Procs /\ proc[a].at = "idle"
      /\ \E e \in entries[f] : entries' = [entries EXCEPT ![f] = entries[f] \ {e}]
    BY DEF DeleteIPEntry, Procs
<1>2. Becomes(proc', a, "apply", proc[a].feed, proc[a].copy, proc[a].list, proc[a].err)
    BY <1>1, GoesEffect DEF DeleteIPEntry, Stages
<1>3. HandWritten(f) /\ touched' = touched \cup {f}
    BY <1>1 DEF DeleteIPEntry, HandWritten, IInv, Types
<1>4. QED
    BY <1>1, <1>2, <1>3, HandKeeps DEF DeleteIPEntry

\* Reading an entry to edit it keeps the invariant.
LEMMA UpdateIPKeeps ==
    ASSUME IInv, NEW a \in Admins, NEW f \in Feeds, UpdateIPEntry(a, f)
    PROVE  IInv'
<1>1. PICK e \in entries[f] :
             proc' = [proc EXCEPT ![a] = [Idle EXCEPT !.at = "put", !.feed = f, !.list = {e}]]
    BY DEF UpdateIPEntry
<1> DEFINE x == [Idle EXCEPT !.at = "put"]
           y == [x EXCEPT !.feed = f]
           z == [y EXCEPT !.list = {e}]
<1>2. z \in ProcStates /\ z.at = "put" /\ z.feed = f /\ z.copy = None /\ z.list = {e} /\ z.err = FALSE
    <2>1. {e} \in SUBSET EntryIds
        BY DEF IInv, Types
    <2>2. x \in ProcStates /\ x.at = "put" /\ x.copy = None /\ x.err = FALSE
        BY DEF Idle, ProcStates, Stages
    <2> HIDE DEF x
    <2>3. y \in ProcStates /\ y.at = "put" /\ y.feed = f /\ y.copy = None /\ y.err = FALSE
        BY <2>2, SMT DEF ProcStates
    <2> HIDE DEF y
    <2>4. QED
        BY <2>1, <2>3, SMT DEF ProcStates
<1>3. proc' = [proc EXCEPT ![a] = z]
    BY <1>1
<1> HIDE DEF z
<1>4. a \in Procs /\ Becomes(proc', a, "put", f, None, {e}, FALSE)
    BY <1>2, <1>3, SetTo DEF IInv, Procs
<1>5. /\ proc[a].at = "idle"
      /\ row' = row /\ entries' = entries /\ created' = created /\ syncing' = syncing
      /\ pending' = pending /\ stopped' = stopped /\ restarts' = restarts
      /\ unrecorded' = unrecorded /\ wanted' = wanted /\ deleted' = deleted
      /\ crossed' = crossed /\ touched' = touched
    BY DEF UpdateIPEntry, database, history
<1>6. Types'
    BY <1>4, <1>5 DEF IInv, Types, Becomes, Rows
<1>7. Claimed'
    BY <1>4, <1>5 DEF IInv, Types, Claimed, Syncing, Becomes
<1>8. Unborn'
    BY <1>5 DEF IInv, Types, Unborn, Exists
<1>9. Copies'
    BY <1>4, <1>5 DEF IInv, Types, Copies, CopyAgrees, Fetched, Exists, Becomes
<1>10. Told'
    BY <1>4, <1>5 DEF IInv, Types, Told, Recording, Tells, Exists, Becomes
<1>11. AdminWritesLast'
    BY <1>5 DEF IInv, Types, Exists, AdminWritesLast
<1>12. QED
    BY <1>6, <1>7, <1>8, <1>9, <1>10, <1>11 DEF IInv

\* Saving an edited entry, which may bring it back, keeps the invariant.
LEMMA UpdateIPSaveKeeps ==
    ASSUME IInv, NEW a \in Admins, UpdateIPSave(a)
    PROVE  IInv'
<1> DEFINE f == proc[a].feed
<1>1. a \in Procs /\ proc[a].at = "put" /\ f \in Feeds /\ proc[a].list \in SUBSET EntryIds
    BY Still DEF UpdateIPSave, Procs, IInv, Claimed
<1>2. CASE Returns(a) /\ UNCHANGED <<entries, touched>>
    <2>1. Becomes(proc', a, "idle", None, None, {}, FALSE)
        BY <1>1, <1>2, ReturnsEffect
    <2>2. HandWritten(f)
        BY <1>1, <1>2 DEF HandWritten, IInv, Types
    <2>3. QED
        BY <1>1, <1>2, <2>1, <2>2, HandKeeps DEF UpdateIPSave
<1>3. CASE /\ entries' = [entries EXCEPT ![f] = entries[f] \cup proc[a].list]
           /\ touched' = IF proc[a].list \subseteq entries[f] THEN touched ELSE touched \cup {f}
           /\ Goes(a, "apply")
    <2>1. Becomes(proc', a, "apply", proc[a].feed, proc[a].copy, proc[a].list, proc[a].err)
        BY <1>1, <1>3, GoesEffect DEF Stages
    <2>2. HandWritten(f)
        BY <1>1, <1>3 DEF HandWritten, IInv, Types
    <2>3. touched' \in {touched, touched \cup {f}}
        BY <1>3
    <2>4. QED
        BY <1>1, <2>1, <2>2, <2>3, HandKeeps DEF UpdateIPSave
<1>4. QED
    BY <1>2, <1>3 DEF UpdateIPSave

\* The reload after a request keeps the invariant.
LEMMA AdminReloadKeeps ==
    ASSUME IInv, NEW a \in Admins, AdminReload(a)
    PROVE  IInv'
<1>1. /\ a \in Procs /\ proc[a].at = "apply"
      /\ Becomes(proc', a, "idle", None, None, {}, FALSE)
      /\ row' = row /\ entries' = entries /\ created' = created /\ syncing' = syncing
      /\ pending' = pending /\ stopped' = stopped /\ restarts' = restarts
      /\ unrecorded' = unrecorded /\ wanted' = wanted /\ deleted' = deleted
      /\ crossed' = crossed /\ touched' = touched
    BY ReturnsEffect DEF AdminReload, database, history, Procs
<1>2. Types'
    BY <1>1 DEF IInv, Types, Becomes, Rows
<1>3. Claimed'
    BY <1>1 DEF IInv, Types, Claimed, Syncing, Becomes
<1>4. Unborn'
    BY <1>1 DEF IInv, Types, Unborn, Exists, Becomes
<1>5. Copies'
    BY <1>1 DEF IInv, Types, Copies, CopyAgrees, Fetched, Exists, Becomes
<1>6. Told'
    BY <1>1 DEF IInv, Types, Told, Recording, Tells, Exists, Becomes
<1>7. AdminWritesLast'
    BY <1>1 DEF IInv, Types, Exists, AdminWritesLast
<1>8. QED
    BY <1>2, <1>3, <1>4, <1>5, <1>6, <1>7 DEF IInv

\* The end of an interval keeps the invariant.
LEMMA ElapseKeeps ==
    ASSUME IInv, NEW f \in Feeds, Elapse(f)
    PROVE  IInv'
<1>1. /\ proc' \in [Procs -> ProcStates] /\ row' \in [Feeds -> Rows \cup {None}]
      /\ \A p \in Procs : /\ proc'[p].at = proc[p].at /\ proc'[p].feed = proc[p].feed
                          /\ proc'[p].list = proc[p].list /\ proc'[p].err = proc[p].err
                          /\ Same(proc'[p].copy, proc[p].copy)
      /\ \A g \in Feeds : Same(row'[g], row[g])
      /\ entries' = entries /\ created' = created /\ syncing' = syncing
      /\ pending' = pending /\ stopped' = stopped /\ restarts' = restarts
      /\ unrecorded' = unrecorded /\ wanted' = wanted /\ deleted' = deleted
      /\ crossed' = crossed /\ touched' = touched
    <2>1. ASSUME NEW r \in Rows \cup {None}
          PROVE  Same(Aged(r), r) /\ Same(r, r)
        BY AgedEffect DEF Same
    <2>2. ASSUME NEW p \in Procs
          PROVE  /\ proc'[p].at = proc[p].at /\ proc'[p].feed = proc[p].feed
                 /\ proc'[p].list = proc[p].list /\ proc'[p].err = proc[p].err
                 /\ Same(proc'[p].copy, proc[p].copy) /\ proc'[p] \in ProcStates
        <3> DEFINE c == Aged(proc[p].copy)
        <3>1. /\ c \in Rows \cup {None} /\ proc[p] \in ProcStates
              /\ proc[p].copy \in Rows \cup {None}
            BY AgedEffect, Still DEF IInv, Types
        <3>2. proc'[p] = IF proc[p].feed = f THEN [proc[p] EXCEPT !.copy = c] ELSE proc[p]
            BY DEF Elapse
        <3>3. Same(c, proc[p].copy) /\ Same(proc[p].copy, proc[p].copy)
            BY <2>1, <3>1
        <3> HIDE DEF c
        <3>4. CASE proc[p].feed = f
            <4> DEFINE y == [proc[p] EXCEPT !.copy = c]
            <4>1. /\ y \in ProcStates /\ y.copy = c /\ y.at = proc[p].at /\ y.feed = proc[p].feed
                  /\ y.list = proc[p].list /\ y.err = proc[p].err
                BY <3>1, SMT DEF ProcStates
            <4>2. proc'[p] = y
                BY <3>2, <3>4
            <4> HIDE DEF y
            <4>3. QED
                BY <3>3, <4>1, <4>2
        <3>5. CASE proc[p].feed # f
            BY <3>1, <3>2, <3>3, <3>5
        <3>6. QED
            BY <3>4, <3>5
    <2>3. proc' \in [Procs -> ProcStates]
        BY <2>2 DEF Elapse
    <2>4. row' \in [Feeds -> Rows \cup {None}] /\ \A g \in Feeds : Same(row'[g], row[g])
        <3>1. row \in [Feeds -> Rows \cup {None}]
            BY DEF IInv, Types
        <3>2. CASE row' = row
            BY <2>1, <3>1, <3>2
        <3>3. CASE row' = [row EXCEPT ![f] = Aged(row[f])]
            BY <2>1, <3>1, <3>3, AgedEffect
        <3>4. QED
            BY <3>2, <3>3 DEF Elapse
    <2>5. QED
        BY <2>2, <2>3, <2>4 DEF Elapse, history
<1>2. Types'
    BY <1>1 DEF IInv, Types, Rows
<1>3. Claimed'
    BY <1>1 DEF IInv, Types, Claimed, Syncing
<1>4. Unborn'
    BY <1>1 DEF IInv, Types, Unborn, Exists, Same
<1>5. Copies'
    <2> SUFFICES ASSUME NEW q \in Procs, proc'[q].at \in Fetched \cup {"save"}
                 PROVE  /\ proc'[q].copy # None
                        /\ proc[q].feed \notin crossed => CopyAgrees(q, proc[q].feed)'
        BY <1>1 DEF Copies
    <2>1. proc[q].copy # None /\ proc'[q].copy # None /\ proc[q].feed \in Feeds
        BY <1>1, HasFeed DEF IInv, Copies, Fetched, Same
    <2>2. ASSUME proc[q].feed \notin crossed
          PROVE  CopyAgrees(q, proc[q].feed)'
        <3> DEFINE g == proc[q].feed
        <3>1. CopyAgrees(q, g)
            BY <1>1, <2>2 DEF IInv, Copies
        <3>2. row[g] # None /\ Same(row'[g], row[g]) /\ Same(proc'[q].copy, proc[q].copy)
            BY <1>1, <2>1, <3>1 DEF CopyAgrees, Exists
        <3>3. /\ proc'[q].feed = proc[q].feed /\ proc'[q].at = proc[q].at
              /\ proc'[q].err = proc[q].err
              /\ proc'[q].list = proc[q].list /\ entries' = entries /\ touched' = touched
            BY <1>1
        <3>4. QED
            BY <2>1, <3>1, <3>2, <3>3 DEF CopyAgrees, Exists, Same
    <2>3. QED
        BY <2>1, <2>2
<1>6. Told'
    BY <1>1 DEF IInv, Types, Told, Recording, Tells, Exists, Same
<1>7. AdminWritesLast'
    BY <1>1 DEF IInv, Types, Exists, AdminWritesLast, Same
<1>8. QED
    BY <1>2, <1>3, <1>4, <1>5, <1>6, <1>7 DEF IInv

\* The initial state satisfies the invariant.
LEMMA InitIInv ==
    Init => IInv
<1> SUFFICES ASSUME Init
             PROVE  IInv
    OBVIOUS
<1>1. proc \in [Procs -> ProcStates]
    BY Started DEF Init
<1>2. \A p \in Procs : proc[p].at \in {"idle", "done"}
    BY Started DEF Init
<1>3. Types
    <2>2. row \in [Feeds -> Rows \cup {None}] /\ entries \in [Feeds -> SUBSET EntryIds]
        BY DEF Init
    <2>3. wanted \in [Feeds -> Settings \cup {None}] /\ restarts \in 0..MaxRestarts
        BY BoundAssumption DEF Init
    <2>4. QED
        BY <1>1, <2>2, <2>3 DEF Init, Types
<1>4. Claimed /\ Unborn
    BY <1>2 DEF Init, Claimed, Syncing, Unborn, Exists
<1>5. Copies /\ Told /\ AdminWritesLast
    BY <1>2 DEF Init, Copies, Fetched, Told, Tells, AdminWritesLast, Exists
<1>6. QED
    BY <1>3, <1>4, <1>5 DEF IInv

\* Every step keeps it.
LEMMA StepIInv ==
    IInv /\ [Next]_vars => IInv'
<1> SUFFICES ASSUME IInv, [Next]_vars
             PROVE  IInv'
    OBVIOUS
<1>1. CASE UNCHANGED vars
    BY <1>1 DEF vars, database, history, IInv, Types, Claimed, Syncing, Unborn, Exists, Copies,
                Fetched, CopyAgrees, Told, Recording, Tells, AdminWritesLast
<1>2. CASE Next
    BY <1>2, RoundKeeps, StopKeeps, LoopExitKeeps, RestartKeeps, SyncFeedKeeps, SyncNowKeeps,
       LoadKeeps, FetchKeeps, ReplaceKeeps, RecordKeeps, SyncReloadKeeps, CreateKeeps,
       UpdateKeeps, UpdateSaveKeeps, DeleteKeeps, CreateIPKeeps, DeleteIPKeeps, UpdateIPKeeps,
       UpdateIPSaveKeeps, AdminReloadKeeps, ElapseKeeps
    DEF Next, SyncStep, AdminStep
<1>3. QED
    BY <1>1, <1>2

-----------------------------------------------------------------------------
(* The theorems                                                              *)

\* IInv holds in every state of every behaviour.
THEOREM Inductive ==
    Spec => []IInv
    BY InitIInv, StepIInv, PTL DEF Spec

\* The state of a feed and of a sync has the types the code declares, and a feed in
\* the syncing set is synced by exactly one goroutine (syncFeedInternal).
THEOREM TypeCorrect ==
    Spec => []TypeOK
<1>1. IInv => TypeOK
    <2> SUFFICES ASSUME IInv
                 PROVE  TypeOK
        OBVIOUS
    <2>1. ASSUME NEW f \in syncing
          PROVE  Cardinality(Syncs(f)) = 1
        <3>1. f \in Feeds
            BY DEF IInv, Types
        <3>2. PICK p \in Procs : Syncing(p) /\ proc[p].feed = f
            BY <2>1 DEF IInv, Claimed
        <3>3. Syncs(f) = {p}
            BY <3>2 DEF IInv, Claimed, Syncs, Syncing
        <3>4. QED
            BY <3>3, FS_Singleton
    <2>2. QED
        BY <2>1 DEF IInv, Types, TypeOK, ProcStates
<1>2. QED
    BY <1>1, Inductive, PTL

\* Whatever loop, manual syncs and restarts do in between, a feed whose last sync
\* could write its result back without an error shows the number of entries it has,
\* unless an edit or a deletion met a sync or its entries were edited by hand since
\* they were replaced (syncFeedInternal, recordResult, CreateIPEntry, UpdateIPEntry and
\* DeleteIPEntry).
THEOREM RowTells ==
    Spec => []RowTellsEntries
<1>1. IInv => RowTellsEntries
    <2> SUFFICES ASSUME IInv, NEW f \in Feeds \ (syncing \cup unrecorded \cup crossed \cup touched)
                 PROVE  Exists(f) /\ ~row[f].err => row[f].count = Cardinality(entries[f])
        BY DEF RowTellsEntries
    <2>1. ~Recording(f)
        BY DEF Recording, IInv, Claimed, Syncing
    <2>2. QED
        BY <2>1 DEF IInv, Told, Tells
<1>2. QED
    BY <1>1, Inductive, PTL

\* A feed an admin deleted keeps neither its row nor its entries, but for entries added
\* by hand later, and the settings of a feed are those saved last, unless two goroutines
\* met on it (recordResult, UpdateThreatIntelFeed, DeleteThreatIntelFeed, UpdateIPEntry).
THEOREM AdminLast ==
    Spec => []AdminWritesLast
<1>1. IInv => AdminWritesLast
    BY DEF IInv
<1>2. QED
    BY <1>1, Inductive, PTL
=============================================================================
