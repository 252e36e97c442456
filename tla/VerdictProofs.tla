----------------------------- MODULE VerdictProofs -----------------------------
(***************************************************************************)
(* Proofs about Verdict for any requests, scripts, ladder and numbers of   *)
(* faults, reloads and expiries: no hit of a phase is hidden by a pending  *)
(* challenge, no verdict is weakened on its way to the client, and no      *)
(* request is escalated for more hits than the client has made.            *)
(***************************************************************************)
EXTENDS Verdict, SequenceTheorems, FiniteSetTheorems, WellFoundedInduction, TLAPS

\* TypeOK without the bound of the Redis counter, which is part of Counts.
Types ==
    /\ lua \in SUBSET Stages
    /\ dropOn \in BOOLEAN /\ redisUp \in BOOLEAN
    /\ redis \in Nat
    /\ heap \in Seq([count : Nat, live : BOOLEAN])
    /\ entry \in DOMAIN heap \cup {None}
    /\ cleaner \in BOOLEAN /\ resetting \in BOOLEAN
    /\ q \in [Requests -> States]
    /\ faults \in 0..MaxFaults /\ reloads \in 0..MaxReloads /\ expiries \in 0..MaxExpiries

\* While Run goes on, the only terminal outcome so far is a pending challenge.
Judging(s) ==
    /\ s.pc = "start" => s.hits = {} /\ ~s.pending
    /\ s.pc = "run" => s.todo # <<>> /\ s.hits = IF s.pending THEN {"challenge"} ELSE {}
    /\ s.pc = "post" =>
          /\ s.verdict = s.builtin
          /\ s.builtin \in {"challenge", "none"} =>
                s.todo = <<>> /\ s.hits = {s.builtin} \cap Terminals

\* v does not weaken the verdict of the pipeline.
Enough(s, v) ==
    Terminal(s.builtin) /\ ~s.waived =>
        \/ TerminalPriority(v) >= TerminalPriority(s.builtin)
        \/ s.builtin = "drop" /\ v = "intercept"

Local == {"recordLocal", "add", "store"}
Escalating == {"record", "evaluate", "evaluateLocal", "delete", "answer"} \cup Local

\* The handler carries out the verdict of the pipeline or a more severe one.
Enforcing(s) ==
    /\ s.pc = "dispatch" /\ Terminal(s.builtin) /\ ~s.waived => s.verdict = s.builtin
    /\ s.pc \in Escalating => Enough(s, s.verdict)
    /\ s.pc = "done" => Enough(s, s.answer)

ToldOf == {r \in Requests : q[r].told}
Recorded == {r \in ToldOf : q[r].pc \notin Local}

\* A request is counted once in Redis and at most once in a local entry, whichever.
Counting(r) ==
    /\ q[r].pc \in {"start", "run", "post", "dispatch", "record"} => ~q[r].told
    /\ q[r].pc \in Local => q[r].told
    /\ q[r].pc = "add" => q[r].ref \in DOMAIN heap
    /\ q[r].seen <= Cardinality(ToldOf)

Counts ==
    /\ redis <= Cardinality(ToldOf)
    /\ \A i \in DOMAIN heap : heap[i].count <= Cardinality(Recorded)

IInv ==
    /\ Types /\ Counts
    /\ \A r \in Requests : Judging(q[r]) /\ Enforcing(q[r]) /\ Counting(r)

-----------------------------------------------------------------------------
(* The operators                                                             *)

\* A set of natural numbers below some n has a greatest element.
LEMMA Greatest ==
    ASSUME NEW n \in Nat, NEW S \in SUBSET (1..n), S # {}
    PROVE  \E i \in S : \A j \in S : j <= i
<1> DEFINE Above(i) == {j \in S : j >= i}
           T == {Above(i) : i \in S}
<1>1. IsFiniteSet(S) /\ S \subseteq Int
    <2>1. IsFiniteSet(1..n)
        BY FS_Interval
    <2>2. IsFiniteSet(S)
        BY <2>1, FS_Subset
    <2>3. QED
        BY <2>2
<1>2. T \subseteq FiniteSubsetsOf(S) /\ T # {}
    <2>1. \A i \in S : Above(i) \subseteq S /\ IsFiniteSet(Above(i))
        BY <1>1, FS_Subset
    <2>2. QED
        BY <2>1 DEF FiniteSubsetsOf
<1>3. IsWellFoundedOn(StrictSubsetOrdering(S), FiniteSubsetsOf(S))
    BY FS_StrictSubsetOrderingWellFounded
<1>4. PICK X \in T : \A Y \in T : <<Y, X>> \notin StrictSubsetOrdering(S)
    BY <1>2, <1>3, WFMin
<1>5. PICK i \in S : X = Above(i)
    OBVIOUS
<1>6. \A j \in S : j <= i
    <2> SUFFICES ASSUME NEW j \in S, j > i PROVE FALSE
        OBVIOUS
    <2>1. Above(j) \subseteq Above(i) /\ i \in Above(i) /\ i \notin Above(j)
        <3>1. i \in Int /\ j \in Int /\ \A k \in S : k \in Int
            BY <1>1
        <3>2. \A k \in S : k >= j => k >= i
            BY <3>1
        <3>3. i >= i /\ ~(i >= j)
            BY <3>1
        <3>4. QED
            BY <3>2, <3>3
    <2>2. <<Above(j), Above(i)>> \in StrictSubsetOrdering(S)
        BY <2>1 DEF StrictSubsetOrdering
    <2>3. QED
        BY <1>4, <1>5, <2>2
<1>7. QED
    BY <1>6

\* resolveAction finds a step of the ladder.
LEMMA ResolveActionType ==
    ASSUME NEW n \in Nat
    PROVE  ResolveAction(n) \in {"none", "challenge", "intercept", "drop"}
<1> DEFINE reached == {i \in DOMAIN Ladder : n >= Ladder[i].threshold}
<1>1. Len(Ladder) \in Nat /\ DOMAIN Ladder = 1..Len(Ladder)
    BY LadderAssumption, LenProperties
<1>2. CASE reached = {}
    BY <1>2 DEF ResolveAction
<1>3. CASE reached # {}
    <2>1. \E i \in reached : \A j \in reached : j <= i
        BY <1>1, <1>3, Greatest
    <2> DEFINE top == CHOOSE i \in reached : \A j \in reached : j <= i
    <2>2. top \in 1..Len(Ladder)
        BY <1>1, <2>1
    <2>3. ResolveAction(n) = Ladder[top].action
        BY <1>3 DEF ResolveAction
    <2>4. Ladder[top] \in [threshold : Nat \ {0}, action : {"challenge", "intercept", "drop"}]
        BY <2>2, LadderAssumption, ElementOfSeq
    <2>5. QED
        BY <2>3, <2>4
<1>4. QED
    BY <1>2, <1>3

\* Escalating a verdict does not weaken it, nor does answering a drop with the
\* block page.
LEMMA EscalatedEnough ==
    ASSUME NEW s \in States, NEW v \in Actions, Enough(s, v),
           NEW up \in {"none", "challenge", "intercept", "drop"}
    PROVE  Escalated(v, up) \in Actions /\ Enough(s, Escalated(v, up))
    BY DEF States, Enough, Escalated, TerminalPriority, Terminal, Terminals, Actions

\* Where dropping the connection is severe enough, so is the block page.
LEMMA BlockPageEnough ==
    ASSUME NEW s \in States, Enough(s, "drop")
    PROVE  Enough(s, "intercept")
    BY DEF States, Enough, TerminalPriority, Terminal, Terminals, Actions

\* Run keeps a pending challenge and every other terminal outcome ends it.
LEMMA ExecutedEffect ==
    ASSUME NEW s \in States, NEW o \in Actions, s.pc = "run", Judging(s)
    PROVE  /\ Executed(s, o) \in States
           /\ Executed(s, o).pc \in {"run", "post"}
           /\ Executed(s, o).told = s.told /\ Executed(s, o).seen = s.seen
           /\ Judging(Executed(s, o))
<1> DEFINE stop == o = "allow" \/ (Terminal(o) /\ o # "challenge")
           pending == s.pending \/ o = "challenge"
           hits == s.hits \cup ({o} \cap Terminals)
           next == [s EXCEPT !.hits = hits, !.pending = pending, !.todo = Tail(@)]
           v == IF stop THEN o ELSE IF pending THEN "challenge" ELSE "none"
<1>1. Tail(s.todo) \in Seq(PhaseNames)
    BY HeadTailProperties DEF Judging, States
<1>2. pending \in BOOLEAN /\ hits \in SUBSET Terminals /\ v \in Actions
    BY DEF States, Terminals, Actions
<1>3. ~stop => hits = IF pending THEN {"challenge"} ELSE {}
    BY DEF Judging, Terminal, Terminals, Actions
<1>4. v \in {"challenge", "none"} => ~stop /\ v = IF pending THEN "challenge" ELSE "none"
    BY DEF Terminal, Terminals
<1>5. Executed(s, o) = IF stop \/ next.todo = <<>> THEN Return(next, v) ELSE next
    BY DEF Executed
<1>6. /\ next \in States /\ next.pc = "run" /\ next.todo = Tail(s.todo)
      /\ next.hits = hits /\ next.pending = pending
      /\ next.told = s.told /\ next.seen = s.seen
    BY <1>1, <1>2 DEF States
<1> HIDE DEF next, v, hits, pending, stop
<1>7. CASE stop \/ next.todo = <<>>
    <2>1. Executed(s, o) = [next EXCEPT !.pc = "post", !.builtin = v, !.verdict = v]
        BY <1>5, <1>7 DEF Return
    <2>2. /\ Executed(s, o) \in States /\ Executed(s, o).pc = "post"
          /\ Executed(s, o).told = s.told /\ Executed(s, o).seen = s.seen
          /\ Executed(s, o).verdict = v /\ Executed(s, o).builtin = v
          /\ Executed(s, o).todo = next.todo /\ Executed(s, o).hits = hits
        BY <1>2, <1>6, <2>1, ZenonT(60) DEF States, Steps
    <2>3. v \in {"challenge", "none"} => next.todo = <<>> /\ hits = {v} \cap Terminals
        BY <1>3, <1>4, <1>7 DEF Terminals
    <2>4. QED
        BY <2>2, <2>3 DEF Judging
<1>8. CASE ~stop /\ next.todo # <<>>
    BY <1>3, <1>5, <1>6, <1>8 DEF Judging
<1>9. QED
    BY <1>7, <1>8

-----------------------------------------------------------------------------
(* What the steps of a request do                                            *)

\* A step of r concerns r alone.
Moves(r) ==
    /\ q' \in [Requests -> States]
    /\ \A x \in Requests \ {r} : q'[x] = q[x]

\* A step of Judge leaves the counters alone and the request untold.
LEMMA JudgeEffect ==
    ASSUME IInv, NEW r \in Requests, Judge(r)
    PROVE  /\ Moves(r) /\ UNCHANGED <<redis, heap, entry, cleaner, resetting>>
           /\ q[r].pc \in {"start", "run", "post"}
           /\ q'[r].pc \in {"run", "post", "dispatch"}
           /\ q'[r].told = q[r].told /\ q'[r].seen = q[r].seen
           /\ Judging(q'[r]) /\ Enforcing(q'[r])
<1> USE DEF Moves
<1>1. q \in [Requests -> States] /\ q[r] \in States /\ Judging(q[r])
    BY DEF IInv, Types
<1>2. CASE Begin(r)
    <2>1. PICK c \in Chains : q' = [q EXCEPT ![r] = [q[r] EXCEPT !.pc = "run", !.todo = c]]
        BY <1>1, <1>2 DEF Begin, States
    <2>2. c \in Seq(PhaseNames) /\ c # <<>>
        <3>1. /\ <<"acl", "detect", "custom">> \in Seq(PhaseNames)
              /\ <<"acl", "lua_pre", "detect", "custom">> \in Seq(PhaseNames)
            BY DEF PhaseNames
        <3>2. /\ <<"acl", "detect", "custom">> # <<>>
              /\ <<"acl", "lua_pre", "detect", "custom">> # <<>>
            OBVIOUS
        <3>3. QED
            BY <3>1, <3>2 DEF Chains
    <2>3. q[r].pc = "start" /\ q[r].hits = {} /\ ~q[r].pending
        BY <1>1, <1>2 DEF Begin, Judging
    <2>4. Moves(r) /\ q'[r] = [q[r] EXCEPT !.pc = "run", !.todo = c]
        BY <1>1, <2>1, <2>2 DEF States, Steps
    <2>5. /\ q'[r].pc = "run" /\ q'[r].todo = c /\ q'[r].hits = {} /\ ~q'[r].pending
          /\ q'[r].told = q[r].told /\ q'[r].seen = q[r].seen
        BY <1>1, <2>3, <2>4 DEF States
    <2>6. QED
        BY <1>2, <2>2, <2>3, <2>4, <2>5
        DEF Begin, counters, Judging, Enforcing, Escalating, Local
<1>3. CASE ExecutePhase(r) \/ ExecuteLuaPre(r)
    <2>1. q[r].pc = "run"
        BY <1>3 DEF ExecutePhase, ExecuteLuaPre, AtPhase
    <2>2. \A act \in Evaluate("pre") : Known(act) \in Actions
        BY DEF Known, Actions
    <2>3. PICK o \in Actions : q' = [q EXCEPT ![r] = Executed(q[r], o)]
        <3>1. CASE ExecutePhase(r)
            BY <1>1, <3>1, ActionsAssumption DEF ExecutePhase
        <3>2. CASE ExecuteLuaPre(r)
            BY <1>1, <2>2, <3>2 DEF ExecuteLuaPre
        <3>3. QED
            BY <1>3, <3>1, <3>2
    <2>4. /\ Executed(q[r], o) \in States
          /\ Executed(q[r], o).pc \in {"run", "post"}
          /\ Executed(q[r], o).told = q[r].told /\ Executed(q[r], o).seen = q[r].seen
          /\ Judging(Executed(q[r], o))
        BY <1>1, <2>1, ExecutedEffect
    <2>5. Moves(r) /\ q'[r] = Executed(q[r], o)
        BY <1>1, <2>3, <2>4
    <2>6. UNCHANGED <<redis, heap, entry, cleaner, resetting>>
        BY <1>3 DEF ExecutePhase, ExecuteLuaPre, counters
    <2>7. Enforcing(q'[r])
        BY <2>4, <2>5, SMTT(40) DEF Enforcing, Escalating, Local
    <2>8. QED
        BY <2>1, <2>4, <2>5, <2>6, <2>7
<1>4. CASE ApplyPostLuaDecision(r)
    <2>1. PICK a \in Evaluate("post") :
            q' = [q EXCEPT ![r].pc = "dispatch", ![r].verdict = PostVerdict(@, Known(a)),
                           ![r].waived = a = "allow",
                           ![r].todo = <<>>, ![r].pending = FALSE, ![r].hits = {}]
        BY <1>4 DEF ApplyPostLuaDecision
    <2> DEFINE v == PostVerdict(q[r].verdict, Known(a))
               w == a = "allow"
    <2>2. v \in Actions /\ w \in BOOLEAN
        BY <1>1 DEF PostVerdict, Known, Actions, States
    <2>3. ~w /\ Terminal(q[r].builtin) => v = q[r].builtin
        BY <1>1, <1>4 DEF ApplyPostLuaDecision, Judging, PostVerdict, Known, Terminal, Terminals
    <2>4. <<>> \in Seq(PhaseNames)
        OBVIOUS
    <2> HIDE DEF v, w
    <2>5. q' = [q EXCEPT ![r] = [q[r] EXCEPT !.pc = "dispatch", !.verdict = v, !.waived = w,
                                             !.todo = <<>>, !.pending = FALSE, !.hits = {}]]
        BY <1>1, <2>1 DEF v, w, States
    <2>6. /\ Moves(r) /\ q'[r].pc = "dispatch" /\ q'[r].verdict = v
          /\ q'[r].waived = w /\ q'[r].builtin = q[r].builtin
          /\ q'[r].told = q[r].told /\ q'[r].seen = q[r].seen
        BY <1>1, <2>2, <2>4, <2>5 DEF States, Steps
    <2>7. QED
        BY <1>4, <2>3, <2>6
        DEF ApplyPostLuaDecision, counters, Judging, Enforcing, Escalating, Local
<1>5. QED
    BY <1>2, <1>3, <1>4 DEF Judge

\* A step that only changes where the request is, or what it was told or holds.
LEMMA StepEffect ==
    ASSUME IInv, NEW r \in Requests, NEW p \in Escalating, q[r].pc \in Escalating,
           NEW n \in Nat, NEW t \in BOOLEAN,
           q' = [q EXCEPT ![r] = [q[r] EXCEPT !.pc = p, !.ref = n, !.told = t]]
    PROVE  /\ Moves(r)
           /\ q'[r].pc = p /\ q'[r].ref = n /\ q'[r].told = t /\ q'[r].seen = q[r].seen
           /\ Judging(q'[r]) /\ Enforcing(q'[r])
<1>1. q \in [Requests -> States] /\ q[r] \in States /\ p \in Steps
    BY DEF IInv, Types, Escalating, Local, Steps
<1>2. /\ Moves(r)
      /\ q'[r].pc = p /\ q'[r].ref = n /\ q'[r].told = t
      /\ UNCHANGED <<q[r].seen, q[r].verdict, q[r].builtin, q[r].waived>>
    BY <1>1 DEF Moves, States
<1>3. Enough(q[r], q[r].verdict)
    BY DEF IInv, Enforcing
<1>4. QED
    BY <1>2, <1>3 DEF Judging, Enforcing, Enough, Escalating, Local

\* Evaluate returns with the count n.
LEMMA CountedEffect ==
    ASSUME IInv, NEW r \in Requests, NEW n \in Nat, q[r].pc \in Escalating, Counted(r, n)
    PROVE  /\ Moves(r)
           /\ q'[r].pc = "answer" /\ q'[r].told = q[r].told /\ q'[r].seen = n
           /\ Judging(q'[r]) /\ Enforcing(q'[r])
<1> DEFINE v == Escalated(q[r].verdict, ResolveAction(n))
<1>1. /\ q \in [Requests -> States] /\ q[r] \in States
      /\ q[r].verdict \in Actions /\ Enough(q[r], q[r].verdict)
    BY DEF IInv, Types, Enforcing, States
<1>2. v \in Actions /\ Enough(q[r], v)
    BY <1>1, ResolveActionType, EscalatedEnough
<1>3. q' = [q EXCEPT ![r] = [q[r] EXCEPT !.pc = "answer", !.seen = n, !.verdict = v]]
    BY <1>1 DEF Counted, States
<1> HIDE DEF v
<1>4. /\ Moves(r)
      /\ q'[r].pc = "answer" /\ q'[r].seen = n /\ q'[r].verdict = v
      /\ UNCHANGED <<q[r].told, q[r].builtin, q[r].waived>>
    BY <1>1, <1>2, <1>3 DEF Moves, States, Steps
<1>5. QED
    BY <1>2, <1>4 DEF Judging, Enforcing, Enough, Escalating, Local

\* The request goes upstream, is to be blocked, or is answered.
LEMMA ForwardEffect ==
    ASSUME IInv, NEW r \in Requests, Forward(r) \/ Enforce(r) \/ Answer(r)
    PROVE  /\ Moves(r) /\ UNCHANGED <<redis, heap, entry, cleaner, resetting>>
           /\ q[r].pc \in {"dispatch", "answer"}
           /\ q'[r].pc \in {"record", "done"} /\ (q[r].pc = "answer" => q'[r].pc = "done")
           /\ q'[r].told = q[r].told /\ q'[r].seen \in {0, q[r].seen}
           /\ Judging(q'[r]) /\ Enforcing(q'[r])
<1>1. q \in [Requests -> States] /\ q[r] \in States /\ Enforcing(q[r])
    BY DEF IInv, Types
<1>2. CASE Forward(r)
    <2> DEFINE w == q[r].waived \/ q[r].verdict = "challenge"
    <2>1. /\ q[r].pc = "dispatch"
          /\ q' = [q EXCEPT ![r] = [q[r] EXCEPT !.pc = "done", !.waived = w,
                                                !.verdict = "none"]]
        BY <1>1, <1>2 DEF Forward, States
    <2>2. w \in BOOLEAN /\ (Terminal(q[r].builtin) => w)
        BY <1>1, <1>2 DEF Forward, Enforcing, States, Terminal
    <2> HIDE DEF w
    <2>3. /\ Moves(r) /\ q'[r].pc = "done" /\ q'[r].waived = w
          /\ UNCHANGED <<q[r].told, q[r].seen, q[r].builtin>>
        BY <1>1, <2>1, <2>2 DEF Moves, States, Steps, Actions
    <2>4. QED
        BY <1>2, <2>1, <2>2, <2>3
        DEF Forward, counters, Judging, Enforcing, Enough, Escalating, Local
<1>3. CASE Enforce(r)
    <2> DEFINE v == IF q[r].verdict = "drop" /\ ~dropOn THEN "intercept" ELSE q[r].verdict
    <2>1. /\ q[r].pc = "dispatch"
          /\ q' = [q EXCEPT ![r] = [q[r] EXCEPT !.pc = "record", !.verdict = v]]
        BY <1>1, <1>3 DEF Enforce, States
    <2>2. v \in Actions
        BY <1>1 DEF States, Actions, Terminals
    <2>3. Enough(q[r], v)
        <3>1. q[r].builtin \in Actions
            BY <1>1 DEF States
        <3>2. TerminalPriority(q[r].builtin) >= TerminalPriority(q[r].builtin)
            BY <3>1 DEF TerminalPriority
        <3>3. QED
            BY <1>1, <2>1, <3>2 DEF Enforcing, Enough
    <2> HIDE DEF v
    <2>4. /\ Moves(r) /\ q'[r].pc = "record" /\ q'[r].verdict = v
          /\ UNCHANGED <<q[r].told, q[r].seen, q[r].builtin, q[r].waived>>
        BY <1>1, <2>1, <2>2 DEF Moves, States, Steps
    <2>5. QED
        BY <1>3, <2>1, <2>3, <2>4
        DEF Enforce, counters, Judging, Enforcing, Enough, Escalating, Local
<1>4. CASE Answer(r)
    <2>1. PICK a \in {q[r].verdict, "intercept"} :
            /\ a # q[r].verdict => q[r].verdict = "drop"
            /\ q' = [q EXCEPT ![r].pc = "done", ![r].answer = a,
                              ![r].verdict = "none", ![r].seen = 0]
        BY <1>4 DEF Answer
    <2>2. q' = [q EXCEPT ![r] = [q[r] EXCEPT !.pc = "done", !.answer = a,
                                            !.verdict = "none", !.seen = 0]]
        BY <1>1, <2>1
    <2>3. q[r].pc = "answer" /\ Enough(q[r], q[r].verdict)
        BY <1>1, <1>4 DEF Answer, Enforcing, Escalating
    <2>4. a \in Actions /\ Enough(q[r], a)
        BY <1>1, <2>1, <2>3, BlockPageEnough DEF States, Actions, Terminals
    <2>5. /\ Moves(r) /\ q'[r].pc = "done" /\ q'[r].answer = a /\ q'[r].seen = 0
          /\ UNCHANGED <<q[r].told, q[r].builtin, q[r].waived>>
        BY <1>1, <2>2, <2>4 DEF Moves, States, Steps, Actions
    <2>6. QED
        BY <1>4, <2>3, <2>4, <2>5
        DEF Answer, counters, Judging, Enforcing, Enough, Escalating, Local
<1>5. QED
    BY <1>2, <1>3, <1>4

-----------------------------------------------------------------------------
(* The requests that have been counted                                       *)

\* No request is untold, and none is unrecorded.
Onward(r) ==
    /\ q[r].told => q'[r].told
    /\ q[r].told /\ q[r].pc \notin Local => q'[r].pc \notin Local

\* Both tallies are counts of requests, and nothing is recorded that was not told.
LEMMA Tallies ==
    ASSUME Types
    PROVE  /\ IsFiniteSet(ToldOf) /\ Cardinality(ToldOf) \in Nat
           /\ IsFiniteSet(Recorded) /\ Cardinality(Recorded) \in Nat
           /\ Cardinality(Recorded) <= Cardinality(ToldOf)
           /\ Cardinality(ToldOf) <= Cardinality(Requests)
<1>1. ToldOf \in SUBSET Requests /\ Recorded \in SUBSET ToldOf
    BY DEF ToldOf, Recorded
<1>2. IsFiniteSet(Requests) /\ Cardinality(Requests) \in Nat
    BY RequestsAssumption, FS_CardinalityType
<1>3. /\ IsFiniteSet(ToldOf) /\ Cardinality(ToldOf) <= Cardinality(Requests)
      /\ Cardinality(ToldOf) \in Nat
    BY <1>1, <1>2, FS_Subset, FS_CardinalityType
<1>4. /\ IsFiniteSet(Recorded) /\ Cardinality(Recorded) <= Cardinality(ToldOf)
      /\ Cardinality(Recorded) \in Nat
    BY <1>1, <1>3, FS_Subset, FS_CardinalityType
<1>5. QED
    BY <1>3, <1>4

\* A step of r moves the tallies by r at most.
LEMMA TalliesGrow ==
    ASSUME Types, NEW r \in Requests, Moves(r), Onward(r)
    PROVE  /\ Cardinality(ToldOf)' \in Nat /\ Cardinality(Recorded)' \in Nat
           /\ Cardinality(ToldOf) <= Cardinality(ToldOf)'
           /\ Cardinality(Recorded) <= Cardinality(Recorded)'
           /\ Cardinality(Recorded)' <= Cardinality(ToldOf)'
           /\ ~q[r].told /\ q'[r].told => Cardinality(ToldOf)' = Cardinality(ToldOf) + 1
           /\ q[r].pc \in Local /\ q'[r].told /\ q'[r].pc \notin Local =>
                 Cardinality(Recorded)' = Cardinality(Recorded) + 1
<1> DEFINE told == {x \in Requests : q'[x].told}
           recorded == {x \in told : q'[x].pc \notin Local}
<1>1. ToldOf' = told /\ Recorded' = recorded
    BY DEF ToldOf, Recorded
<1>2. told \in SUBSET Requests /\ recorded \in SUBSET told
    OBVIOUS
<1>3. IsFiniteSet(told) /\ Cardinality(told) \in Nat
    BY <1>2, RequestsAssumption, FS_Subset, FS_CardinalityType
<1>4. /\ IsFiniteSet(recorded) /\ Cardinality(recorded) \in Nat
      /\ Cardinality(recorded) <= Cardinality(told)
    BY <1>2, <1>3, FS_Subset, FS_CardinalityType
<1>5. ToldOf \in SUBSET told /\ Recorded \in SUBSET recorded
    BY DEF Moves, Onward, ToldOf, Recorded
<1>6. /\ Cardinality(ToldOf) <= Cardinality(told)
      /\ Cardinality(Recorded) <= Cardinality(recorded)
    BY <1>3, <1>4, <1>5, FS_Subset
<1>7. ASSUME ~q[r].told, q'[r].told
      PROVE  Cardinality(told) = Cardinality(ToldOf) + 1
    <2>1. told = ToldOf \cup {r} /\ r \notin ToldOf
        BY <1>7 DEF Moves, ToldOf
    <2>2. QED
        BY <2>1, Tallies, FS_AddElement
<1>8. ASSUME q[r].pc \in Local, q'[r].told, q'[r].pc \notin Local
      PROVE  Cardinality(recorded) = Cardinality(Recorded) + 1
    <2>1. recorded = Recorded \cup {r} /\ r \notin Recorded
        BY <1>8 DEF Moves, ToldOf, Recorded
    <2>2. QED
        BY <2>1, Tallies, FS_AddElement
<1> HIDE DEF told, recorded
<1>9. QED
    BY <1>1, <1>3, <1>4, <1>6, <1>7, <1>8

-----------------------------------------------------------------------------
(* The steps                                                                 *)

Entries == [count : Nat, live : BOOLEAN]

\* Every entry ever on the heap holds a count.
LEMMA HeapCounts ==
    ASSUME Types
    PROVE  \A i \in DOMAIN heap : heap[i] \in Entries /\ heap[i].count \in Nat
<1>1. heap \in Seq(Entries)
    BY DEF Types, Entries
<1>2. \A i \in DOMAIN heap : heap[i] \in Entries
    BY <1>1, ElementOfSeq, LenProperties
<1>3. QED
    BY <1>2 DEF Entries

\* What a step of r that keeps the invariant has to do.
LEMMA RequestStep ==
    ASSUME IInv, NEW r \in Requests, Moves(r), Onward(r),
           UNCHANGED <<config, cleaner, resetting, expiries>>, faults' \in 0..MaxFaults,
           redis' \in Nat, redis' <= Cardinality(ToldOf)',
           heap' \in Seq(Entries), DOMAIN heap \subseteq DOMAIN heap',
           entry' \in DOMAIN heap' \cup {None},
           \A i \in DOMAIN heap' : heap'[i].count <= Cardinality(Recorded)',
           Judging(q'[r]), Enforcing(q'[r]), Counting(r)'
    PROVE  IInv'
<1>1. Types'
    BY DEF IInv, Types, Moves, config, Entries
<1>2. Counts'
    BY DEF Counts
<1>3. ASSUME NEW x \in Requests
      PROVE  Judging(q'[x]) /\ Enforcing(q'[x]) /\ Counting(x)'
    <2>1. CASE x = r
        BY <2>1
    <2>2. CASE x # r
        <3>1. /\ q'[x] = q[x] /\ Judging(q[x]) /\ Enforcing(q[x]) /\ Counting(x)
              /\ q[x] \in States
            BY <2>2 DEF Moves, IInv, Types
        <3>2. /\ Cardinality(ToldOf) <= Cardinality(ToldOf)'
              /\ Cardinality(ToldOf) \in Nat /\ Cardinality(ToldOf)' \in Nat
            BY Tallies, TalliesGrow DEF IInv
        <3>3. q'[x].seen <= Cardinality(ToldOf)'
            BY <3>1, <3>2 DEF Counting, States
        <3>4. QED
            BY <3>1, <3>3 DEF Counting
    <2>3. QED
        BY <2>1, <2>2
<1>4. QED
    BY <1>1, <1>2, <1>3 DEF IInv

\* A step that leaves the counters alone.
LEMMA QuietStep ==
    ASSUME IInv, NEW r \in Requests, Moves(r), Onward(r),
           UNCHANGED <<config, redis, heap, cleaner, resetting, expiries>>,
           faults' \in 0..MaxFaults, entry' \in {entry, None},
           Judging(q'[r]), Enforcing(q'[r]), Counting(r)'
    PROVE  IInv'
<1>1. /\ redis \in Nat /\ heap \in Seq(Entries) /\ entry \in DOMAIN heap \cup {None}
      /\ \A i \in DOMAIN heap : heap[i].count \in Nat
    BY HeapCounts DEF IInv, Types, Entries
<1>2. /\ Cardinality(ToldOf) <= Cardinality(ToldOf)'
      /\ Cardinality(Recorded) <= Cardinality(Recorded)'
      /\ Cardinality(ToldOf) \in Nat /\ Cardinality(ToldOf)' \in Nat
      /\ Cardinality(Recorded) \in Nat /\ Cardinality(Recorded)' \in Nat
    BY Tallies, TalliesGrow DEF IInv
<1>3. /\ redis' <= Cardinality(ToldOf)'
      /\ \A i \in DOMAIN heap' : heap'[i].count <= Cardinality(Recorded)'
    BY <1>1, <1>2 DEF IInv, Counts
<1>4. /\ redis' \in Nat /\ heap' \in Seq(Entries) /\ DOMAIN heap \subseteq DOMAIN heap'
      /\ entry' \in DOMAIN heap' \cup {None}
    BY <1>1
<1>5. QED
    BY <1>3, <1>4, RequestStep

\* The pipeline and the Lua stages judge.
LEMMA JudgeStep ==
    ASSUME IInv, NEW r \in Requests, Judge(r)
    PROVE  IInv'
<1>1. /\ Moves(r) /\ UNCHANGED <<redis, heap, entry, cleaner, resetting>>
      /\ q[r].pc \in {"start", "run", "post"}
      /\ q'[r].pc \in {"run", "post", "dispatch"}
      /\ q'[r].told = q[r].told /\ q'[r].seen = q[r].seen
      /\ Judging(q'[r]) /\ Enforcing(q'[r])
    BY JudgeEffect
<1>2. UNCHANGED <<config, expiries, faults>> /\ faults \in 0..MaxFaults
    BY DEF Judge, Begin, ExecutePhase, ExecuteLuaPre, ApplyPostLuaDecision, counters, IInv,
           Types
<1>3. Onward(r)
    BY <1>1 DEF Onward, Local
<1>4. ToldOf' = ToldOf
    BY <1>1 DEF ToldOf, Moves
<1>5. Counting(r)'
    BY <1>1, <1>4 DEF Counting, Local, IInv
<1>6. QED
    BY <1>1, <1>2, <1>3, <1>5, QuietStep

\* The handler forwards, blocks or answers.
LEMMA ForwardStep ==
    ASSUME IInv, NEW r \in Requests, Forward(r) \/ Enforce(r) \/ Answer(r)
    PROVE  IInv'
<1>1. /\ Moves(r) /\ UNCHANGED <<redis, heap, entry, cleaner, resetting>>
      /\ q[r].pc \in {"dispatch", "answer"}
      /\ q'[r].pc \in {"record", "done"} /\ (q[r].pc = "answer" => q'[r].pc = "done")
      /\ q'[r].told = q[r].told /\ q'[r].seen \in {0, q[r].seen}
      /\ Judging(q'[r]) /\ Enforcing(q'[r])
    BY ForwardEffect
<1>2. UNCHANGED <<config, expiries, faults>> /\ faults \in 0..MaxFaults
    BY DEF Forward, Enforce, Answer, counters, IInv, Types
<1>3. Onward(r)
    BY <1>1 DEF Onward, Local
<1>4. ToldOf' = ToldOf /\ Cardinality(ToldOf) \in Nat
    BY <1>1, Tallies DEF ToldOf, Moves, IInv
<1>5. Counting(r)'
    BY <1>1, <1>4 DEF Counting, Local, IInv
<1>6. QED
    BY <1>1, <1>2, <1>3, <1>5, QuietStep

\* RecordHit counts the hit in Redis, where it can.
LEMMA RecordStep ==
    ASSUME IInv, NEW r \in Requests, RecordHit(r)
    PROVE  IInv'
<1>1. /\ q \in [Requests -> States] /\ q[r] \in States /\ q[r].pc = "record"
      /\ redis \in Nat /\ redis <= Cardinality(ToldOf) /\ ~q[r].told
      /\ q[r].pc \in Escalating
    BY DEF RecordHit, IInv, Types, Counts, Counting, Escalating
<1>2. PICK p \in {"evaluate", "recordLocal"} : Told(r, p)
    BY DEF RecordHit
<1>3. q' = [q EXCEPT ![r] = [q[r] EXCEPT !.pc = p, !.ref = q[r].ref, !.told = TRUE]]
    BY <1>1, <1>2 DEF Told, States
<1>4. /\ Moves(r)
      /\ q'[r].pc = p /\ q'[r].told = TRUE /\ q'[r].seen = q[r].seen
      /\ Judging(q'[r]) /\ Enforcing(q'[r])
    <2>1. p \in Escalating /\ q[r].ref \in Nat
        BY <1>1 DEF Escalating, Local, States
    <2>2. QED
        BY <1>1, <1>3, <2>1, StepEffect
<1>5. /\ UNCHANGED <<config, heap, entry, cleaner, resetting, expiries>>
      /\ redis' \in {redis, redis + 1} /\ faults' \in 0..MaxFaults
    BY VerdictBounds DEF RecordHit, Fault, IInv, Types
<1>6. Onward(r)
    BY <1>1, <1>4 DEF Onward
<1>7. /\ Cardinality(ToldOf)' = Cardinality(ToldOf) + 1
      /\ Cardinality(ToldOf) \in Nat
      /\ Cardinality(Recorded) <= Cardinality(Recorded)'
      /\ Cardinality(Recorded) \in Nat /\ Cardinality(Recorded)' \in Nat
    BY <1>1, <1>4, <1>6, Tallies, TalliesGrow DEF IInv
<1>8. redis' \in Nat /\ redis' <= Cardinality(ToldOf)'
    BY <1>1, <1>5, <1>7
<1>9. \A i \in DOMAIN heap' : heap'[i].count <= Cardinality(Recorded)'
    <2>1. \A i \in DOMAIN heap : heap[i].count \in Nat
        BY HeapCounts DEF IInv
    <2>2. QED
        BY <1>5, <1>7, <2>1 DEF IInv, Counts
<1>10. Counting(r)'
    <2>1. q[r].seen <= Cardinality(ToldOf) /\ q[r].seen \in Nat
        BY <1>1 DEF IInv, Counting, States
    <2>2. q'[r].seen <= Cardinality(ToldOf)'
        BY <1>4, <1>7, <2>1
    <2>3. QED
        BY <1>4, <2>2 DEF Counting, Local
<1>11. heap' \in Seq(Entries) /\ entry' \in DOMAIN heap' \cup {None}
    BY <1>5 DEF IInv, Types, Entries
<1>12. DOMAIN heap \subseteq DOMAIN heap'
    BY <1>5
<1>13. QED
    BY <1>4, <1>5, <1>6, <1>8, <1>9, <1>10, <1>11, <1>12, RequestStep

\* A request looks for an entry, or at the counters, and finds nothing yet.
LEMMA LookStep ==
    ASSUME IInv, NEW r \in Requests,
           \/ LoadLocal(r)
           \/ GetCount(r) /\ Step(r, "evaluateLocal")
           \/ GetCountLocal(r) /\ Step(r, "delete")
    PROVE  IInv'
<1>1. /\ q \in [Requests -> States] /\ q[r] \in States
      /\ q[r].pc \in {"recordLocal", "evaluate", "evaluateLocal"}
    BY DEF LoadLocal, GetCount, GetCountLocal, IInv, Types
<1>2. PICK p \in Escalating, n \in Nat :
        /\ q' = [q EXCEPT ![r] = [q[r] EXCEPT !.pc = p, !.ref = n, !.told = q[r].told]]
        /\ p \in IF q[r].pc = "recordLocal" THEN {"add", "store"}
                  ELSE {"evaluateLocal", "delete"}
        /\ p = "add" => n \in DOMAIN heap
    <2>1. CASE LoadLocal(r) /\ entry # None /\ heap[entry].live
        <3>1. entry \in DOMAIN heap /\ entry \in Nat /\ q[r].pc = "recordLocal"
            BY <2>1, LenProperties DEF IInv, Types, LoadLocal
        <3>2. q' = [q EXCEPT ![r] = [q[r] EXCEPT !.pc = "add", !.ref = entry,
                                                 !.told = q[r].told]]
            BY <1>1, <2>1 DEF LoadLocal, States
        <3>3. QED
            BY <3>1, <3>2 DEF Escalating, Local
    <2>2. CASE LoadLocal(r) /\ ~(entry # None /\ heap[entry].live)
        <3>1. PICK n \in Nat : n = q[r].ref /\ q[r].pc = "recordLocal"
            BY <1>1, <2>2 DEF LoadLocal, States
        <3>2. q' = [q EXCEPT ![r] = [q[r] EXCEPT !.pc = "store", !.ref = n,
                                                 !.told = q[r].told]]
            BY <1>1, <2>2, <3>1 DEF LoadLocal, Step, States
        <3>3. "store" \in Escalating /\ "store" # "add"
            BY DEF Escalating, Local
        <3>4. QED
            BY <3>1, <3>2, <3>3
    <2>3. CASE GetCount(r) /\ Step(r, "evaluateLocal")
        <3>1. PICK n \in Nat : n = q[r].ref /\ q[r].pc = "evaluate"
            BY <1>1, <2>3 DEF GetCount, States
        <3>2. q' = [q EXCEPT ![r] = [q[r] EXCEPT !.pc = "evaluateLocal", !.ref = n,
                                                 !.told = q[r].told]]
            BY <1>1, <2>3, <3>1 DEF Step, States
        <3>3. "evaluateLocal" \in Escalating /\ "evaluateLocal" # "add"
            BY DEF Escalating, Local
        <3>4. QED
            BY <3>1, <3>2, <3>3
    <2>4. CASE GetCountLocal(r) /\ Step(r, "delete")
        <3>1. PICK n \in Nat : n = q[r].ref /\ q[r].pc = "evaluateLocal"
            BY <1>1, <2>4 DEF GetCountLocal, States
        <3>2. q' = [q EXCEPT ![r] = [q[r] EXCEPT !.pc = "delete", !.ref = n,
                                                 !.told = q[r].told]]
            BY <1>1, <2>4, <3>1 DEF Step, States
        <3>3. "delete" \in Escalating /\ "delete" # "add"
            BY DEF Escalating, Local
        <3>4. QED
            BY <3>1, <3>2, <3>3
    <2>5. QED
        BY <2>1, <2>2, <2>3, <2>4
<1>3. /\ Moves(r)
      /\ q'[r].pc = p /\ q'[r].ref = n /\ q'[r].told = q[r].told /\ q'[r].seen = q[r].seen
      /\ Judging(q'[r]) /\ Enforcing(q'[r])
    <2>1. q[r].told \in BOOLEAN /\ q[r].pc \in Escalating
        BY <1>1 DEF States, Escalating, Local
    <2>2. QED
        BY <1>2, <2>1, StepEffect
<1>4. /\ UNCHANGED <<config, redis, heap, entry, cleaner, resetting, expiries>>
      /\ faults' \in 0..MaxFaults
    BY VerdictBounds DEF LoadLocal, GetCount, GetCountLocal, counters, Fault, IInv, Types
<1>5. Onward(r)
    BY <1>1, <1>2, <1>3 DEF Onward, Local
<1>6. ToldOf' = ToldOf
    BY <1>3 DEF ToldOf, Moves
<1>7. Counting(r)'
    BY <1>1, <1>2, <1>3, <1>4, <1>6 DEF Counting, Local, IInv
<1>8. QED
    BY <1>3, <1>4, <1>5, <1>7, QuietStep

\* A request reads a counter, or finds that there is none.
LEMMA ReadStep ==
    ASSUME IInv, NEW r \in Requests, NEW n \in Nat, Counted(r, n),
           n <= Cardinality(ToldOf),
           GetCount(r) \/ GetCountLocal(r) \/ DeleteLocal(r)
    PROVE  IInv'
<1>1. q[r].pc \in {"evaluate", "evaluateLocal", "delete"} /\ q[r].pc \in Escalating
    BY DEF GetCount, GetCountLocal, DeleteLocal, Escalating
<1>2. /\ Moves(r)
      /\ q'[r].pc = "answer" /\ q'[r].told = q[r].told /\ q'[r].seen = n
      /\ Judging(q'[r]) /\ Enforcing(q'[r])
    BY <1>1, CountedEffect
<1>3. /\ UNCHANGED <<config, redis, heap, cleaner, resetting, expiries>>
      /\ faults' \in 0..MaxFaults /\ entry' \in {entry, None}
    BY VerdictBounds DEF GetCount, GetCountLocal, DeleteLocal, counters, Fault, IInv, Types
<1>4. Onward(r)
    BY <1>2 DEF Onward, Local
<1>5. ToldOf' = ToldOf
    BY <1>2 DEF ToldOf, Moves
<1>6. Counting(r)'
    BY <1>2, <1>5 DEF Counting, Local
<1>7. QED
    BY <1>2, <1>3, <1>4, <1>6, QuietStep

\* What Evaluate reads is a count of hits that were made.
LEMMA EvaluateStep ==
    ASSUME IInv, NEW r \in Requests, GetCount(r) \/ GetCountLocal(r) \/ DeleteLocal(r)
    PROVE  IInv'
<1>1. /\ redis \in Nat /\ redis <= Cardinality(ToldOf) /\ 0 \in Nat
      /\ 0 <= Cardinality(ToldOf)
    BY Tallies DEF IInv, Types, Counts
<1>2. CASE GetCount(r)
    BY <1>1, <1>2, ReadStep, LookStep DEF GetCount
<1>3. CASE GetCountLocal(r)
    <2>1. ASSUME entry # None
          PROVE  heap[entry].count \in Nat /\ heap[entry].count <= Cardinality(ToldOf)
        <3>1. entry \in DOMAIN heap
            BY <2>1 DEF IInv, Types
        <3>2. heap[entry].count \in Nat /\ heap[entry].count <= Cardinality(Recorded)
            BY <3>1, HeapCounts DEF IInv, Counts
        <3>3. QED
            BY <3>2, Tallies DEF IInv
    <2>2. QED
        BY <1>1, <1>3, <2>1, ReadStep, LookStep DEF GetCountLocal
<1>4. CASE DeleteLocal(r)
    BY <1>1, <1>4, ReadStep DEF DeleteLocal
<1>5. QED
    BY <1>2, <1>3, <1>4

\* recordHitLocal counts the hit in the entry it loaded, whatever became of that.
LEMMA AddLocalStep ==
    ASSUME IInv, NEW r \in Requests, AddLocal(r)
    PROVE  IInv'
<1> DEFINE k == q[r].ref
           c == [heap[k] EXCEPT !.count = @ + 1]
<1>1. /\ q \in [Requests -> States] /\ q[r] \in States /\ q[r].pc = "add"
      /\ q[r].pc \in Escalating /\ q[r].told /\ q[r].ref \in DOMAIN heap
      /\ q[r].seen <= Cardinality(ToldOf) /\ q[r].seen \in Nat
    BY DEF AddLocal, IInv, Types, Counting, Escalating, Local, States
<1>2. heap \in Seq(Entries) /\ k \in 1..Len(heap) /\ heap[k] \in Entries
    BY <1>1, HeapCounts, LenProperties DEF IInv, Types, Entries
<1>3. c \in Entries /\ c.count = heap[k].count + 1
    BY <1>2, SMTT(40) DEF Entries
<1>4. heap' = [heap EXCEPT ![k] = c]
    BY <1>2 DEF AddLocal, Entries
<1> HIDE DEF c, k
<1>5. /\ heap' \in Seq(Entries) /\ DOMAIN heap' = DOMAIN heap
      /\ \A i \in DOMAIN heap : heap'[i] = IF i = k THEN c ELSE heap[i]
    BY <1>2, <1>3, <1>4, ExceptSeq, LenProperties
<1>6. q' = [q EXCEPT ![r] = [q[r] EXCEPT !.pc = "evaluate", !.ref = 0, !.told = q[r].told]]
    BY <1>1 DEF AddLocal, States
<1>7. /\ Moves(r)
      /\ q'[r].pc = "evaluate" /\ q'[r].told = q[r].told /\ q'[r].seen = q[r].seen
      /\ Judging(q'[r]) /\ Enforcing(q'[r])
    <2>1. "evaluate" \in Escalating /\ q[r].told \in BOOLEAN
        BY <1>1 DEF Escalating, States
    <2>2. QED
        BY <1>1, <1>6, <2>1, StepEffect
<1>8. /\ UNCHANGED <<config, redis, entry, cleaner, resetting, expiries, faults>>
      /\ redis \in Nat /\ redis <= Cardinality(ToldOf) /\ faults \in 0..MaxFaults
      /\ entry \in DOMAIN heap \cup {None}
    BY DEF AddLocal, IInv, Types, Counts
<1>9. Onward(r)
    BY <1>7 DEF Onward, Local
<1>10. /\ Cardinality(ToldOf) <= Cardinality(ToldOf)'
       /\ Cardinality(Recorded)' = Cardinality(Recorded) + 1
       /\ Cardinality(ToldOf) \in Nat /\ Cardinality(ToldOf)' \in Nat
       /\ Cardinality(Recorded) \in Nat
    BY <1>1, <1>7, <1>9, Tallies, TalliesGrow DEF IInv, Local
<1>11. \A i \in DOMAIN heap' : heap'[i].count <= Cardinality(Recorded)'
    <2>1. \A i \in DOMAIN heap :
            heap[i].count \in Nat /\ heap[i].count <= Cardinality(Recorded)
        BY HeapCounts DEF IInv, Counts
    <2>2. c.count = heap[k].count + 1 /\ k \in DOMAIN heap
        BY <1>1, <1>3 DEF k
    <2>3. QED
        BY <1>5, <1>10, <2>1, <2>2
<1>12. redis' <= Cardinality(ToldOf)' /\ q'[r].seen <= Cardinality(ToldOf)'
    BY <1>1, <1>7, <1>8, <1>10
<1>13. Counting(r)'
    BY <1>7, <1>12 DEF Counting, Local
<1>14. /\ redis' \in Nat /\ faults' \in 0..MaxFaults /\ DOMAIN heap \subseteq DOMAIN heap'
       /\ entry' \in DOMAIN heap' \cup {None}
    BY <1>5, <1>8
<1>15. QED
    BY <1>5, <1>7, <1>8, <1>9, <1>11, <1>12, <1>13, <1>14, RequestStep

\* recordHitLocal stores a new entry over whatever is there by now.
LEMMA StoreLocalStep ==
    ASSUME IInv, NEW r \in Requests, StoreLocal(r)
    PROVE  IInv'
<1> DEFINE e == [count |-> 1, live |-> TRUE]
<1>1. /\ q \in [Requests -> States] /\ q[r] \in States /\ q[r].pc = "store"
      /\ q[r].pc \in Escalating /\ q[r].told
      /\ q[r].seen <= Cardinality(ToldOf) /\ q[r].seen \in Nat
    BY DEF StoreLocal, IInv, Types, Counting, Escalating, Local, States
<1>2. heap \in Seq(Entries) /\ e \in Entries /\ e.count = 1
    BY DEF IInv, Types, Entries
<1>3. heap' = Append(heap, e) /\ entry' = Len(heap')
    BY DEF StoreLocal
<1> HIDE DEF e
<1>4. /\ heap' \in Seq(Entries) /\ Len(heap') = Len(heap) + 1 /\ heap'[Len(heap) + 1] = e
      /\ \A i \in 1..Len(heap) : heap'[i] = heap[i]
    BY <1>2, <1>3, AppendProperties
<1>5. /\ DOMAIN heap = 1..Len(heap) /\ DOMAIN heap' = 1..(Len(heap) + 1)
      /\ Len(heap) \in Nat
    BY <1>2, <1>4, LenProperties
<1>6. q' = [q EXCEPT ![r] = [q[r] EXCEPT !.pc = "evaluate", !.ref = q[r].ref,
                                         !.told = q[r].told]]
    BY <1>1 DEF StoreLocal, Step, States
<1>7. /\ Moves(r)
      /\ q'[r].pc = "evaluate" /\ q'[r].told = q[r].told /\ q'[r].seen = q[r].seen
      /\ Judging(q'[r]) /\ Enforcing(q'[r])
    <2>1. "evaluate" \in Escalating /\ q[r].told \in BOOLEAN /\ q[r].ref \in Nat
        BY <1>1 DEF Escalating, States
    <2>2. QED
        BY <1>1, <1>6, <2>1, StepEffect
<1>8. /\ UNCHANGED <<config, redis, cleaner, resetting, expiries, faults>>
      /\ redis \in Nat /\ redis <= Cardinality(ToldOf) /\ faults \in 0..MaxFaults
    BY DEF StoreLocal, IInv, Types, Counts
<1>9. Onward(r)
    BY <1>7 DEF Onward, Local
<1>10. /\ Cardinality(ToldOf) <= Cardinality(ToldOf)'
       /\ Cardinality(Recorded)' = Cardinality(Recorded) + 1
       /\ Cardinality(ToldOf) \in Nat /\ Cardinality(ToldOf)' \in Nat
       /\ Cardinality(Recorded) \in Nat
    BY <1>1, <1>7, <1>9, Tallies, TalliesGrow DEF IInv, Local
<1>11. \A i \in DOMAIN heap' : heap'[i].count <= Cardinality(Recorded)'
    <2> SUFFICES ASSUME NEW i \in DOMAIN heap'
                 PROVE  heap'[i].count <= Cardinality(Recorded)'
        OBVIOUS
    <2>1. CASE i \in 1..Len(heap)
        <3>1. heap[i].count \in Nat /\ heap[i].count <= Cardinality(Recorded)
            BY <1>5, <2>1, HeapCounts DEF IInv, Counts
        <3>2. QED
            BY <1>4, <1>10, <2>1, <3>1
    <2>2. CASE i = Len(heap) + 1
        BY <1>2, <1>4, <1>10, <2>2
    <2>3. QED
        BY <1>5, <2>1, <2>2
<1>12. redis' <= Cardinality(ToldOf)' /\ q'[r].seen <= Cardinality(ToldOf)'
    BY <1>1, <1>7, <1>8, <1>10
<1>13. Counting(r)'
    BY <1>7, <1>12 DEF Counting, Local
<1>14. /\ redis' \in Nat /\ faults' \in 0..MaxFaults /\ DOMAIN heap \subseteq DOMAIN heap'
       /\ entry' \in DOMAIN heap' \cup {None}
    BY <1>3, <1>4, <1>5, <1>8
<1>15. QED
    BY <1>4, <1>7, <1>8, <1>9, <1>11, <1>12, <1>13, <1>14, RequestStep

\* The cleanup, an administrator, the end of a window and a reload touch no request,
\* and raise no counter.
LEMMA EnvironmentStep ==
    ASSUME IInv,
           FindExpired \/ CleanLocal \/ ResetLocal \/ ResetRedis \/ Expire \/ Reload
    PROVE  IInv'
<1>1. /\ lua' \in SUBSET Stages
      /\ dropOn' \in BOOLEAN /\ redisUp' \in BOOLEAN
      /\ redis' \in {0, redis} /\ q' = q
      /\ entry' \in {entry, None}
      /\ cleaner' \in BOOLEAN /\ resetting' \in BOOLEAN
      /\ faults' \in 0..MaxFaults /\ reloads' \in 0..MaxReloads
      /\ expiries' \in 0..MaxExpiries
    <2>1. /\ redis \in Nat /\ faults \in 0..MaxFaults /\ reloads \in 0..MaxReloads
          /\ expiries \in 0..MaxExpiries /\ lua \in SUBSET Stages
          /\ {dropOn, redisUp, cleaner, resetting} \subseteq BOOLEAN
        BY DEF IInv, Types
    <2>2. CASE FindExpired
        BY <2>1, <2>2, VerdictBounds DEF FindExpired, config, counters
    <2>3. CASE CleanLocal
        BY <2>1, <2>3, VerdictBounds DEF CleanLocal, config, counters
    <2>4. CASE ResetLocal
        BY <2>1, <2>4, VerdictBounds DEF ResetLocal, config, counters
    <2>5. CASE ResetRedis
        <3>1. /\ resetting' = FALSE /\ redis' \in {0, redis}
              /\ UNCHANGED <<config, heap, entry, cleaner, expiries, q>>
            BY <2>5 DEF ResetRedis
        <3>2. faults' \in 0..MaxFaults
            BY <2>1, <2>5, VerdictBounds DEF ResetRedis, Fault
        <3>3. QED
            BY <2>1, <3>1, <3>2 DEF config
    <2>6. CASE Expire
        BY <2>1, <2>6, VerdictBounds DEF Expire, config, counters
    <2>7. CASE Reload
        BY <2>1, <2>7, VerdictBounds DEF Reload, config, counters
    <2>8. QED
        BY <2>2, <2>3, <2>4, <2>5, <2>6, <2>7
<1>2. /\ heap' \in Seq(Entries) /\ DOMAIN heap' = DOMAIN heap
      /\ \A i \in DOMAIN heap : heap'[i].count = heap[i].count
    <2>1. heap \in Seq(Entries) /\ \A i \in DOMAIN heap : heap[i] \in Entries
        BY HeapCounts DEF IInv, Types, Entries
    <2>2. CASE heap' = heap
        BY <2>1, <2>2
    <2>3. CASE heap' # heap
        <3> DEFINE e == [heap[entry] EXCEPT !.live = FALSE]
        <3>1. entry \in DOMAIN heap /\ heap' = [heap EXCEPT ![entry].live = FALSE]
            BY <2>3
            DEF FindExpired, CleanLocal, ResetLocal, ResetRedis, Expire, Reload, IInv, Types,
                config, counters
        <3>2. e \in Entries /\ e.count = heap[entry].count /\ heap' = [heap EXCEPT ![entry] = e]
            BY <2>1, <3>1 DEF Entries
        <3> HIDE DEF e
        <3>3. entry \in 1..Len(heap) /\ DOMAIN heap = 1..Len(heap)
            BY <2>1, <3>1, LenProperties
        <3>4. /\ heap' \in Seq(Entries) /\ Len(heap') = Len(heap)
              /\ \A i \in 1..Len(heap) : heap'[i] = IF i = entry THEN e ELSE heap[i]
            BY <2>1, <3>2, <3>3, ExceptSeq
        <3>5. DOMAIN heap' = 1..Len(heap')
            BY <3>4, LenProperties
        <3>6. QED
            BY <3>2, <3>3, <3>4, <3>5
    <2>4. QED
        BY <2>2, <2>3
<1>3. Types'
    BY <1>1, <1>2 DEF IInv, Types, Entries
<1>4. ToldOf' = ToldOf /\ Recorded' = Recorded
    BY <1>1 DEF ToldOf, Recorded
<1>5. Counts'
    <2>1. redis' <= Cardinality(ToldOf)
        BY <1>1, Tallies DEF IInv, Types, Counts
    <2>2. \A i \in DOMAIN heap' : heap'[i].count <= Cardinality(Recorded)
        BY <1>2 DEF IInv, Counts
    <2>3. QED
        BY <1>4, <2>1, <2>2 DEF Counts
<1>6. \A r \in Requests : Judging(q'[r]) /\ Enforcing(q'[r]) /\ Counting(r)'
    BY <1>1, <1>2, <1>4 DEF IInv, Counting
<1>7. QED
    BY <1>3, <1>5, <1>6 DEF IInv

\* The initial states satisfy the invariant.
LEMMA InitIInv == Init => IInv
<1> SUFFICES ASSUME Init PROVE IInv
    OBVIOUS
<1>1. /\ redis = 0 /\ heap = <<>> /\ entry = None
      /\ \A r \in Requests : /\ q[r].pc = "start" /\ q[r].hits = {} /\ ~q[r].pending
                             /\ ~q[r].told /\ q[r].seen = 0
    BY DEF Init
<1>2. q \in [Requests -> States]
    <2>1. <<>> \in Seq(PhaseNames)
        OBVIOUS
    <2>2. QED
        BY <2>1 DEF Init, States, Steps, Actions
<1>3. <<>> \in Seq(Entries) /\ DOMAIN <<>> = {}
    OBVIOUS
<1>4. Types
    <2>1. /\ faults \in 0..MaxFaults /\ reloads \in 0..MaxReloads
          /\ expiries \in 0..MaxExpiries
        BY VerdictBounds DEF Init
    <2>2. /\ lua \in SUBSET Stages /\ dropOn \in BOOLEAN /\ redisUp \in BOOLEAN
          /\ cleaner \in BOOLEAN /\ resetting \in BOOLEAN
        BY DEF Init
    <2>3. heap \in Seq(Entries) /\ entry \in DOMAIN heap \cup {None} /\ redis \in Nat
        BY <1>1, <1>3
    <2>4. QED
        BY <1>2, <2>1, <2>2, <2>3 DEF Types, Entries
<1>5. Counts
    BY <1>1, <1>3, <1>4, Tallies DEF Counts
<1>6. \A r \in Requests : Judging(q[r]) /\ Enforcing(q[r]) /\ Counting(r)
    BY <1>1, <1>4, Tallies DEF Judging, Enforcing, Counting, Escalating, Local
<1>7. QED
    BY <1>4, <1>5, <1>6 DEF IInv

-----------------------------------------------------------------------------
(* The theorems                                                              *)

\* Whatever the phases and the scripts decide, and however requests, the cleanup,
\* administrators, faults and reloads interleave, the invariant holds.
THEOREM Inductive == Spec => []IInv
<1>1. IInv /\ [Next]_vars => IInv'
    <2> SUFFICES ASSUME IInv, [Next]_vars PROVE IInv'
        OBVIOUS
    <2>1. ASSUME NEW r \in Requests, Judge(r) PROVE IInv'
        BY <2>1, JudgeStep
    <2>2. ASSUME NEW r \in Requests, Dispatch(r) PROVE IInv'
        BY <2>2, ForwardStep, RecordStep, LookStep, AddLocalStep, StoreLocalStep,
           EvaluateStep DEF Dispatch
    <2>3. CASE FindExpired \/ CleanLocal \/ ResetLocal \/ ResetRedis \/ Expire \/ Reload
        BY <2>3, EnvironmentStep
    <2>4. CASE UNCHANGED vars
        BY <2>4
        DEF vars, config, counters, IInv, Types, Counts, Counting, ToldOf, Recorded
    <2>5. QED
        BY <2>1, <2>2, <2>3, <2>4 DEF Next
<1>2. QED
    BY InitIInv, <1>1, PTL DEF Spec

\* Every variable keeps its type, and the counter in Redis never exceeds the number
\* of the requests, although a failed call may have counted.
THEOREM TypeCorrect == Spec => []TypeOK
<1>1. IInv => TypeOK
    <2> SUFFICES ASSUME IInv PROVE TypeOK
        OBVIOUS
    <2>1. redis \in 0..Cardinality(Requests)
        <3>1. /\ redis \in Nat /\ redis <= Cardinality(ToldOf)
              /\ Cardinality(ToldOf) <= Cardinality(Requests)
              /\ Cardinality(ToldOf) \in Nat /\ Cardinality(Requests) \in Nat
            BY Tallies, RequestsAssumption, FS_CardinalityType DEF IInv, Types, Counts
        <3>2. QED
            BY <3>1
    <2>2. QED
        BY <2>1 DEF IInv, Types, TypeOK
<1>2. QED
    BY Inductive, <1>1, PTL

\* pipeline.Run answers with a challenge, or with nothing, only after every phase had
\* its say and none of them wanted the request stopped.
THEOREM RunComplete == Spec => []VerdictComplete
<1>1. IInv => VerdictComplete
    BY DEF IInv, Judging, VerdictComplete
<1>2. QED
    BY Inductive, <1>1, PTL

\* applyPostLuaDecision, the handler and the escalation only make a verdict more
\* severe, unless a script or a pass cookie lifts it; a drop may become the block page.
THEOREM NeverWeakened == Spec => []NotWeakened
<1>1. IInv => NotWeakened
    BY DEF IInv, Enforcing, Enough, NotWeakened
<1>2. QED
    BY Inductive, <1>1, PTL

\* RecordHit and getCount never show a request more hits than the client has made,
\* whichever counter a failing Redis call, a reset or a race makes them use.
THEOREM Earned == Spec => []EscalationEarned
<1>1. IInv => EscalationEarned
    BY DEF IInv, Counting, ToldOf, EscalationEarned
<1>2. QED
    BY Inductive, <1>1, PTL
=============================================================================
