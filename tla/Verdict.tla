-------------------------------- MODULE Verdict --------------------------------
(***************************************************************************)
(* What becomes of the requests of one client on one site: the pipeline    *)
(* (core/pipeline Run), the Lua stages (waf/luaplugin), the part of the    *)
(* data plane's handler that carries the verdict out, and the escalation   *)
(* manager (waf/escalation) whose counters the requests share.             *)
(*                                                                         *)
(* A phase chain is the one PhaseCache hands out, with or without the      *)
(* first Lua stage; the phases are "acl" (IP reputation, anti-replay,      *)
(* ACL), "lua_pre", "detect" (OWASP, CVE, bot, browser signature, rate     *)
(* limit) and "custom" (signature and custom rules).  What a phase or a    *)
(* script decides is an arbitrary choice.  The challenge types, which have *)
(* one priority, are one action, and tag, which nothing here looks at, is  *)
(* none.  The rewriting of requests and responses by scripts is left out.  *)
(***************************************************************************)
EXTENDS Integers, Sequences, FiniteSets

CONSTANTS
    Requests,
    Outcomes,    \* what a phase may decide
    ScriptActs,  \* what the scripts of a stage may decide
    Ladder,      \* the escalation steps, a sequence of [threshold, action]
    None,        \* no entry in the local counters
    MaxFaults,   \* bound on failing Redis calls
    MaxReloads,  \* bound on the reloads
    MaxExpiries  \* bound on the ends of a window and the resets

Terminals == {"drop", "intercept", "rate_limit", "challenge", "redirect"}
Actions == Terminals \cup {"none", "observe", "allow"}

ASSUME ActionsAssumption ==
    /\ Outcomes \subseteq Actions /\ "none" \in Outcomes
    /\ ScriptActs \subseteq Actions \cup {"unknown"} /\ "none" \in ScriptActs
ASSUME RequestsAssumption == IsFiniteSet(Requests)
ASSUME LadderAssumption ==
    Ladder \in Seq([threshold : Nat \ {0}, action : {"challenge", "intercept", "drop"}])
ASSUME VerdictBounds ==
    /\ MaxFaults \in Nat /\ MaxReloads \in Nat /\ MaxExpiries \in Nat
    /\ None \notin Nat

VARIABLES
    lua,       \* the stages that have scripts
    dropOn,    \* whether the drop executor is on
    redisUp,   \* whether the escalation manager has a Redis client
    redis,     \* the client's counter in Redis, 0 without the key
    heap,      \* the local entries ever allocated: [count, live]
    entry,     \* the index of the one in localCache, or None
    cleaner,   \* whether cleanupLoop is about to delete the key
    resetting, \* whether ResetIP has yet to delete the Redis key
    q,         \* the requests
    faults, reloads, expiries

config == <<lua, dropOn, redisUp, reloads>>
counters == <<redis, heap, entry, cleaner, resetting, expiries>>
vars == <<config, counters, q, faults>>

Steps == {"start", "run", "post", "dispatch", "record", "recordLocal", "add", "store",
          "evaluate", "evaluateLocal", "delete", "answer", "done"}
Stages == {"pre", "post"}
PhaseNames == {"acl", "lua_pre", "detect", "custom"}

\* A request: where it is, the phases still to run, whether a challenge is pending,
\* the verdict, the local entry it holds, the count it read and the client's answer.
\* The rest is history: the verdict of the pipeline, the terminal outcomes of the
\* phases, whether a script or a pass cookie lifted the verdict, and whether the
\* escalation manager was told of the hit.
States == [pc : Steps, todo : Seq(PhaseNames), pending : BOOLEAN, verdict : Actions,
           ref : Nat, seen : Nat, answer : Actions, builtin : Actions,
           hits : SUBSET Terminals, waived : BOOLEAN, told : BOOLEAN]

TypeOK ==
    /\ lua \in SUBSET Stages
    /\ dropOn \in BOOLEAN /\ redisUp \in BOOLEAN
    /\ redis \in 0..Cardinality(Requests)
    /\ heap \in Seq([count : Nat, live : BOOLEAN])
    /\ entry \in DOMAIN heap \cup {None}
    /\ cleaner \in BOOLEAN /\ resetting \in BOOLEAN
    /\ q \in [Requests -> States]
    /\ faults \in 0..MaxFaults /\ reloads \in 0..MaxReloads /\ expiries \in 0..MaxExpiries

Step(r, pc) == q' = [q EXCEPT ![r].pc = pc]
Fault == faults < MaxFaults /\ faults' = faults + 1

-----------------------------------------------------------------------------
(* pipeline.Run                                                              *)

Chains == {<<"acl", "detect", "custom">>, <<"acl", "lua_pre", "detect", "custom">>}

\* The request comes with its chain; PhaseCache says which.
Begin(r) ==
    /\ q[r].pc = "start"
    /\ \E c \in Chains : q' = [q EXCEPT ![r].pc = "run", ![r].todo = c]
    /\ UNCHANGED <<config, counters, faults>>

Terminal(a) == a \in Terminals

TerminalPriority(a) ==
    CASE a = "drop" -> 90
      [] a = "intercept" -> 80
      [] a = "rate_limit" -> 70
      [] a = "challenge" -> 60
      [] a = "redirect" -> 50
      [] a = "observe" -> 10
      [] OTHER -> 0

\* Run returns.
Return(s, v) == [s EXCEPT !.pc = "post", !.builtin = v, !.verdict = v]

\* Mutant: a challenge stops the chain.
ExecutedChallengeStops(s, o) ==
    LET next == [s EXCEPT !.hits = @ \cup ({o} \cap Terminals), !.todo = Tail(@)]
    IN  IF o = "allow" \/ Terminal(o) THEN Return(next, o)
        ELSE IF next.todo = <<>> THEN Return(next, "none")
        ELSE next

\* What Run does with the outcome of a phase: a challenge waits for the phases
\* behind it, and anything else that is terminal, or stops the chain like allow, is
\* the verdict.
Executed(s, o) ==
    LET stop == o = "allow" \/ (Terminal(o) /\ o # "challenge")
        pending == s.pending \/ o = "challenge"
        next == [s EXCEPT !.hits = @ \cup ({o} \cap Terminals), !.pending = pending,
                          !.todo = Tail(@)]
    IN  IF stop \/ next.todo = <<>>
        THEN Return(next, IF stop THEN o ELSE IF pending THEN "challenge" ELSE "none")
        ELSE next

AtPhase(r, names) == q[r].pc = "run" /\ Head(q[r].todo) \in names

ExecutePhase(r) ==
    /\ AtPhase(r, {"acl", "detect", "custom"})
    /\ \E o \in Outcomes : q' = [q EXCEPT ![r] = Executed(@, o)]
    /\ UNCHANGED <<config, counters, faults>>

-----------------------------------------------------------------------------
(* The Lua stages                                                            *)

\* What Evaluate may return for a stage: nothing without scripts, and also when
\* the request is cancelled, the KV store is away or every script fails.
Evaluate(stage) == {"none"} \cup (IF stage \in lua THEN ScriptActs ELSE {})

\* An action nobody knows is ignored.
Known(act) == IF act \in Actions THEN act ELSE "none"

\* luaPhase.Execute, with the scripts of the moment.
ExecuteLuaPre(r) ==
    /\ AtPhase(r, {"lua_pre"})
    /\ \E act \in Evaluate("pre") : q' = [q EXCEPT ![r] = Executed(@, Known(act))]
    /\ UNCHANGED <<config, counters, faults>>

\* Mutant: a script may replace any verdict.
PostVerdictAny(builtin, act) ==
    IF act = "none" THEN builtin ELSE IF act = "allow" THEN "none" ELSE act

\* Only allow lifts a terminal verdict; any other action counts if there is none.
PostVerdict(builtin, act) ==
    IF act = "allow" THEN "none"
    ELSE IF act = "none" \/ Terminal(builtin) THEN builtin
    ELSE act

\* applyPostLuaDecision.
ApplyPostLuaDecision(r) ==
    /\ q[r].pc = "post"
    /\ \E a \in Evaluate("post") :
          q' = [q EXCEPT ![r].pc = "dispatch", ![r].verdict = PostVerdict(@, Known(a)),
                         ![r].waived = a = "allow",
                         ![r].todo = <<>>, ![r].pending = FALSE, ![r].hits = {}]
    /\ UNCHANGED <<config, counters, faults>>

-----------------------------------------------------------------------------
(* The handler carries the verdict out                                       *)

\* Without a terminal verdict the request goes upstream.  A valid pass cookie, or
\* the answer to a challenge just checked, lifts a challenge.
Forward(r) ==
    /\ q[r].pc = "dispatch"
    /\ q[r].verdict \notin Terminals \ {"challenge"}
    /\ q' = [q EXCEPT ![r].pc = "done", ![r].waived = @ \/ q[r].verdict = "challenge",
                      ![r].verdict = "none"]
    /\ UNCHANGED <<config, counters, faults>>

\* A drop is an intercept while the executor is off.
Enforce(r) ==
    /\ q[r].pc = "dispatch"
    /\ Terminal(q[r].verdict)
    /\ q' = [q EXCEPT ![r].pc = "record",
                      ![r].verdict = IF @ = "drop" /\ ~dropOn THEN "intercept" ELSE @]
    /\ UNCHANGED <<config, counters, faults>>

\* The executor is asked again; without it, or if the connection cannot be cut, the
\* client gets the block page.
Answer(r) ==
    /\ q[r].pc = "answer"
    /\ \E a \in IF q[r].verdict # "drop" THEN {q[r].verdict}
                 ELSE IF dropOn THEN {"drop", "intercept"} ELSE {"intercept"} :
          q' = [q EXCEPT ![r].pc = "done", ![r].answer = a, ![r].verdict = "none",
                         ![r].seen = 0]
    /\ UNCHANGED <<config, counters, faults>>

-----------------------------------------------------------------------------
(* EscalationManager.RecordHit                                               *)

Told(r, pc) == q' = [q EXCEPT ![r].pc = pc, ![r].told = TRUE]

\* Redis counts the hit, or the call fails, before or after it took effect, and the
\* local counter takes over.
RecordHit(r) ==
    /\ q[r].pc = "record"
    /\ \/ redisUp /\ redis' = redis + 1 /\ Told(r, "evaluate") /\ UNCHANGED faults
       \/ redisUp /\ redis' \in {redis, redis + 1} /\ Told(r, "recordLocal") /\ Fault
       \/ ~redisUp /\ Told(r, "recordLocal") /\ UNCHANGED <<redis, faults>>
    /\ UNCHANGED <<config, heap, entry, cleaner, resetting, expiries>>

\* recordHitLocal loads the entry of the key; it is added to if its window lasts.
LoadLocal(r) ==
    /\ q[r].pc = "recordLocal"
    /\ IF entry # None /\ heap[entry].live
       THEN q' = [q EXCEPT ![r].pc = "add", ![r].ref = entry]
       ELSE Step(r, "store")
    /\ UNCHANGED <<config, counters, faults>>

\* The entry may have been replaced or deleted since.
AddLocal(r) ==
    /\ q[r].pc = "add"
    /\ heap' = [heap EXCEPT ![q[r].ref].count = @ + 1]
    /\ q' = [q EXCEPT ![r].pc = "evaluate", ![r].ref = 0]
    /\ UNCHANGED <<config, redis, entry, cleaner, resetting, expiries, faults>>

\* An entry stored by another request since is overwritten.
StoreLocal(r) ==
    /\ q[r].pc = "store"
    /\ heap' = Append(heap, [count |-> 1, live |-> TRUE])
    /\ entry' = Len(heap')
    /\ Step(r, "evaluate")
    /\ UNCHANGED <<config, redis, cleaner, resetting, expiries, faults>>

-----------------------------------------------------------------------------
(* EscalationManager.Evaluate                                                *)

\* resolveAction: the last step of the ladder the count has reached.
ResolveAction(n) ==
    LET reached == {i \in DOMAIN Ladder : n >= Ladder[i].threshold}
    IN  IF reached = {} THEN "none"
        ELSE Ladder[CHOOSE i \in reached : \A j \in reached : j <= i].action

\* Mutant: the name of the step's action is taken as it is stored.
EscalatedRaw(v, up) ==
    IF TerminalPriority(up) <= TerminalPriority(v) THEN v
    ELSE IF up = "drop" THEN "block" ELSE up

\* The handler takes the action of the step only if it is more severe.
Escalated(v, up) == IF TerminalPriority(up) > TerminalPriority(v) THEN up ELSE v

Counted(r, n) ==
    q' = [q EXCEPT ![r].pc = "answer", ![r].seen = n,
                   ![r].verdict = Escalated(@, ResolveAction(n))]

\* Mutant: the hits that only the local counter has are added.
GetCountSum(r) ==
    /\ q[r].pc = "evaluate"
    /\ \/ /\ redisUp /\ redis > 0
          /\ Counted(r, redis + (IF entry = None THEN 0 ELSE heap[entry].count))
          /\ UNCHANGED faults
       \/ redisUp /\ redis > 0 /\ Step(r, "evaluateLocal") /\ Fault
       \/ ~(redisUp /\ redis > 0) /\ Step(r, "evaluateLocal") /\ UNCHANGED faults
    /\ UNCHANGED <<config, counters>>

\* getCount: Redis, or the local counter if the call fails or the key is missing.
GetCount(r) ==
    /\ q[r].pc = "evaluate"
    /\ \/ redisUp /\ redis > 0 /\ Counted(r, redis) /\ UNCHANGED faults
       \/ redisUp /\ redis > 0 /\ Step(r, "evaluateLocal") /\ Fault
       \/ ~(redisUp /\ redis > 0) /\ Step(r, "evaluateLocal") /\ UNCHANGED faults
    /\ UNCHANGED <<config, counters>>

\* getCountLocal.
GetCountLocal(r) ==
    /\ q[r].pc = "evaluateLocal"
    /\ \/ entry = None /\ Counted(r, 0)
       \/ entry # None /\ heap[entry].live /\ Counted(r, heap[entry].count)
       \/ entry # None /\ ~heap[entry].live /\ Step(r, "delete")
    /\ UNCHANGED <<config, counters, faults>>

\* It deletes the key, whatever entry it has by now.
DeleteLocal(r) ==
    /\ q[r].pc = "delete"
    /\ entry' = None
    /\ Counted(r, 0)
    /\ UNCHANGED <<config, redis, heap, cleaner, resetting, expiries, faults>>

\* cleanupLoop finds an entry whose window is over, and then deletes its key.
FindExpired ==
    /\ ~cleaner
    /\ entry # None /\ ~heap[entry].live
    /\ cleaner' = TRUE
    /\ UNCHANGED <<config, redis, heap, entry, resetting, expiries, q, faults>>

CleanLocal ==
    /\ cleaner
    /\ entry' = None
    /\ cleaner' = FALSE
    /\ UNCHANGED <<config, redis, heap, resetting, expiries, q, faults>>

\* ResetIP, an administrator's pardon: the local entry goes first, then the Redis
\* key, if there is a client; an error of that call is not looked at.
ResetLocal ==
    /\ ~resetting
    /\ expiries < MaxExpiries /\ expiries' = expiries + 1
    /\ entry' = None
    /\ resetting' = TRUE
    /\ UNCHANGED <<config, redis, heap, cleaner, q, faults>>

ResetRedis ==
    /\ resetting
    /\ resetting' = FALSE
    /\ \/ redis' = (IF redisUp THEN 0 ELSE redis) /\ UNCHANGED faults
       \/ redisUp /\ Fault /\ UNCHANGED redis
    /\ UNCHANGED <<config, heap, entry, cleaner, expiries, q>>

-----------------------------------------------------------------------------
(* The environment                                                           *)

\* A window ends: the local entry is over, or Redis drops the key.
Expire ==
    /\ expiries < MaxExpiries /\ expiries' = expiries + 1
    /\ \/ /\ entry # None /\ heap[entry].live
          /\ heap' = [heap EXCEPT ![entry].live = FALSE]
          /\ UNCHANGED redis
       \/ redis > 0 /\ redis' = 0 /\ UNCHANGED heap
    /\ UNCHANGED <<config, entry, cleaner, resetting, q, faults>>

\* A reload replaces the scripts, the drop policy or the Redis client.
Reload ==
    /\ reloads < MaxReloads /\ reloads' = reloads + 1
    /\ lua' \in SUBSET Stages
    /\ dropOn' \in BOOLEAN
    /\ redisUp' \in BOOLEAN
    /\ UNCHANGED <<counters, q, faults>>

-----------------------------------------------------------------------------
Init ==
    /\ lua \in SUBSET Stages
    /\ dropOn \in BOOLEAN
    /\ redisUp \in BOOLEAN
    /\ redis = 0 /\ heap = <<>> /\ entry = None /\ cleaner = FALSE
    /\ resetting = FALSE
    /\ q = [r \in Requests |->
              [pc |-> "start", todo |-> <<>>, pending |-> FALSE, verdict |-> "none",
               ref |-> 0, seen |-> 0, answer |-> "none", builtin |-> "none",
               hits |-> {}, waived |-> FALSE, told |-> FALSE]]
    /\ faults = 0 /\ reloads = 0 /\ expiries = 0

Judge(r) ==
    Begin(r) \/ ExecutePhase(r) \/ ExecuteLuaPre(r) \/ ApplyPostLuaDecision(r)

Dispatch(r) ==
    \/ Forward(r) \/ Enforce(r) \/ Answer(r)
    \/ RecordHit(r) \/ LoadLocal(r) \/ AddLocal(r) \/ StoreLocal(r)
    \/ GetCount(r) \/ GetCountLocal(r) \/ DeleteLocal(r)

Next ==
    \/ \E r \in Requests : Judge(r) \/ Dispatch(r)
    \/ FindExpired \/ CleanLocal \/ ResetLocal \/ ResetRedis \/ Expire \/ Reload

Spec == Init /\ [][Next]_vars

-----------------------------------------------------------------------------
(* Properties                                                                *)

\* Run answers with a challenge, or with nothing, only after every phase had its
\* say and none of them wanted the request stopped: a pending challenge hides no
\* hit of a later phase (pipeline.Run).
VerdictComplete ==
    \A r \in Requests :
        q[r].pc = "post" /\ q[r].builtin \in {"challenge", "none"} =>
            q[r].todo = <<>> /\ q[r].hits = {q[r].builtin} \cap Terminals

\* Between the pipeline and the client a verdict only gets more severe, unless a
\* script or a pass cookie lifts it; a drop may turn into the block page
\* (applyPostLuaDecision and the handler's escalation).
NotWeakened ==
    \A r \in Requests :
        q[r].pc = "done" /\ Terminal(q[r].builtin) /\ ~q[r].waived =>
            \/ TerminalPriority(q[r].answer) >= TerminalPriority(q[r].builtin)
            \/ q[r].builtin = "drop" /\ q[r].answer = "intercept"

\* No request is escalated for more hits than the client has made, although a
\* failing Redis call may have counted a hit that is counted locally as well, and
\* the counter it is read from may be another one (RecordHit, getCount).
EscalationEarned ==
    \A r \in Requests : q[r].seen <= Cardinality({x \in Requests : q[x].told})
=============================================================================
