----------------------------- MODULE WriteContract -----------------------------
(***************************************************************************)
(* What internal/observability/write_queue.go promises to those who hand   *)
(* it a write, without the channel, the batches, the synchronous fallback  *)
(* or the goroutine behind it.                                             *)
(*                                                                         *)
(* A call has one outcome.  "nil" means the write is in the database, a    *)
(* refused call ("closed", "dropped") that it never will be, "err" and     *)
(* "queued" leave that open.  A write takes effect at most once, in a      *)
(* transaction it may share with others, and none does once a call of      *)
(* Close has returned.                                                     *)
(***************************************************************************)
EXTENDS FiniteSets

CONSTANTS
    Jobs,      \* the calls
    AsyncJobs  \* those of Submit, which returns without an outcome

VARIABLES
    outcome,  \* what each call returned, "none" before
    stored,   \* the writes that took effect
    over      \* whether a call of Close has returned

vars == <<outcome, stored, over>>

Refusals == {"closed", "dropped"}

Init ==
    /\ outcome = [j \in Jobs |-> "none"]
    /\ stored = {}
    /\ over = FALSE

\* One transaction: the writes of S, none of them refused, answered or done before.
Apply(S) ==
    /\ ~over
    /\ S \cap stored = {}
    /\ \A j \in S : outcome[j] \in {"none", "queued"}
    /\ stored' = stored \cup S

\* A call returns; only Submit drops, and only Submit does not wait.
Answer(j, r) ==
    /\ outcome[j] = "none"
    /\ r \in {"queued", "dropped"} <=> j \in AsyncJobs /\ r # "closed"
    /\ r = "nil" => j \in stored'
    /\ r \in Refusals => j \notin stored
    /\ outcome' = [outcome EXCEPT ![j] = r]

\* A caller that runs its own write returns in the same step.
Next ==
    \/ /\ \E S \in SUBSET Jobs : Apply(S)
       /\ UNCHANGED <<outcome, over>>
    \/ /\ \E j \in Jobs, r \in {"nil", "err", "closed", "dropped", "queued"} :
             (Apply({j}) \/ UNCHANGED stored) /\ Answer(j, r)
       /\ UNCHANGED over
    \/ /\ over' = TRUE
       /\ UNCHANGED <<outcome, stored>>

Spec == Init /\ [][Next]_vars
=============================================================================
