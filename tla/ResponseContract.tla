--------------------------- MODULE ResponseContract ---------------------------
(***************************************************************************)
(* What internal/cache/response_cache.go and the handler that uses it      *)
(* promise to clients, without entries, generations, single flights,       *)
(* backups, purges or reloads.                                             *)
(*                                                                         *)
(* A resource is a register that changes upstream, at any time.  A GET is  *)
(* answered at most once, with a version the resource had: one that, at    *)
(* some moment between its beginning and its answer, was not older than    *)
(* what a client knew to be written.  Or it fails.                         *)
(***************************************************************************)
EXTENDS Integers

CONSTANTS
    Gets,  \* GET requests
    Paths, \* the resources
    None   \* no resource

VARIABLES
    current,  \* the version of each resource
    known,    \* the newest version of it that a client has been told of
    asked,    \* the resource each GET asks for, None before it begins
    outcome,  \* what became of each GET
    version   \* the version it was answered with, 0 before

vars == <<current, known, asked, outcome, version>>

Init ==
    /\ current = [p \in Paths |-> 0]
    /\ known = [p \in Paths |-> 0]
    /\ asked = [r \in Gets |-> None]
    /\ outcome = [r \in Gets |-> "idle"]
    /\ version = [r \in Gets |-> 0]

Ask(r, p) ==
    /\ outcome[r] = "idle"
    /\ outcome' = [outcome EXCEPT ![r] = "waiting"]
    /\ asked' = [asked EXCEPT ![r] = p]
    /\ UNCHANGED <<current, known, version>>

Answer(r) ==
    /\ outcome[r] = "waiting"
    /\ outcome' = [outcome EXCEPT ![r] = "answered"]
    /\ \E v \in known[asked[r]]..current[asked[r]] :
          version' = [version EXCEPT ![r] = v]
    /\ UNCHANGED <<current, known, asked>>

Fail(r) ==
    /\ outcome[r] = "waiting"
    /\ outcome' = [outcome EXCEPT ![r] = "failed"]
    /\ UNCHANGED <<current, known, asked, version>>

Change(p) ==
    /\ current' = [current EXCEPT ![p] = @ + 1]
    /\ UNCHANGED <<known, asked, outcome, version>>

\* A client learns of a version; what is known is never taken back.
Acknowledge(p) ==
    /\ \E v \in known[p]..current[p] : known' = [known EXCEPT ![p] = v]
    /\ UNCHANGED <<current, asked, outcome, version>>

Next ==
    \/ \E r \in Gets : Answer(r) \/ Fail(r) \/ \E p \in Paths : Ask(r, p)
    \/ \E p \in Paths : Change(p) \/ Acknowledge(p)

Spec == Init /\ [][Next]_vars
=============================================================================
