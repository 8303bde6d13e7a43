---------------------------- MODULE JobLifecycle ----------------------------
(***************************************************************************)
(* What the durable job table promises its readers: each job follows a     *)
(* small graph of states, a job holds a lease exactly while it is running, *)
(* and a finished job stays finished.  How callers race for those edges    *)
(* is no part of the promise; module Jobs has the races.                   *)
(***************************************************************************)
CONSTANT Jobs

VARIABLES state,   \* state of each job, "absent" before it is created
          leased   \* the jobs whose lease_expires_at is not NULL

vars == <<state, leased>>

States == {"queued", "running", "needs_human", "succeeded", "failed",
           "cancelled"}

Terminal == {"succeeded", "failed", "cancelled"}

\* _PERMITTED_TRANSITIONS, the edges a caller of JobService may ask for.
Permitted ==
    ({"queued"} \X {"running", "cancelled"})
      \union ({"running"} \X ({"needs_human"} \union Terminal))
      \union ({"needs_human"} \X {"running", "cancelled"})

Init == /\ state = [j \in Jobs |-> "absent"]
        /\ leased = {}

Create(j) == /\ state[j] = "absent"
             /\ state' = [state EXCEPT ![j] = "queued"]
             /\ UNCHANGED leased

\* One permitted edge of one job; the lease follows the state.
Move(j) ==
    \E t \in States :
        /\ <<state[j], t>> \in Permitted
        /\ state' = [state EXCEPT ![j] = t]
        /\ leased' = IF t = "running" THEN leased \union {j} ELSE leased \ {j}

\* A restart hands any set of unfinished jobs to a person in one commit.
\* This is the only way from queued to needs_human.
HandOver(S) ==
    /\ \A j \in S : state[j] \in {"queued", "running"}
    /\ state' = [j \in Jobs |-> IF j \in S THEN "needs_human" ELSE state[j]]
    /\ leased' = leased \ S

Next == \/ \E j \in Jobs : Create(j) \/ Move(j)
        \/ \E S \in SUBSET Jobs : HandOver(S)

Spec == Init /\ [][Next]_vars
=============================================================================
