-------------------------- MODULE QianfanCollection --------------------------
(***************************************************************************)
(* The collection of the Qianfan rankings (features/radar/                 *)
(* qianfan_service.py) and the snapshots it publishes (features/radar/     *)
(* service.py).  A request reserves one job per scope, all in one commit,  *)
(* and hands the batch to the one serial thread, which executes it scope   *)
(* by scope; readers of a day see the snapshots of its newest batch only.  *)
(* An operator may cancel any job, a request may upload a snapshot of its  *)
(* own, close() fences admission and cancels what it finds in the job      *)
(* table, and a restart hands every unfinished job to a person.            *)
(*                                                                         *)
(* All batches are of one day.  A transition() of a job is one step: its   *)
(* read and its guarded UPDATE raise alike when the job has moved on.      *)
(***************************************************************************)
EXTENDS Naturals, Sequences

CONSTANTS Collections, \* batches
          Scopes,      \* boards and dimensions, eight in the code
          None

ASSUME NoneAssumption == /\ None \notin Collections \union Scopes
                         /\ "upload" \notin Collections
                         /\ Scopes # {}

VARIABLES
    job,      \* jobs.state of the job of each scope of each batch
    active,   \* the newest row of radar_qianfan_collections
    snapshot, \* the batch a scope's snapshot of the day is bound to
    batches,  \* the queue of the thread
    cur,      \* the batch it executes
    todo,     \* the scopes of that batch it has not come to
    scope,    \* the scope it executes
    pc,       \* where it is
    refused,  \* the jobs of a batch the thread did not take
    listed,   \* the jobs close() has listed, with the state it saw
    phase     \* of the process: "fenced" and "closing" are within close()

thread == <<cur, todo, scope, pc>>
vars   == <<job, active, snapshot, batches, thread, refused, listed, phase>>

States     == {"absent", "queued", "running", "needs_human", "succeeded",
               "failed", "cancelled"}
Unfinished == {"queued", "running"}
Places     == {"idle", "start", "refuse", "next", "claim", "collect", "exact",
               "short", "finalize", "build", "ingest", "untrusted",
               "hand_over", "raised", "report"}
Reserved   == Collections \X Scopes

Init ==
    /\ job      = [r \in Reserved |-> "absent"]
    /\ active   = None
    /\ snapshot = [s \in Scopes |-> None]
    /\ batches  = << >>
    /\ cur      = None
    /\ todo     = {}
    /\ scope    = None
    /\ pc       = "idle"
    /\ refused  = {}
    /\ listed   = {}
    /\ phase    = "up"

Accepting == phase = "up"

(***************************************************************************)
(* Requests                                                                *)
(***************************************************************************)
\* enqueue(), which holds the lock: create_batch, then submit(), which raises
\* when the thread cannot be started.
Enqueue(c) ==
    /\ Accepting
    /\ refused = {}
    /\ \A s \in Scopes : job[<<c, s>>] = "absent"
    /\ job' = [r \in Reserved |-> IF r[1] = c THEN "queued" ELSE job[r]]
    /\ \/ batches' = Append(batches, c) /\ UNCHANGED refused
       \/ refused' = {c} \X Scopes      /\ UNCHANGED batches
    /\ UNCHANGED <<active, snapshot, thread, listed, phase>>

\* A claim and a transition of a job, or an exception that is swallowed.
Refused(r) == job' = [job EXCEPT ![r] = IF @ = "queued" THEN "failed" ELSE @]

\* _fail_reserved of enqueue().
FailReserved(r) ==
    /\ r \in refused
    /\ refused' = refused \ {r}
    /\ Refused(r)
    /\ UNCHANGED <<active, snapshot, batches, thread, listed, phase>>

\* POST /jobs/{id}/transition, the one thing a request may do to such a job.
OperatorCancel(r) ==
    /\ Accepting
    /\ job[r] \in Unfinished \union {"needs_human"}
    /\ job' = [job EXCEPT ![r] = "cancelled"]
    /\ UNCHANGED <<active, snapshot, batches, thread, refused, listed, phase>>

\* POST /radar/rank-snapshots replaces the snapshot of the scope.
Upload(s) ==
    /\ Accepting
    /\ snapshot' = [snapshot EXCEPT ![s] = "upload"]
    /\ UNCHANGED <<job, active, batches, thread, refused, listed, phase>>

(***************************************************************************)
(* The thread: execute_batch and _execute_scope                            *)
(***************************************************************************)
Goto(p)    == pc' = p /\ UNCHANGED <<cur, todo, scope>>
ThreadOnly == UNCHANGED <<batches, refused, listed, phase>>
JobsOnly   == UNCHANGED <<active, snapshot>> /\ ThreadOnly
Mine       == <<cur, scope>>

Take ==
    /\ phase # "down"
    /\ pc = "idle"
    /\ batches # << >>
    /\ batches' = Tail(batches)
    /\ cur'  = Head(batches)
    /\ todo' = Scopes
    /\ pc'   = "start"
    /\ UNCHANGED <<job, active, snapshot, scope, refused, listed, phase>>

\* start_qianfan_collection
Start ==
    /\ pc = "start"
    /\ \/ active' = cur /\ Goto("next")
       \/ UNCHANGED active /\ Goto("refuse")
    /\ UNCHANGED <<job, snapshot>>
    /\ ThreadOnly

\* _fail_reserved of execute_batch.
Refuse(s) ==
    /\ pc = "refuse"
    /\ s \in todo
    /\ todo' = todo \ {s}
    /\ Refused(<<cur, s>>)
    /\ UNCHANGED <<cur, scope, pc>>
    /\ JobsOnly

\* The next scope, or _cancel_reserved when admission is closed.
NextScope(s) ==
    /\ pc = "next"
    /\ s \in todo
    /\ todo' = todo \ {s}
    /\ IF Accepting
       THEN scope' = s /\ pc' = "claim" /\ UNCHANGED job
       ELSE /\ job' = [job EXCEPT ![<<cur, s>>] = IF @ = "queued" THEN "cancelled" ELSE @]
            /\ UNCHANGED <<scope, pc>>
    /\ UNCHANGED cur
    /\ JobsOnly

Idle == cur' = None /\ todo' = {} /\ scope' = None /\ pc' = "idle"

EndBatch ==
    /\ pc \in {"next", "refuse"}
    /\ todo = {}
    /\ Idle
    /\ UNCHANGED job
    /\ JobsOnly

\* claim(), or an operator was first.
Claim ==
    /\ pc = "claim"
    /\ IF job[Mine] = "queued"
       THEN job' = [job EXCEPT ![Mine] = "running"] /\ Goto("collect")
       ELSE UNCHANGED job /\ Goto("next")
    /\ JobsOnly

\* transition() of the running job, which raises when an operator was first.
Finish(from, t) ==
    /\ pc = from
    /\ IF job[Mine] = "running"
       THEN job' = [job EXCEPT ![Mine] = t] /\ Goto("next")
       ELSE UNCHANGED job /\ Goto("raised")
    /\ JobsOnly

\* What the adapter returns or raises.
Collect ==
    /\ pc = "collect"
    /\ \E p \in {"exact", "short", "raised"} : Goto(p)
    /\ UNCHANGED job
    /\ JobsOnly

\* Mutant of CancelRunning: only logged.
CancelRunningNot == UNCHANGED job

\* _cancel_running
CancelRunning == job' = [job EXCEPT ![Mine] = IF @ = "running" THEN "cancelled" ELSE @]

\* The admission flag is read before a result, or an exception, counts.
Returned(from, p) ==
    /\ pc = from
    /\ IF Accepting THEN Goto(p) /\ UNCHANGED job
                    ELSE Goto("next") /\ CancelRunning
    /\ JobsOnly

\* _build_snapshot, which reads the evidence back and may not trust it.
Build ==
    /\ pc = "build"
    /\ \E p \in {"ingest", "untrusted", "raised"} : Goto(p)
    /\ UNCHANGED job
    /\ JobsOnly

\* Mutant of Owns: the job is matched by its key.
OwnsByKey == TRUE

\* The WHERE clause of the UPDATE in ingest_snapshot_and_finalize_job.
Owns == job[Mine] = "running"

\* Mutant of Published: the job is decided, the snapshot follows later.
PublishedLater == UNCHANGED snapshot

\* _upsert_snapshot
Published == snapshot' = [snapshot EXCEPT ![scope] = cur]

\* One transaction for snapshot and job; its acknowledgement may be lost.
Ingest ==
    /\ pc = "ingest"
    /\ Owns
    /\ job' = [job EXCEPT ![Mine] = "succeeded"]
    /\ Published
    /\ \E p \in {"next", "raised"} : Goto(p)
    /\ UNCHANGED active
    /\ ThreadOnly

\* The job has moved on, or the commit fails: both rows are rolled back.
IngestFails ==
    /\ pc = "ingest"
    /\ Goto("raised")
    /\ UNCHANGED job
    /\ JobsOnly

\* The read of _needs_human_after_error.
Untrusted ==
    /\ pc = "untrusted"
    /\ Goto(IF job[Mine] = "running" THEN "hand_over" ELSE "next")
    /\ UNCHANGED job
    /\ JobsOnly

\* Its transition() is not within a try: when an operator was first, the
\* exception ends execute_batch.
HandOver ==
    /\ pc = "hand_over"
    /\ IF job[Mine] = "running"
       THEN job' = [job EXCEPT ![Mine] = "needs_human"] /\ Goto("next")
       ELSE UNCHANGED job /\ Idle
    /\ JobsOnly

\* _failed_after_error, in which every exception is swallowed: the evidence
\* may not be writable.
Report ==
    /\ pc = "report"
    /\ Goto("next")
    /\ \/ job' = [job EXCEPT ![Mine] = IF @ = "running" THEN "failed" ELSE @]
       \/ UNCHANGED job
    /\ JobsOnly

(***************************************************************************)
(* close(), crash and restart                                              *)
(***************************************************************************)
Fence ==
    /\ phase = "up"
    /\ refused = {}
    /\ phase' = "fenced"
    /\ UNCHANGED <<job, active, snapshot, batches, thread, refused, listed>>

\* The jobs close() picks from list().
Listed == {r \in Reserved : job[r] \in Unfinished}

\* The futures are cancelled, and the job table is listed.
ListJobs ==
    /\ phase = "fenced"
    /\ phase'   = "closing"
    /\ batches' = << >>
    /\ listed'  = {[job |-> r, seen |-> job[r]] : r \in Listed}
    /\ UNCHANGED <<job, active, snapshot, thread, refused>>

\* _cancel_reserved or _cancel_running, by the state in the list.  A job listed
\* as queued that is running by now is cancelled or left to the thread.
CloseJob(e) ==
    /\ e \in listed
    /\ listed' = listed \ {e}
    /\ \/ /\ job[e.job] \in Unfinished
          /\ job' = [job EXCEPT ![e.job] = "cancelled"]
       \/ /\ job[e.job] # e.seen
          /\ UNCHANGED job
    /\ UNCHANGED <<active, snapshot, batches, thread, refused, phase>>

Stop ==
    /\ phase # "down"
    /\ phase'   = "down"
    /\ batches' = << >>
    /\ Idle
    /\ refused' = {}
    /\ listed'  = {}
    /\ UNCHANGED <<job, active, snapshot>>

\* recover_interrupted_workers, in the constructor.
Restart ==
    /\ phase = "down"
    /\ phase' = "up"
    /\ job' = [r \in Reserved |-> IF job[r] \in Unfinished THEN "needs_human" ELSE job[r]]
    /\ UNCHANGED <<active, snapshot, batches, thread, refused, listed>>

(***************************************************************************)
(* Specification                                                           *)
(***************************************************************************)
Request ==
    \/ \E c \in Collections : Enqueue(c)
    \/ \E r \in Reserved : FailReserved(r) \/ OperatorCancel(r)
    \/ \E s \in Scopes : Upload(s)

Execute ==
    \/ Take \/ Start
    \/ \E s \in Scopes : Refuse(s) \/ NextScope(s)
    \/ EndBatch
    \/ Claim
    \/ Finish("collect", "needs_human")                 \* no browser configured
    \/ Collect
    \/ Returned("exact", "build") \/ Returned("short", "finalize")
    \/ Finish("finalize", "failed") \/ Finish("finalize", "needs_human")
    \/ Build \/ Ingest \/ IngestFails
    \/ Untrusted \/ HandOver
    \/ Returned("raised", "report") \/ Report

Next ==
    \/ Request
    \/ Execute
    \/ Fence \/ ListJobs
    \/ \E e \in listed : CloseJob(e)
    \/ Stop \/ Restart

Spec == Init /\ [][Next]_vars
-----------------------------------------------------------------------------
(***************************************************************************)
(* Properties                                                              *)
(***************************************************************************)

\* Every variable keeps its type.
TypeOK ==
    /\ job      \in [Reserved -> States]
    /\ active   \in Collections \union {None}
    /\ snapshot \in [Scopes -> Collections \union {None, "upload"}]
    /\ batches  \in Seq(Collections)
    /\ cur      \in Collections \union {None}
    /\ todo     \subseteq Scopes
    /\ scope    \in Scopes \union {None}
    /\ pc       \in Places
    /\ refused  \subseteq Reserved
    /\ listed   \subseteq [job : Reserved, seen : Unfinished]
    /\ phase    \in {"up", "fenced", "closing", "down"}

\* The variables keep their types.  A snapshot bound to a batch is the work of a
\* successful job of that batch, and the newest batch shows every scope it
\* succeeded in: no cancellation, lost acknowledgement or older batch makes
\* "7 of 8" look like "8 of 8" or the other way round.  Only an upload takes a
\* published scope away.
SuccessIsPublished ==
    /\ TypeOK
    /\ \A r \in Reserved : snapshot[r[2]] = r[1] => job[r] = "succeeded"
    /\ \A s \in Scopes : active # None /\ job[<<active, s>>] = "succeeded" =>
           snapshot[s] \in {active, "upload"}

\* A finished job stays as it is: the result of a scope that an operator or
\* close() has cancelled arrives too late.
FinishedStaysFinished ==
    [][\A r \in Reserved :
           job[r] \in {"succeeded", "failed", "cancelled"} => job'[r] = job[r]]_vars

\* When close() has gone through its list and the thread is idle, no job is
\* left queued or running, whatever was being taken, claimed or collected when
\* admission was closed.
ShutdownSettles ==
    phase = "closing" /\ listed = {} /\ pc = "idle" =>
        \A r \in Reserved : job[r] \notin Unfinished
=============================================================================
