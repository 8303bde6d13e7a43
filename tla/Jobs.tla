-------------------------------- MODULE Jobs --------------------------------
(***************************************************************************)
(* The durable job table (services/jobs.py), the public jobs API that      *)
(* guards it (api/jobs.py), the shop worker as a client of it              *)
(* (features/shops/service.py), and the restart of the one backend         *)
(* process (main.py).                                                      *)
(*                                                                         *)
(* A transition is two steps, as in the code: a read that checks the       *)
(* permitted edges and, after the read snapshot is released, an UPDATE     *)
(* guarded by the state that was read.  Other calls run in between.        *)
(* The result of a shop job is a temporary file that finalisation renames  *)
(* inside the transaction that decides the job.                            *)
(*                                                                         *)
(* Any call on the database may raise.  Where the code of a shop job does  *)
(* not catch that, its thread ends and nobody in the process has the job;  *)
(* dropped remembers these jobs for the properties.                        *)
(***************************************************************************)
EXTENDS Integers, FiniteSets

CONSTANTS Jobs,        \* job identities
          Shop,        \* jobs of a reserved Android shop type; the rest are
                       \* external jobs, driven through the public API
          MaxCalls,    \* bound on the calls of transition() in progress
          LeaseTicks,  \* length of a lease, in ticks of the clock
          MaxNow,      \* bound on the clock
          MaxRetries   \* bound on the resumptions of one job

ASSUME ShopAssumption  == Shop \subseteq Jobs
ASSUME BoundAssumption ==
    /\ LeaseTicks \in Nat
    /\ MaxCalls   \in Nat
    /\ MaxNow     \in Nat
    /\ MaxRetries \in Nat

VARIABLES
    state,      \* jobs.state, "absent" before the row exists
    lease,      \* jobs.lease_expires_at, NoLease for NULL
    completed,  \* the jobs whose completed_at is not NULL
    error,      \* jobs.error_category
    retries,    \* jobs.retry_count
    temp,       \* shop jobs whose .result-<uuid>.tmp exists
    final,      \* shop jobs whose result.json exists
    bound,      \* jobs with a job_artifacts row for result.json
    worker,     \* the thread of each shop job, in the memory of the process
    dropped,    \* history: the shop jobs whose thread this process has lost
                \* to a database error
    inflight,   \* the calls of transition() between their read and UPDATE
    phase,      \* "up", "down", or "shops" in the middle of create_app
    now         \* the clock

rows  == <<state, lease, completed, error, retries>>
files == <<temp, final, bound>>
vars  == <<rows, files, worker, dropped, inflight, phase, now>>

L == INSTANCE JobLifecycle WITH leased <- {j \in Jobs : state[j] = "running"}

States    == L!States
Terminal  == L!Terminal
Permitted == L!Permitted

NoLease == -1
Errors  == {"none", "reported", "operator_cancelled", "shop_failed",
            "shop_schedule_failed", "worker_interrupted",
            "worker_restart_required"}

\* What the thread of a shop job is doing; "none" when no thread has the job.
\* The request that could not schedule it is "unscheduled" until it has claimed
\* the job, then "failing"; the others are the steps of execute().
WorkerStates == {"none", "unscheduled", "failing",
                 "pending", "collecting", "prepared", "raised"}

Calls == [job : Jobs, seen : States, target : States,
          error : Errors \union {"unset"}]

External == Jobs \ Shop

(***************************************************************************)
(* Initial state: an empty database and a process that has started.        *)
(***************************************************************************)
Init ==
    /\ state     = [j \in Jobs |-> "absent"]
    /\ lease     = [j \in Jobs |-> NoLease]
    /\ completed = {}
    /\ error     = [j \in Jobs |-> "none"]
    /\ retries   = [j \in Jobs |-> 0]
    /\ temp      = {}
    /\ final     = {}
    /\ bound     = {}
    /\ worker    = [j \in Jobs |-> "none"]
    /\ dropped   = {}
    /\ inflight  = {}
    /\ phase     = "up"
    /\ now       = 0

(***************************************************************************)
(* Creation.  POST /jobs refuses a reserved type; a shop job is created by *)
(* ShopCollectionService.enqueue, which also submits it to the executor.   *)
(***************************************************************************)
\* An uncaught database error ends the thread that has job j.
LoseThread(j) ==
    /\ worker'  = [worker EXCEPT ![j] = "none"]
    /\ dropped' = dropped \union {j}

\* The row of a shop job is followed by its task, by an executor that raises,
\* or by nothing when the acknowledgement of the row is lost.
Create(j) ==
    /\ phase = "up"
    /\ state[j] = "absent"
    /\ state' = [state EXCEPT ![j] = "queued"]
    /\ \/ /\ j \in External
          /\ UNCHANGED <<worker, dropped>>
       \/ /\ j \in Shop
          /\ \E w \in {"pending", "unscheduled"} : worker' = [worker EXCEPT ![j] = w]
          /\ UNCHANGED dropped
       \/ /\ j \in Shop
          /\ LoseThread(j)
    /\ UNCHANGED <<lease, completed, error, retries, files, inflight, phase, now>>

(***************************************************************************)
(* claim(): one UPDATE, from queued or needs_human.                        *)
(***************************************************************************)
ClaimRow(j) ==
    /\ state[j] \in {"queued", "needs_human"}
    /\ state[j] = "needs_human" => retries[j] < MaxRetries
    /\ state'   = [state EXCEPT ![j] = "running"]
    /\ lease'   = [lease EXCEPT ![j] = now + LeaseTicks]
    /\ retries' = [retries EXCEPT ![j] =
                     IF state[j] = "needs_human" THEN @ + 1 ELSE @]
    /\ UNCHANGED <<completed, error>>

\* POST /jobs/{id}/claim, which refuses reserved jobs.
ExternalClaim(j) ==
    /\ phase = "up"
    /\ j \in External
    /\ ClaimRow(j)
    /\ UNCHANGED <<files, worker, dropped, inflight, phase, now>>

\* A claim by the thread of a shop job, which gives up when it is refused.
ThreadClaim(j, before, after) ==
    /\ worker[j] = before
    /\ \/ /\ ClaimRow(j)
          /\ worker' = [worker EXCEPT ![j] = after]
       \/ /\ state[j] \notin {"queued", "needs_human"}
          /\ worker' = [worker EXCEPT ![j] = "none"]
          /\ UNCHANGED rows
    /\ UNCHANGED <<files, dropped, inflight, phase, now>>

\* The claim that opens execute().
WorkerClaim(j) == ThreadClaim(j, "pending", "collecting")

\* The except branch of enqueue claims the job in order to fail it.
ScheduleClaim(j) == ThreadClaim(j, "unscheduled", "failing")

(***************************************************************************)
(* transition(), first half: read the row, check the edge, release the     *)
(* read snapshot.  A refused edge changes nothing and is left out.         *)
(***************************************************************************)
TransitionRead(j, t, e) ==
    /\ <<state[j], t>> \in Permitted
    /\ Cardinality(inflight) < MaxCalls
    /\ inflight' = inflight \union
                     {[job |-> j, seen |-> state[j], target |-> t, error |-> e]}

\* Mutant of Allowed: the payload of a reserved job is not restricted.
AllowedAnyPayload(j, t, e) == e \in {"unset", "reported"}

\* The payloads transition_job passes on.
Allowed(j, t, e) ==
    \/ j \in External /\ e \in {"unset", "reported"}
    \/ j \in Shop /\ t = "cancelled" /\ e = "operator_cancelled"

\* POST /jobs/{id}/transition.  For a reserved job only a bare cancellation
\* is let through, with the error category the server chooses.
RequestTransition(j, t, e) ==
    /\ phase = "up"
    /\ Allowed(j, t, e)
    /\ TransitionRead(j, t, e)
    /\ UNCHANGED <<rows, files, worker, dropped, phase, now>>

\* The thread of a shop job reads the row to fail it; a job that is no longer
\* running is left alone.
ThreadFail(j, before, e) ==
    /\ worker[j] = before
    /\ worker' = [worker EXCEPT ![j] = "none"]
    /\ IF state[j] = "running" THEN TransitionRead(j, "failed", e)
                               ELSE UNCHANGED inflight
    /\ UNCHANGED <<rows, files, dropped, phase, now>>

\* The except branches of _execute_claimed, and the one of enqueue.
WorkerFail(j)   == ThreadFail(j, "raised", "shop_failed")
ScheduleFail(j) == ThreadFail(j, "failing", "shop_schedule_failed")

\* A claim, append_log or the read of the row raises where no one catches it;
\* the claim may have been committed nevertheless.
ThreadDies(j) ==
    /\ worker[j] \in {"pending", "unscheduled", "raised", "failing"}
    /\ LoseThread(j)
    /\ \/ UNCHANGED rows
       \/ worker[j] \in {"pending", "unscheduled"} /\ ClaimRow(j)
    /\ UNCHANGED <<files, inflight, phase, now>>

(***************************************************************************)
(* transition(), second half: UPDATE ... WHERE state = <the state read>.   *)
(* When the row has moved on the call raises and nothing changes.          *)
(***************************************************************************)
\* Mutant of LeaseAfter: needs_human keeps the lease it had.
LeaseKeptAfter(j, t) ==
    CASE t = "running"     -> now + LeaseTicks
      [] t = "needs_human" -> lease[j]
      [] OTHER             -> NoLease

\* lease_expires_at after a transition to t.
LeaseAfter(j, t) == IF t = "running" THEN now + LeaseTicks ELSE NoLease

\* Mutant of Won: the UPDATE is by primary key alone.
WonByKey(call) == TRUE

\* rowcount of that UPDATE.
Won(call) == state[call.job] = call.seen

TransitionWrite(call) ==
    LET j == call.job
        t == call.target
    IN
    /\ call \in inflight
    /\ inflight' = inflight \ {call}
    /\ IF Won(call)
       THEN /\ call.seen = "needs_human" /\ t = "running" => retries[j] < MaxRetries
            /\ state' = [state EXCEPT ![j] = t]
            /\ lease' = [lease EXCEPT ![j] = LeaseAfter(j, t)]
            /\ completed' = IF t \in Terminal THEN completed \union {j} ELSE completed
            /\ error' = [error EXCEPT ![j] = IF call.error = "unset" THEN @ ELSE call.error]
            /\ retries' = [retries EXCEPT ![j] =
                              IF call.seen = "needs_human" /\ t = "running"
                              THEN @ + 1 ELSE @]
       ELSE UNCHANGED rows
    /\ UNCHANGED <<files, worker, dropped, phase, now>>

\* The UPDATE or its commit raises and nothing is written.  When it was the
\* call that fails a shop job, its thread ends with it.
TransitionError(call) ==
    /\ call \in inflight
    /\ inflight' = inflight \ {call}
    /\ dropped' = IF call.job \in Shop /\ call.target = "failed"
                  THEN dropped \union {call.job} ELSE dropped
    /\ UNCHANGED <<rows, files, worker, phase, now>>

(***************************************************************************)
(* The shop worker.  The adapter either raises or returns a result, which  *)
(* _persist_result writes to a temporary file of its own.                  *)
(***************************************************************************)
WorkerRaise(j) ==
    /\ worker[j] = "collecting"
    /\ worker' = [worker EXCEPT ![j] = "raised"]
    /\ UNCHANGED <<rows, files, dropped, inflight, phase, now>>

PersistResult(j) ==
    /\ worker[j] = "collecting"
    /\ worker' = [worker EXCEPT ![j] = "prepared"]
    /\ temp'   = temp \union {j}
    /\ UNCHANGED <<rows, final, bound, dropped, inflight, phase, now>>

\* The transaction of finalize_running_with_artifact up to its commit: the
\* guarded UPDATE and the job_artifacts row.
FinalizeRow(j, t, e) ==
    /\ state'     = [state EXCEPT ![j] = t]
    /\ lease'     = [lease EXCEPT ![j] = NoLease]
    /\ completed' = IF t \in Terminal THEN completed \union {j} ELSE completed
    /\ error'     = [error EXCEPT ![j] = e]
    /\ bound'     = bound \union {j}
    /\ UNCHANGED retries

\* temp_absolute.replace(final_absolute), inside that transaction.
Rename(j) == /\ temp'  = temp \ {j}
             /\ final' = final \union {j}

FinalStates == {<<"succeeded", "none">>, <<"failed", "shop_failed">>,
                <<"needs_human", "reported">>}

\* Mutant of FinalizeLost: the loser deletes its temporary file.
FinalizeLostDeletes(j) ==
    /\ worker[j] = "prepared"
    /\ j \notin final
    /\ state[j] # "running"
    /\ worker' = [worker EXCEPT ![j] = "none"]
    /\ temp'   = temp \ {j}
    /\ UNCHANGED <<rows, final, bound, dropped, inflight, phase, now>>

\* The guarded UPDATE finds another state: None is returned, the bytes stay.
FinalizeLost(j) ==
    /\ worker[j] = "prepared"
    /\ j \notin final
    /\ state[j] # "running"
    /\ worker' = [worker EXCEPT ![j] = "none"]
    /\ UNCHANGED <<rows, files, dropped, inflight, phase, now>>

\* The commit is acknowledged, or takes effect and its acknowledgement is
\* lost, which raises in the worker.
FinalizeCommit(j, t, e) ==
    /\ worker[j] = "prepared"
    /\ j \notin final
    /\ state[j] = "running"
    /\ Rename(j)
    /\ FinalizeRow(j, t, e)
    /\ \E w \in {"none", "raised"} : worker' = [worker EXCEPT ![j] = w]
    /\ UNCHANGED <<dropped, inflight, phase, now>>

\* The rename happens and the commit does not: it fails, or the process
\* dies between the two.
FinalizeRollback(j) ==
    /\ worker[j] = "prepared"
    /\ j \notin final
    /\ state[j] = "running"
    /\ Rename(j)
    /\ worker' = [worker EXCEPT ![j] = "raised"]
    /\ UNCHANGED <<rows, bound, dropped, inflight, phase, now>>

(***************************************************************************)
(* The process dies: what it holds in memory is gone.                      *)
(***************************************************************************)
Crash ==
    /\ phase # "down"
    /\ phase' = "down"
    /\ worker' = [j \in Jobs |-> "none"]
    /\ dropped' = {}
    /\ inflight' = {}
    /\ UNCHANGED <<rows, files, now>>

\* Mutant of HandOver: recovery writes a state JobState does not have.
HandOverInterrupted(S, e) ==
    /\ state' = [j \in Jobs |-> IF j \in S THEN "interrupted" ELSE state[j]]
    /\ lease' = [j \in Jobs |-> IF j \in S THEN NoLease ELSE lease[j]]
    /\ error' = [j \in Jobs |-> IF j \in S THEN e[j] ELSE error[j]]
    /\ UNCHANGED <<completed, retries>>

\* What both recoveries write, in one commit, on the jobs S they select.
HandOver(S, e) ==
    /\ state' = [j \in Jobs |-> IF j \in S THEN "needs_human" ELSE state[j]]
    /\ lease' = [j \in Jobs |-> IF j \in S THEN NoLease ELSE lease[j]]
    /\ error' = [j \in Jobs |-> IF j \in S THEN e[j] ELSE error[j]]
    /\ UNCHANGED <<completed, retries>>

\* Mutant of ExpiredError: the worker job types are not passed.
ExpiredErrorGeneric(j) == "worker_interrupted"

\* The error category an expired lease leaves on a job.
ExpiredError(j) ==
    IF j \in Shop THEN "worker_restart_required" ELSE "worker_interrupted"

\* create_app, the call of recover_expired_running.
RecoverExpiredRunning ==
    /\ phase = "down"
    /\ phase' = "shops"
    /\ HandOver({j \in Jobs : state[j] = "running" /\ lease[j] < now},
                [j \in Jobs |-> ExpiredError(j)])
    /\ UNCHANGED <<files, worker, dropped, inflight, now>>

\* Mutant of Interrupted: only running jobs are taken over.
InterruptedRunning(j) == state[j] = "running"

\* The jobs recover_interrupted_workers selects.
Interrupted(j) == state[j] \in {"queued", "running"}

\* create_app, the constructor of ShopCollectionService.  No shop job can be
\* running without a worker afterwards.
RecoverInterruptedWorkers ==
    /\ phase = "shops"
    /\ phase' = "up"
    /\ HandOver({j \in Shop : Interrupted(j)},
                [j \in Jobs |-> "worker_restart_required"])
    /\ UNCHANGED <<files, worker, dropped, inflight, now>>

Tick == /\ now < MaxNow
        /\ now' = now + 1
        /\ UNCHANGED <<rows, files, worker, dropped, inflight, phase>>

(***************************************************************************)
(* Specification                                                           *)
(***************************************************************************)
Request(j) ==
    \/ Create(j)
    \/ ExternalClaim(j)
    \/ \E t \in States, e \in {"unset", "reported", "operator_cancelled"} :
          RequestTransition(j, t, e)

Worker(j) ==
    \/ WorkerClaim(j)
    \/ ScheduleClaim(j)
    \/ WorkerRaise(j)
    \/ WorkerFail(j)
    \/ ScheduleFail(j)
    \/ ThreadDies(j)
    \/ PersistResult(j)
    \/ FinalizeLost(j)
    \/ \E f \in FinalStates : FinalizeCommit(j, f[1], f[2])
    \/ FinalizeRollback(j)

Restart == RecoverExpiredRunning \/ RecoverInterruptedWorkers

Next ==
    \/ \E j \in Jobs : Request(j) \/ Worker(j)
    \/ \E call \in inflight : TransitionWrite(call) \/ TransitionError(call)
    \/ Crash
    \/ Restart
    \/ Tick

Spec == Init /\ [][Next]_vars

-----------------------------------------------------------------------------
(***************************************************************************)
(* Properties                                                              *)
(***************************************************************************)

\* Every variable keeps its type, whatever calls are in progress.
TypeOK ==
    /\ state     \in [Jobs -> States \union {"absent"}]
    /\ lease     \in [Jobs -> Nat \union {NoLease}]
    /\ completed \subseteq Jobs
    /\ error     \in [Jobs -> Errors]
    /\ retries   \in [Jobs -> Nat]
    /\ temp      \subseteq Shop
    /\ final     \subseteq Shop
    /\ bound     \subseteq Shop
    /\ worker    \in [Jobs -> WorkerStates]
    /\ dropped   \subseteq Shop
    /\ inflight  \subseteq Calls
    /\ phase     \in {"up", "down", "shops"}
    /\ now       \in Nat

\* lease_expires_at is set exactly on running jobs and completed_at exactly on
\* finished ones, although claim(), transition(), finalisation and the two
\* recoveries each write these columns for themselves: recovery selects by
\* lease, so a running row without one would never be recovered.
ColumnsFollowState ==
    \A j \in Jobs : /\ (lease[j] # NoLease) <=> (state[j] = "running")
                    /\ (j \in completed) <=> (state[j] \in Terminal)

\* A shop job is successful only with its result.json in place and bound to it
\* by a job_artifacts row: neither a request nor a late transition() can make
\* it so, and no crash leaves the success without the file.
ShopSuccessIsEvidenced ==
    \A j \in Shop : state[j] = "succeeded" => j \in bound \intersect final

\* A restart is reported on a shop job as worker_restart_required, never as the
\* generic expired lease: recover_expired_running runs before the recovery of
\* the shop worker and takes the job out of that recovery's reach.
ShopRestartLabelled ==
    \A j \in Shop \ bound :
        state[j] = "needs_human" => error[j] = "worker_restart_required"

\* While the process serves, every unfinished shop job is in the hands of a
\* thread: its worker, the request that could not schedule it, or the
\* transition() that is about to fail it.  The exception is the job whose thread
\* this process has lost to a database error, which no code of the process looks
\* for; the next start takes that job too.
NoStrandedShopJob ==
    \A j \in Shop \ dropped :
        phase = "up" /\ state[j] \in {"queued", "running"} =>
            \/ worker[j] # "none"
            \/ \E call \in inflight : call.job = j /\ call.target = "failed"

\* The bytes of a shop result are never lost, whoever wins the race for the
\* job, and a bound result is never unbound or left without its file.
EvidenceKept ==
    [][/\ temp \union final \subseteq temp' \union final'
       /\ bound \subseteq bound'
       /\ bound' \subseteq final']_vars

\* The job table implements its life cycle: no interleaving of reads, guarded
\* UPDATEs, crashes and recoveries commits an edge that is not permitted, other
\* than the hand-over of unfinished jobs at a restart.
ImplementsLifecycle == L!Spec
=============================================================================
