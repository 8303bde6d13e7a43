------------------------------ MODULE MediaRuns ------------------------------
(***************************************************************************)
(* Image generation and visual analysis of content items: the durable      *)
(* content_media_runs rows (features/media/store.py), the execution of a   *)
(* run (features/media/service.py), the one worker thread with its queue   *)
(* and shutdown fence (features/media/worker.py), and what a restart of    *)
(* the process does to them (main.py).                                     *)
(*                                                                         *)
(* Every run has a reserved job; both rows are written by one transaction, *)
(* guarded by what its caller read before.  The worker thread, close(),    *)
(* submissions and a crash interleave at every such step.  A generated     *)
(* image is a file that a cleanup row is reserved for before it is         *)
(* written; the transaction that binds the file cancels the reservation.   *)
(***************************************************************************)
EXTENDS Integers

CONSTANTS Runs,        \* identities of runs, each with its reserved job
          Generations, \* the runs of capability "generate"; the rest "analyze"
          Entry,       \* content item, revision and plan entry of a run
          None,        \* no run
          LeaseTicks,  \* length of a lease, in ticks of the clock
          MaxNow       \* bound on the clock

ASSUME RunsAssumption   == Generations \subseteq Runs /\ None \notin Runs
ASSUME MBoundAssumption == LeaseTicks \in Nat /\ MaxNow \in Nat

VARIABLES
    status,    \* content_media_runs.status, "absent" before the row exists
    version,   \* content_media_runs.state_version
    job,       \* jobs.state of the reserved job
    lease,     \* jobs.lease_expires_at, NoLease for NULL
    calls,     \* how often the provider was called for the run
    output,    \* runs whose result is bound: the material with its provenance
               \* row, or the visual_assessment row
    file,      \* generations whose image file exists
    cleanup,   \* state of the cleanup row reserved for that file
    queue,     \* the worker's queue
    pc,        \* where the worker thread is
    cur,       \* the run it has taken from the queue
    seen,      \* the state_version of the run the thread works on
    submitting,\* the submission between its two commits, which holds the lock
    closing,   \* the runs close() has yet to cancel
    closer,    \* the cancellation close() is in the middle of
    phase,     \* of the process
    now        \* the clock

table   == <<status, version, job, lease>>
results == <<output, file, cleanup>>
thread  == <<pc, cur, seen>>
fence   == <<closing, closer>>
vars    == <<table, results, calls, queue, thread, submitting, fence, phase, now>>

NoLease  == -1
Statuses == {"absent", "queued", "running", "needs_human", "succeeded",
             "failed", "cancelled"}
Open     == {"queued", "running"}
Cleanups == {"none", "pending", "due", "cancelled", "claimed"}
Places   == {"off", "idle", "taken", "active", "claim", "claimed",
             "facts_before", "call", "provider", "returned", "facts_after", "reserve", "write",
             "commit", "assess", "make_due", "fail", "cancel", "done",
             "stopped"}
NoCancel == [run |-> None, version |-> 0]

Init ==
    /\ status     = [r \in Runs |-> "absent"]
    /\ version    = [r \in Runs |-> 0]
    /\ job        = [r \in Runs |-> "absent"]
    /\ lease      = [r \in Runs |-> NoLease]
    /\ calls      = [r \in Runs |-> 0]
    /\ output     = {}
    /\ file       = {}
    /\ cleanup    = [r \in Runs |-> "none"]
    /\ queue      = {}
    /\ pc         = "idle"
    /\ cur        = None
    /\ seen       = 0
    /\ submitting = None
    /\ closing    = {}
    /\ closer     = NoCancel
    /\ phase      = "up"
    /\ now        = 0

(***************************************************************************)
(* The guarded transaction of the store: both rows move, or none does.     *)
(***************************************************************************)
\* Mutant of JobAfter: the job row is matched as running, whatever was read.
JobAfterRunning(r, t) == IF job[r] = "running" \/ t = "running" THEN t ELSE job[r]

\* The state the reserved job takes with the run.
JobAfter(r, t) == t

Move(r, t) ==
    /\ status'  = [status  EXCEPT ![r] = t]
    /\ version' = [version EXCEPT ![r] = @ + 1]
    /\ job'     = [job     EXCEPT ![r] = JobAfter(r, t)]
    /\ lease'   = [lease   EXCEPT ![r] =
                     IF t = "running" THEN now + LeaseTicks ELSE NoLease]

\* Both UPDATEs match a row.
Wins(r, v, from) == status[r] \in from /\ version[r] = v /\ job[r] = status[r]

\* A loser raises MediaRunConflict, which every caller here swallows.
Cas(r, v, from, t) == IF Wins(r, v, from) THEN Move(r, t) ELSE UNCHANGED table

(***************************************************************************)
(* Submission, under the worker's lock: the job, then the run, which the   *)
(* unique index refuses while the plan entry has an open generation.       *)
(***************************************************************************)
Submit(r) ==
    /\ phase = "up"
    /\ submitting = None
    /\ job[r] = "absent"
    /\ job' = [job EXCEPT ![r] = "queued"]
    /\ submitting' = r
    /\ UNCHANGED <<status, version, lease, results, calls, queue, thread, fence,
                   phase, now>>

Conflicts(r) == \E s \in Generations :
                   s # r /\ Entry[s] = Entry[r] /\ status[s] \in Open

CreateRun(r) ==
    /\ submitting = r
    /\ submitting' = None
    /\ IF r \in Generations /\ Conflicts(r)
       THEN /\ job' = [job EXCEPT ![r] = "cancelled"]
            /\ UNCHANGED <<status, queue>>
       ELSE /\ status' = [status EXCEPT ![r] = "queued"]
            /\ queue'  = queue \union {r}
            /\ UNCHANGED job
    /\ UNCHANGED <<version, lease, results, calls, thread, fence, phase, now>>

(***************************************************************************)
(* The worker thread                                                       *)
(***************************************************************************)
Goto(p)      == pc' = p /\ UNCHANGED <<cur, seen>>
ThreadOnly   == UNCHANGED <<table, results, calls, queue, submitting, fence,
                            phase, now>>
StoreOnly    == UNCHANGED <<results, calls, queue, submitting, fence, phase, now>>
Accepting    == phase = "up"
LockFree     == submitting = None

Take(r) ==
    /\ pc = "idle"
    /\ r \in queue
    /\ queue' = queue \ {r}
    /\ pc'  = "taken"
    /\ cur' = r
    /\ UNCHANGED <<seen, table, results, calls, submitting, fence, phase, now>>

Leave ==
    /\ pc = "idle"
    /\ ~Accepting
    /\ Goto("stopped")
    /\ ThreadOnly

\* _active_run_id = run_id
SetActive ==
    /\ pc = "taken"
    /\ LockFree
    /\ Goto("active")
    /\ ThreadOnly

\* Mutant of NotAdmitted: the run is dropped without cancelling it.
NotAdmittedDrops == Goto("done")

\* cancel_run() of a run that was taken too late: the read.
NotAdmitted ==
    IF status[cur] \in Open
    THEN pc' = "cancel" /\ seen' = version[cur] /\ UNCHANGED cur
    ELSE Goto("done")

\* The admission check of _run, then the read of _claim_for_execution.
Admit ==
    /\ pc = "active"
    /\ LockFree
    /\ IF ~Accepting THEN NotAdmitted
       ELSE IF status[cur] = "queued"
            THEN pc' = "claim" /\ seen' = version[cur] /\ UNCHANGED cur
            ELSE Goto("done")
    /\ ThreadOnly

Claim ==
    /\ pc = "claim"
    /\ Cas(cur, seen, {"queued"}, "running")
    /\ IF Wins(cur, seen, {"queued"})
       THEN pc' = "claimed" /\ seen' = seen + 1 /\ UNCHANGED cur
       ELSE Goto("done")
    /\ StoreOnly

\* _require_execution_admission, before the first facts and after the call.
CheckAdmission(from, next) ==
    /\ pc = from
    /\ LockFree
    /\ Goto(IF Accepting THEN next ELSE "cancel")
    /\ ThreadOnly

\* A step of run_generation or run_analysis that may raise: the facts are read
\* again and no longer match the digest of the run, or the provider fails.
Attempt(from, next) ==
    /\ pc = from
    /\ \E p \in {next, "fail"} : Goto(p)
    /\ ThreadOnly

\* The call leaves for the provider.
CallProvider ==
    /\ pc = "call"
    /\ calls' = [calls EXCEPT ![cur] = @ + 1]
    /\ Goto("provider")
    /\ UNCHANGED <<table, results, queue, submitting, fence, phase, now>>

Provided == IF cur \in Generations THEN "reserve" ELSE "assess"

\* Mutant of Reserve: the reservation is not committed before the write.
ReserveLater ==
    /\ pc = "reserve"
    /\ Goto("write")
    /\ ThreadOnly

\* _persist_generated_image: the cleanup reservation, committed first ...
Reserve ==
    /\ pc = "reserve"
    /\ cleanup' = [cleanup EXCEPT ![cur] = "pending"]
    /\ Goto("write")
    /\ UNCHANGED <<table, output, file, calls, queue, submitting, fence, phase, now>>

\* ... then the file; when the write raises, the bytes may be there ...
Write ==
    /\ pc = "write"
    /\ \/ file' = file \union {cur} /\ Goto("commit")
       \/ file' \in {file, file \union {cur}} /\ Goto("make_due")
    /\ UNCHANGED <<table, output, cleanup, calls, queue, submitting, fence, phase, now>>

\* Mutant of Persistable: the run is looked up, not matched.
PersistableByKey == cleanup[cur] = "pending"

\* What the transaction of _persist_generated_image insists on.
Persistable == Wins(cur, seen, {"running"}) /\ cleanup[cur] = "pending"

\* Mutant of Reservation: the reservation is left to expire.
ReservationKept == cleanup

\* cancel_in_session
Reservation == [cleanup EXCEPT ![cur] = "cancelled"]

\* ... then the transaction that binds it.  When its acknowledgement is lost,
\* _prove_generated_commit reads the rows back, and that read may raise.
Commit ==
    /\ pc = "commit"
    /\ Persistable
    /\ Move(cur, "succeeded")
    /\ output'  = output \union {cur}
    /\ cleanup' = Reservation
    /\ \E p \in {"done", "fail"} : Goto(p)
    /\ UNCHANGED <<file, calls, queue, submitting, fence, phase, now>>

\* The run was cancelled meanwhile, the material limit is exceeded, or the
\* commit does not take effect.
CommitFails ==
    /\ pc = "commit"
    /\ Goto("make_due")
    /\ ThreadOnly

MakeDue ==
    /\ pc = "make_due"
    /\ cleanup' = [cleanup EXCEPT ![cur] = IF @ = "pending" THEN "due" ELSE @]
    /\ Goto("fail")
    /\ UNCHANGED <<table, output, file, calls, queue, submitting, fence, phase, now>>

\* _persist_analysis
Assess ==
    /\ pc = "assess"
    /\ \/ /\ Wins(cur, seen, {"running"})
          /\ Move(cur, "succeeded")
          /\ output' = output \union {cur}
          /\ Goto("done")
       \/ /\ UNCHANGED <<table, output>>
          /\ Goto("fail")
    /\ UNCHANGED <<file, cleanup, calls, queue, submitting, fence, phase, now>>

\* _record_failure
RecordFailure ==
    /\ pc = "fail"
    /\ Cas(cur, seen, {"running"}, "failed")
    /\ Goto("done")
    /\ StoreOnly

\* The write of cancel_run, and _cancel_claimed_run.
CancelCurrent ==
    /\ pc = "cancel"
    /\ Cas(cur, seen, Open, "cancelled")
    /\ Goto("done")
    /\ StoreOnly

\* The finally of _run.
Done ==
    /\ pc = "done"
    /\ LockFree
    /\ pc'  = "idle"
    /\ cur' = None
    /\ UNCHANGED seen
    /\ ThreadOnly

(***************************************************************************)
(* close(): the fence, under the lock, then one cancel_run() after another *)
(***************************************************************************)
ActiveRun == IF pc \in {"off", "idle", "taken", "stopped"} THEN {} ELSE {cur}

BeginClose ==
    /\ phase = "up"
    /\ LockFree
    /\ phase'   = "closing"
    /\ closing' = queue \union ActiveRun
    /\ queue'   = {}
    /\ UNCHANGED <<table, results, calls, thread, submitting, closer, now>>

CloseRead(r) ==
    /\ closer = NoCancel
    /\ r \in closing
    /\ closing' = closing \ {r}
    /\ closer'  = IF status[r] \in Open
                  THEN [run |-> r, version |-> version[r]]
                  ELSE NoCancel
    /\ UNCHANGED <<table, results, calls, queue, thread, submitting, phase, now>>

CloseWrite ==
    /\ closer # NoCancel
    /\ Cas(closer.run, closer.version, Open, "cancelled")
    /\ closer' = NoCancel
    /\ UNCHANGED <<results, calls, queue, thread, submitting, closing, phase, now>>

\* The process ends, by a crash or after close(), which waits for the thread
\* for a quarter of a second only.
Stop ==
    /\ phase # "down"
    /\ phase'      = "down"
    /\ pc'         = "off"
    /\ cur'        = None
    /\ seen'       = 0
    /\ queue'      = {}
    /\ submitting' = None
    /\ closing'    = {}
    /\ closer'     = NoCancel
    /\ UNCHANGED <<table, results, calls, now>>

(***************************************************************************)
(* Start-up: recover_expired_running in create_app, then start() in the    *)
(* lifespan, before the first request.                                     *)
(***************************************************************************)
RecoverExpiredRunning ==
    LET Expired == {r \in Runs : job[r] = "running" /\ lease[r] < now}
    IN  /\ phase = "down"
        /\ phase' = "starting"
        /\ job'   = [r \in Runs |-> IF r \in Expired THEN "needs_human" ELSE job[r]]
        /\ lease' = [r \in Runs |-> IF r \in Expired THEN NoLease ELSE lease[r]]
        /\ UNCHANGED <<status, version, results, calls, queue, thread, submitting,
                       fence, now>>

\* Mutant of Recoverable: list_recoverable(), which goes by the lease.
RecoverableExpired == {r \in Runs : \/ status[r] = "queued"
                                    \/ status[r] = "running" /\ lease[r] < now}

\* list_startup_recoverable
Recoverable == {r \in Runs : status[r] \in Open}

\* Mutant of Interrupted: an interrupted run is tried again.
InterruptedAgain == "queued"

\* The status _mark_interrupted asks for.
Interrupted == "needs_human"

Start ==
    LET Lost == {r \in Recoverable : status[r] = "running" /\ job[r] = "running"}
    IN  /\ phase = "starting"
        /\ phase'   = "up"
        /\ pc'      = "idle"
        /\ queue'   = {r \in Recoverable : status[r] = "queued"}
        /\ status'  = [r \in Runs |-> IF r \in Lost THEN Interrupted ELSE status[r]]
        /\ version' = [r \in Runs |-> IF r \in Lost THEN version[r] + 1 ELSE version[r]]
        /\ job'     = [r \in Runs |-> IF r \in Lost THEN Interrupted ELSE job[r]]
        /\ lease'   = [r \in Runs |-> IF r \in Lost THEN NoLease ELSE lease[r]]
        /\ UNCHANGED <<results, calls, cur, seen, submitting, fence, now>>

(***************************************************************************)
(* The cleanup worker claims a reservation that is due and moves the file  *)
(* away, or leaves it to a person.  A reservation becomes due by itself a  *)
(* day after it was made: the three steps that follow it in the thread are *)
(* taken to be faster than that.                                           *)
(***************************************************************************)
Persisting == pc \in {"write", "commit", "make_due"}

CleanUp(r) ==
    /\ phase \in {"up", "closing"}
    /\ \/ cleanup[r] = "due"
       \/ cleanup[r] = "pending" /\ ~(Persisting /\ cur = r)
    /\ cleanup' = [cleanup EXCEPT ![r] = "claimed"]
    /\ \/ file' = file \ {r}
       \/ UNCHANGED file
    /\ UNCHANGED <<table, output, calls, queue, thread, submitting, fence, phase, now>>

Tick ==
    /\ now < MaxNow
    /\ now' = now + 1
    /\ UNCHANGED <<table, results, calls, queue, thread, submitting, fence, phase>>

(***************************************************************************)
(* Specification                                                           *)
(***************************************************************************)
Execute ==
    \/ CheckAdmission("claimed", "facts_before")
    \/ Attempt("facts_before", "call")
    \/ CallProvider
    \/ Attempt("provider", "returned")
    \/ CheckAdmission("returned", "facts_after")
    \/ Attempt("facts_after", Provided)
    \/ Reserve \/ Write \/ Commit \/ CommitFails \/ MakeDue
    \/ Assess
    \/ RecordFailure
    \/ CancelCurrent

Thread ==
    \/ \E r \in Runs : Take(r)
    \/ SetActive \/ Admit \/ Claim \/ Execute \/ Done
    \/ Leave

Close == (\E r \in Runs : CloseRead(r)) \/ CloseWrite

Restart == RecoverExpiredRunning \/ Start

Next ==
    \/ \E r \in Runs : Submit(r) \/ CreateRun(r) \/ CleanUp(r)
    \/ Thread
    \/ BeginClose \/ Close
    \/ Stop
    \/ Restart
    \/ Tick

Spec == Init /\ [][Next]_vars

\* The worker thread runs, the HTTP client's timeouts end every provider call,
\* a submission that holds the lock goes on, and so do close() and create_app.
FairSpec ==
    /\ Spec
    /\ WF_vars(Thread)
    /\ WF_vars(\E r \in Runs : CreateRun(r))
    /\ WF_vars(Close)
    /\ WF_vars(Restart)
-----------------------------------------------------------------------------
(***************************************************************************)
(* Properties                                                              *)
(***************************************************************************)

\* Every variable keeps its type.
TypeOK ==
    /\ status     \in [Runs -> Statuses]
    /\ version    \in [Runs -> Nat]
    /\ job        \in [Runs -> Statuses]
    /\ lease      \in [Runs -> Nat \union {NoLease}]
    /\ calls      \in [Runs -> Nat]
    /\ output     \subseteq Runs
    /\ file       \subseteq Generations
    /\ cleanup    \in [Runs -> Cleanups]
    /\ queue      \subseteq Runs
    /\ pc         \in Places
    /\ cur        \in Runs \union {None}
    /\ seen       \in Nat
    /\ submitting \in Runs \union {None}
    /\ closing    \subseteq Runs
    /\ closer     \in [run : Runs, version : Nat] \union {NoCancel}
    /\ phase      \in {"up", "closing", "down", "starting"}
    /\ now        \in Nat

\* The lease of an interrupted run expired before the restart: create_app took
\* its job before the worker's own recovery looked at the run.
Overtaken(r) == status[r] = "running" /\ job[r] = "needs_human"

\* The variables keep their types, and a run and its reserved job tell the same
\* story, whoever wrote them last: worker, close() or recovery.
RunAndJobAgree ==
    /\ TypeOK
    /\ \A r \in Runs : status[r] # "absent" => job[r] = status[r] \/ Overtaken(r)

\* The provider, which is paid by the call, is called at most once for a run,
\* across every crash and restart.
CalledAtMostOnce == \A r \in Runs : calls[r] <= 1

\* A generation is successful exactly when its result is bound, its bytes are
\* there, and the reservation that would have removed them is cancelled.
SuccessIsWhole ==
    \A r \in Generations :
        /\ (status[r] = "succeeded") <=> (r \in output)
        /\ r \in output => r \in file /\ cleanup[r] = "cancelled"

\* Bytes no result is bound to are in the hands of the cleanup worker, whether
\* the thread failed, lost its run to close(), or died between two commits.
LooseBytesAreReserved ==
    \A r \in file \ output : cleanup[r] \in {"pending", "due", "claimed"}

\* While the process serves, every open run waits in the queue or is in the
\* hands of the thread; those the lease overtook are the exception.
NoRunIsForgotten ==
    \A r \in Runs : phase = "up" /\ status[r] \in Open =>
                        r \in queue \/ cur = r \/ Overtaken(r)

\* After close() has gone through its runs and the thread has left its loop, no
\* run is open: the claim, the fence and the cancellations of both sides meet
\* in every order.
ShutdownSettles ==
    phase = "closing" /\ closing = {} /\ closer = NoCancel /\ pc = "stopped" =>
        \A r \in Runs : status[r] \in Open => Overtaken(r)

\* What close(), a failure or the thread has decided about a run stays decided:
\* a provider result that arrives late changes nothing.
DecisionsAreFinal ==
    [][\A r \in Runs : status[r] \notin Open \union {"absent"} =>
           status'[r] = status[r] /\ (r \in output <=> r \in output')]_vars

\* Once the process stays up, every open run is decided or handed to a person.
EveryRunSettles ==
    <>[](phase = "up") =>
        \A r \in Runs : status[r] \in Open ~> status[r] \notin Open \/ Overtaken(r)

\* "Every pre-existing running run is moved fail-closed to needs_human" when
\* the worker starts (task-4-report.md:67).  A run whose lease expired while
\* the process was down is not.
RestartSettlesRunning ==
    \A r \in Runs : phase = "up" /\ status[r] = "running" => cur = r
=============================================================================
