-------------------------- MODULE AccountCollection --------------------------
(***************************************************************************)
(* The collection of accounts and searches (features/xhs/service.py) and   *)
(* the private file store it publishes through (features/xhs/              *)
(* staging_cleanup.py).  A collected result is written to a stage file,    *)
(* renamed to its final name and bound to its job, and a journal row that  *)
(* names its owner and carries a five-minute lease says at every moment    *)
(* how far that has come.  A process that starts resolves the rows its     *)
(* predecessors left, but only those whose lease has lapsed: the database  *)
(* may be shared with a process that still runs.                           *)
(*                                                                         *)
(* A database step may fail before or after its commit lands, a file may   *)
(* refuse to be deleted (on POSIX it always does), an operator may cancel, *)
(* close() may come at any time and so may the end of a process.           *)
(***************************************************************************)
EXTENDS Naturals, Sequences, FiniteSets

CONSTANTS Job,       \* the collections requested
          MaxStarts, \* processes that are started, one after the other
          MaxAtOnce, \* processes that run at the same time
          MaxFaults  \* database and file errors

ASSUME BoundsAssumption == MaxStarts \in Nat \ {0} /\ MaxAtOnce \in Nat /\ MaxFaults \in Nat

Process == 1..MaxStarts
Nobody  == 0

VARIABLES
    jobs,     \* jobs.state
    journal,  \* the row of xhs_artifact_promotion_journal of a job
    artifact, \* jobs with a row in job_artifacts
    facts,    \* jobs whose profile and notes are in the fact tables
    stage,    \* jobs with a file in evidence/xhs/.staging
    final,    \* jobs with a file in evidence/xhs
    phase,    \* of each process
    admitted, \* the process that reserves a job, and how far it has come
    queue,    \* of the serial worker of each process
    task,     \* what the worker, or before it the startup, is doing
    todo,     \* jobs the startup pass, or close(), has still to look at
    doomed,   \* the job state close() has read and is about to cancel
    earlier,  \* processes that were dead when a process started
    dropped,  \* history: jobs an error has taken from whoever was to end them
    faults    \* errors so far

rows  == <<jobs, journal, artifact, facts>>
files == <<stage, final>>
procs == <<phase, admitted, queue, task, todo, doomed, earlier, dropped>>
vars  == <<rows, files, procs, faults>>

Active     == {"queued", "running"}
JobStates  == Active \union {"absent", "succeeded", "failed", "needs_human",
                             "cancelled"}
Targets    == {"succeeded", "failed", "needs_human"}
Unresolved == {"allocating", "prepared", "promoted"}
NoRow      == [state |-> "none", resolution |-> "none", owner |-> Nobody,
               live |-> FALSE, target |-> "none", known |-> FALSE]
Idle       == [at |-> "idle", job |-> "none", target |-> "none"]
Recovering == {"pass1", "recover", "pass2"}
Working    == {"taken", "claimed", "collect", "allocate", "create", "prepare",
               "authorize", "promote", "record", "commit", "resolve", "settle", "mark"}
Inspecting == {"read", "look", "interrupted", "verify"}

Init ==
    /\ jobs     = [j \in Job |-> "absent"]
    /\ journal  = [j \in Job |-> NoRow]
    /\ artifact = {} /\ facts = {} /\ stage = {} /\ final = {}
    /\ phase    = [p \in Process |-> IF p = 1 THEN "up" ELSE "unborn"]
    /\ admitted = [j \in Job |-> [by |-> Nobody, at |-> "none"]]
    /\ queue    = [p \in Process |-> << >>]
    /\ task     = [p \in Process |-> Idle]
    /\ todo     = [p \in Process |-> {}]
    /\ doomed   = [p \in Process |-> <<>>]
    /\ earlier  = [p \in Process |-> {}]
    /\ dropped  = {}
    /\ faults   = 0

Accepting(p) == phase[p] = "up"
Alive(p)     == phase[p] \notin {"unborn", "dead"}
Closing(p)   == phase[p] \in {"fenced", "draining", "waiting"}
At(p, place) == task[p].at = place /\ Alive(p)
J(p)         == task[p].job
Fault        == faults < MaxFaults /\ faults' = faults + 1
NoFault      == UNCHANGED faults
Drop(j)      == Fault /\ dropped' = dropped \union {j}
NoDrop       == NoFault /\ UNCHANGED dropped

(***************************************************************************)
(* Rows of the journal                                                     *)
(***************************************************************************)
\* The trigger on jobs: a committed journal pins the state of its job.
Pinned(j) == journal[j].state = "completed" /\ journal[j].resolution = "committed"

Owns(p, j)  == journal[j].owner = p
\* Mutant of Closed: the lease of a closed row is kept.
ClosedKeepingLease(j, resolution) ==
    [journal EXCEPT ![j].state = "completed", ![j].resolution = resolution,
                    ![j].owner = Nobody]

Closed(j, resolution) ==
    [journal EXCEPT ![j].state = "completed", ![j].resolution = resolution,
                    ![j].owner = Nobody, ![j].live = FALSE]
Renewed(p, j, state) ==
    [journal EXCEPT ![j].state = state, ![j].owner = p, ![j].live = TRUE]

\* The WHERE clause of _claim_journal.
Claimable(p, j) ==
    \/ journal[j].owner \in {p, Nobody}
    \/ ~journal[j].live
    \/ journal[j].state = "allocating" /\ jobs[j] \notin Active

\* Ask for a person, unless the job has ended already.
Stopped(j)   == [jobs EXCEPT ![j] = IF @ \in Active THEN "needs_human" ELSE @]
Cancelled(j) == [jobs EXCEPT ![j] = IF @ \in Active THEN "cancelled" ELSE @]

\* Where a task goes on, and where it ends: a startup goes on with its pass.
Go(p, place) == task' = [task EXCEPT ![p].at = place]
Leave(p)     == task' = [task EXCEPT ![p] = Idle]
Apart        == UNCHANGED <<phase, admitted, queue, todo, doomed, earlier>>
WorkerOnly   == Apart /\ UNCHANGED dropped

\* _cancel_running: a read and a conditional update, whose errors nobody hears of.
CancelRunning(j) ==
    \/ jobs' = Cancelled(j) /\ NoDrop
    \/ UNCHANGED jobs /\ Drop(j)

(***************************************************************************)
(* The private file store: TrustedXhsArtifactStore                         *)
(***************************************************************************)
Create(j)     == stage' = stage \union {j} /\ UNCHANGED final
Promotable(j) == j \in stage /\ j \notin final
MoveToFinal(j) == stage' = stage \ {j} /\ final' = final \union {j}

\* A rename whose process died may have left either name: never both.
RecoverPromote(j) == Promotable(j) /\ MoveToFinal(j)

\* discard_stage and discard_owned_stage: where the platform cannot delete by
\* handle, nothing is deleted and the answer is no.
DiscardStage(j, deleted) ==
    /\ stage' = IF deleted THEN stage \ {j} ELSE stage
    /\ UNCHANGED final

\* Both names taken, a rename refused, or a file that cannot be deleted: not done.
DemoteAndDiscard(j, done) ==
    \/ j \in final /\ ~done /\ UNCHANGED files
    \/ /\ j \in final /\ j \notin stage
       /\ final' = final \ {j}
       /\ stage' = IF done THEN stage ELSE stage \union {j}
    \/ j \notin final /\ (done \/ j \in stage) /\ DiscardStage(j, done)

(***************************************************************************)
(* Admission: _submit                                                      *)
(***************************************************************************)
AdmissionOnly == UNCHANGED <<journal, artifact, facts, files, phase, task, todo,
                             doomed, earlier>>

Admit(p, j) ==
    /\ Accepting(p)
    /\ admitted[j].at = "none"
    /\ admitted' = [admitted EXCEPT ![j] = [by |-> p, at |-> "admitted"]]
    /\ UNCHANGED <<jobs, queue>> /\ NoDrop /\ AdmissionOnly

Admission(p, j, place) ==
    Alive(p) /\ admitted[j] = [by |-> p, at |-> place]

\* An error of the creation ends the request; the row may have been committed.
CreateJob(p, j) ==
    /\ Admission(p, j, "admitted")
    /\ \/ /\ jobs' = [jobs EXCEPT ![j] = "queued"] /\ NoDrop
          /\ admitted' = [admitted EXCEPT ![j].at = "created"]
       \/ /\ jobs' \in {jobs, [jobs EXCEPT ![j] = "queued"]} /\ Drop(j)
          /\ admitted' = [admitted EXCEPT ![j].at = "ended"]
    /\ UNCHANGED queue /\ AdmissionOnly

\* The second look at the fence, after the job is in the table.
ConfirmAdmission(p, j) ==
    /\ Admission(p, j, "created")
    /\ \/ /\ Accepting(p) /\ UNCHANGED jobs /\ NoDrop
          /\ admitted' = [admitted EXCEPT ![j].at = "confirmed"]
       \/ /\ ~Accepting(p) /\ CancelRunning(j)
          /\ admitted' = [admitted EXCEPT ![j].at = "ended"]
    /\ UNCHANGED queue /\ AdmissionOnly

\* The worker's queue refuses once it is closed: _fail_scheduling then claims
\* the job and fails it, and swallows the exception when it cannot.
Enqueue(p, j) ==
    LET open      == phase[p] \notin {"waiting", "closed"}
        claimable == jobs[j] \in {"queued", "needs_human"}
    IN
    /\ Admission(p, j, "confirmed")
    /\ admitted' = [admitted EXCEPT ![j].at = "ended"]
    /\ \/ /\ open /\ queue' = [queue EXCEPT ![p] = Append(@, j)]
          /\ UNCHANGED jobs /\ NoDrop
       \/ /\ ~open /\ UNCHANGED queue /\ NoDrop
          /\ jobs' = IF claimable THEN [jobs EXCEPT ![j] = "failed"] ELSE jobs
       \/ /\ ~open /\ claimable /\ UNCHANGED queue /\ Drop(j)
          /\ jobs' \in {jobs, [jobs EXCEPT ![j] = "running"]}
    /\ AdmissionOnly

\* Mutant of OperatorCancel: no trigger pins the job of a committed row.
OperatorCancelUnpinned(j) ==
    /\ \E p \in Process : Accepting(p)
    /\ jobs[j] \in Active \union {"needs_human"}
    /\ jobs' = [jobs EXCEPT ![j] = "cancelled"]
    /\ UNCHANGED <<journal, artifact, facts, files, procs, faults>>

\* POST /jobs/{id}/transition of any process.  The trigger makes the update of a
\* pinned job an IntegrityError.
OperatorCancel(j) ==
    /\ \E p \in Process : Accepting(p)
    /\ jobs[j] \in Active \union {"needs_human"}
    /\ ~Pinned(j)
    /\ jobs' = [jobs EXCEPT ![j] = "cancelled"]
    /\ UNCHANGED <<journal, artifact, facts, files, procs, faults>>

(***************************************************************************)
(* The serial worker: execute                                              *)
(***************************************************************************)
Take(p) ==
    /\ At(p, "idle") /\ phase[p] \notin Recovering
    /\ queue[p] # << >>
    /\ queue' = [queue EXCEPT ![p] = Tail(@)]
    /\ task'  = [task EXCEPT ![p] = [Idle EXCEPT !.at = "taken", !.job = Head(queue[p])]]
    /\ UNCHANGED <<rows, files, phase, admitted, todo, doomed, earlier, dropped, faults>>

\* JobService.claim, which also takes a job that waits for a person.  An error
\* ends the task, and the claim may have been committed.
Claim(p) ==
    LET j       == J(p)
        able    == jobs[j] \in {"queued", "needs_human"} /\ ~Pinned(j)
        claimed == [jobs EXCEPT ![j] = "running"]
    IN
    /\ At(p, "taken")
    /\ \/ able /\ jobs' = claimed /\ Go(p, "claimed") /\ NoDrop
       \/ ~able /\ UNCHANGED jobs /\ Leave(p) /\ NoDrop
       \/ able /\ jobs' \in {jobs, claimed} /\ Leave(p) /\ Drop(j)
    /\ UNCHANGED <<journal, artifact, facts, files>> /\ Apart

\* Mutant of CheckShutdown: the fence is not looked at after the claim.
CheckNoShutdown(p) ==
    /\ At(p, "claimed")
    /\ Go(p, "collect") /\ UNCHANGED jobs
    /\ UNCHANGED <<journal, artifact, facts, files, faults>> /\ WorkerOnly

CheckShutdown(p) ==
    /\ At(p, "claimed")
    /\ \/ Accepting(p) /\ Go(p, "collect") /\ UNCHANGED jobs /\ NoDrop
       \/ ~Accepting(p) /\ Leave(p) /\ CancelRunning(J(p))
    /\ UNCHANGED <<journal, artifact, facts, files>> /\ Apart

\* The state a result asks for: succeeded when it is exact (_is_exact).
FinalizeResult(p) ==
    \E t \in Targets : task' = [task EXCEPT ![p].at = "allocate", ![p].target = t]

\* An exception, an owner conflict or a result too large is staged as a failure.
FinalizeFailure(p) ==
    task' = [task EXCEPT ![p].at = "allocate", ![p].target = "failed"]

\* The adapter answers.  Nothing is staged for a job that has moved on, in a
\* process that shuts down, or when the job cannot be read.
Collect(p) ==
    LET wanted == Accepting(p) /\ jobs[J(p)] = "running" IN
    /\ At(p, "collect")
    /\ \/ wanted /\ (FinalizeResult(p) \/ FinalizeFailure(p)) /\ NoFault
       \/ ~wanted /\ Leave(p) /\ NoFault
       \/ Leave(p) /\ Fault
    /\ UNCHANGED <<rows, files>> /\ WorkerOnly

(***************************************************************************)
(* _stage_artifact: journal row, stage file, identity                      *)
(***************************************************************************)
Allocation(p) ==
    [journal EXCEPT ![J(p)] =
        [state |-> "allocating", resolution |-> "none", owner |-> p, live |-> TRUE,
         target |-> task[p].target, known |-> FALSE]]

\* _settle_initial_allocation_failure: when the acknowledgement of the insert has
\* failed, the row is closed if it is there and the job stopped, in one commit
\* that may fail as well.
SettleAllocation(p) ==
    \/ journal' \in {journal, Allocation(p)} /\ UNCHANGED jobs
    \/ UNCHANGED journal /\ jobs' = Stopped(J(p))
    \/ /\ journal' = [Allocation(p) EXCEPT ![J(p)] = [@ EXCEPT
              !.state = "completed", !.resolution = "rolled_back",
              !.owner = Nobody, !.live = FALSE]]
       /\ jobs' = Stopped(J(p))

\* A job has one journal row: the row of another finalizer is left alone.
Allocate(p) ==
    LET free == journal[J(p)] = NoRow IN
    /\ At(p, "allocate")
    /\ \/ ~free /\ Leave(p) /\ UNCHANGED <<jobs, journal>> /\ NoFault
       \/ free /\ journal' = Allocation(p) /\ Go(p, "create") /\ UNCHANGED jobs /\ NoFault
       \/ free /\ Fault /\ SettleAllocation(p) /\ Leave(p)
    /\ UNCHANGED <<artifact, facts, files>> /\ WorkerOnly

\* _complete_stage_creation_failure, which asks neither for the owner nor for
\* the lease.
StageFailed(j, deleted) ==
    /\ journal' = IF journal[j].state = "completed" THEN journal
                  ELSE Closed(j, IF deleted THEN "rolled_back" ELSE "inconsistent")
    /\ jobs' = Stopped(j)

\* create_stage of the store: a new name, written and synced under a handle that
\* is kept.  discard_owned_stage deletes by that handle, where it can.
CreateStage(p) ==
    LET j == J(p) IN
    /\ At(p, "create")
    /\ \/ Create(j) /\ Go(p, "prepare") /\ UNCHANGED <<jobs, journal>> /\ NoFault
       \/ /\ Fault /\ Leave(p)
          /\ \/ StageFailed(j, TRUE) /\ UNCHANGED files
             \/ /\ (StageFailed(j, FALSE) \/ UNCHANGED <<jobs, journal>>)
                /\ (Create(j) \/ UNCHANGED files)
    /\ UNCHANGED <<artifact, facts>> /\ WorkerOnly

\* _probe_prepared_journal_outcome: the update did not land, and the row is still
\* the allocation of this process or has been closed without a file.
PrepareRolledBack(p, j) ==
    \/ journal[j].state = "allocating" /\ Owns(p, j)
    \/ journal[j].state = "completed" /\ journal[j].resolution = "rolled_back"

\* The conditional update to prepared.  The stage of one that is rolled back is
\* discarded; an outcome that cannot be read leaves it to a later start.
Prepare(p) ==
    LET j == J(p)
        mine == journal[j].state = "allocating" /\ Owns(p, j) /\ journal[j].live
        prepared == [Renewed(p, j, "prepared") EXCEPT ![j].known = TRUE]
        Discard == \E deleted \in BOOLEAN :
                      /\ DiscardStage(j, deleted)
                      /\ \/ StageFailed(j, deleted) /\ NoFault
                         \/ UNCHANGED <<jobs, journal>> /\ Fault
    IN
    /\ At(p, "prepare")
    /\ \/ mine /\ journal' = prepared /\ Go(p, "authorize")
          /\ UNCHANGED <<jobs, files>> /\ NoFault
       \/ ~mine /\ PrepareRolledBack(p, j) /\ Discard /\ Leave(p)
       \/ /\ ~mine /\ ~PrepareRolledBack(p, j) /\ Leave(p)
          /\ UNCHANGED <<jobs, journal, files>> /\ NoFault
       \/ /\ mine /\ Fault /\ Leave(p)
          /\ \/ \E deleted \in BOOLEAN :
                   DiscardStage(j, deleted) /\ StageFailed(j, deleted)
             \/ journal' \in {journal, prepared} /\ UNCHANGED <<jobs, files>>
    /\ UNCHANGED <<artifact, facts>> /\ WorkerOnly

(***************************************************************************)
(* _commit_staged_artifact: rename, record, commit                         *)
(***************************************************************************)
\* The job must still run, and the lease is renewed.
Authorize(p) ==
    LET j == J(p) IN
    /\ At(p, "authorize")
    /\ \/ /\ jobs[j] = "running" /\ Owns(p, j)
          /\ journal' = Renewed(p, j, journal[j].state) /\ Go(p, "promote") /\ NoFault
       \/ ~(jobs[j] = "running" /\ Owns(p, j)) /\ Go(p, "resolve") /\ UNCHANGED journal /\ NoFault
       \/ Fault /\ Go(p, "resolve") /\ UNCHANGED journal
    /\ UNCHANGED <<jobs, artifact, facts, files>> /\ WorkerOnly

\* Under the lock that close() takes: fence, lease, rename without replacement.
Promote(p) ==
    LET j == J(p)
        able == Owns(p, j) /\ Promotable(j)
    IN
    /\ At(p, "promote")
    /\ \/ /\ ~Accepting(p) /\ CancelRunning(j) /\ Go(p, "resolve")
          /\ UNCHANGED <<journal, files>>
       \/ /\ Accepting(p) /\ able
          /\ journal' = Renewed(p, j, journal[j].state) /\ MoveToFinal(j)
          /\ Go(p, "record") /\ UNCHANGED jobs /\ NoDrop
       \/ /\ Accepting(p) /\ ((~able /\ NoFault) \/ Fault) /\ UNCHANGED dropped
          /\ Go(p, "resolve") /\ UNCHANGED <<jobs, journal, files>>
    /\ UNCHANGED <<artifact, facts>> /\ Apart

\* _persist_promoted_journal, and the renewal after it.  An outcome that cannot
\* be read is ArtifactCommitUnknown: the worker leaves the row to a later start.
Record(p) ==
    LET j == J(p)
        mine == journal[j].state = "prepared" /\ Owns(p, j)
    IN
    /\ At(p, "record")
    /\ \/ mine /\ journal' = Renewed(p, j, "promoted") /\ Go(p, "commit") /\ NoFault
       \/ ~mine /\ Leave(p) /\ UNCHANGED journal /\ NoFault
       \/ mine /\ Fault /\ Leave(p) /\ journal' \in {journal, Renewed(p, j, "promoted")}
    /\ UNCHANGED <<jobs, artifact, facts, files>> /\ WorkerOnly

\* persist_exact_account_result, in the transaction of its caller.
PersistFacts(j) ==
    facts' = IF journal[j].target = "succeeded" THEN facts \union {j} ELSE facts

\* The triggers on the journal: a row is committed to the artifact and to the
\* state of its job, or the update is aborted.
BindingHolds(j) == jobs'[j] = journal[j].target /\ j \in artifact'

Committed(j) ==
    /\ jobs' = [jobs EXCEPT ![j] = journal[j].target]
    /\ journal' = Closed(j, "committed")
    /\ artifact' = artifact \union {j}
    /\ PersistFacts(j) /\ BindingHolds(j)

\* One transaction: artifact row, facts, job, journal.  The facts may be
\* refused; close() may have fenced; the operator may have cancelled.
Commit(p) ==
    LET j == J(p)
        ready == jobs[j] = "running" /\ journal[j].state = "promoted" /\ Owns(p, j)
    IN
    /\ At(p, "commit")
    /\ \/ ready /\ Accepting(p) /\ Committed(j) /\ Leave(p) /\ NoDrop
       \/ /\ ready /\ ~Accepting(p) /\ CancelRunning(j) /\ Go(p, "resolve")
          /\ UNCHANGED <<journal, artifact, facts>>
       \/ ~ready /\ Go(p, "resolve") /\ UNCHANGED rows /\ NoDrop
       \/ ready /\ journal[j].target = "succeeded" /\ Go(p, "resolve") /\ UNCHANGED rows /\ NoDrop
       \/ /\ ready /\ Fault /\ UNCHANGED <<rows, dropped>>
          /\ (Go(p, "resolve") \/ Leave(p))
    /\ UNCHANGED files /\ Apart

(***************************************************************************)
(* _resolve_rolled_back: files first, then the row                         *)
(***************************************************************************)
Resolve(p) ==
    LET j == J(p) IN
    /\ At(p, "resolve")
    /\ \/ /\ Owns(p, j) /\ journal' = Renewed(p, j, journal[j].state) /\ NoFault
          /\ \E done \in BOOLEAN :
                DemoteAndDiscard(j, done) /\ Go(p, IF done THEN "settle" ELSE "mark")
       \/ ~Owns(p, j) /\ Leave(p) /\ UNCHANGED <<journal, files>> /\ NoFault
       \/ Owns(p, j) /\ Fault /\ Leave(p) /\ UNCHANGED <<journal, files>>
    /\ UNCHANGED <<jobs, artifact, facts>> /\ WorkerOnly

\* In a startup an exception sends the row to _mark_artifact_inconsistent.
Settle(p) ==
    LET j == J(p) IN
    /\ At(p, "settle")
    /\ \/ /\ Owns(p, j) /\ ~Pinned(j) /\ Leave(p) /\ NoFault
          /\ journal' = Closed(j, "rolled_back") /\ jobs' = Stopped(j)
       \/ ~(Owns(p, j) /\ ~Pinned(j)) /\ Leave(p) /\ UNCHANGED <<jobs, journal>> /\ NoFault
       \/ /\ Owns(p, j) /\ Fault /\ UNCHANGED <<jobs, journal>>
          /\ IF phase[p] \in Recovering THEN Go(p, "mark") ELSE Leave(p)
    /\ UNCHANGED <<artifact, facts, files>> /\ WorkerOnly

\* Mutant of Mark: a cancelled job asks for a person again.
MarkCancelledToo(p) ==
    LET j == J(p) IN
    /\ At(p, "mark")
    /\ IF Claimable(p, j)
       THEN /\ journal' = Closed(j, "inconsistent")
            /\ jobs' = [jobs EXCEPT ![j] = "needs_human"]
       ELSE UNCHANGED <<jobs, journal>>
    /\ Leave(p)
    /\ UNCHANGED <<artifact, facts, files, faults>> /\ WorkerOnly

\* _mark_artifact_inconsistent: every job but a cancelled one asks for a person,
\* one that had succeeded too.  After an error, with or without the claim, a
\* startup tries again (a second one ends it: Die) and a worker leaves the row.
Mark(p) ==
    LET j == J(p) IN
    /\ At(p, "mark")
    /\ \/ /\ Claimable(p, j) /\ Leave(p) /\ NoFault
          /\ journal' = Closed(j, "inconsistent")
          /\ jobs' = [jobs EXCEPT ![j] = IF @ = "cancelled" THEN @ ELSE "needs_human"]
       \/ ~Claimable(p, j) /\ Leave(p) /\ UNCHANGED <<jobs, journal>> /\ NoFault
       \/ /\ Claimable(p, j) /\ Fault /\ UNCHANGED jobs
          /\ journal' \in {journal, Renewed(p, j, journal[j].state)}
          /\ IF phase[p] \in Recovering THEN UNCHANGED task ELSE Leave(p)
    /\ UNCHANGED <<artifact, facts, files>> /\ WorkerOnly

(***************************************************************************)
(* Startup: _reconcile_artifact_promotions, recover_interrupted_workers,   *)
(* _reconcile_artifact_promotions again                                    *)
(***************************************************************************)
Listed == {j \in Job : journal[j].state \in Unresolved \/ Pinned(j)}

\* Another process starts, whether or not its predecessors still run: the start
\* script runs one, nothing in the code keeps a second one away.
Start(p) ==
    /\ p > 1 /\ phase[p] = "unborn" /\ phase[p - 1] # "unborn"
    /\ Cardinality({q \in Process : Alive(q)}) < MaxAtOnce
    /\ phase' = [phase EXCEPT ![p] = "pass1"]
    /\ todo'  = [todo EXCEPT ![p] = Listed]
    /\ earlier' = [earlier EXCEPT ![p] = {q \in Process : phase[q] = "dead"}]
    /\ UNCHANGED <<rows, files, admitted, queue, task, doomed, dropped, faults>>

InPass(p) == phase[p] \in {"pass1", "pass2"} /\ At(p, "idle")

\* The claim of a row: one that raises has not claimed, for all the pass knows.
ClaimRow(p, j) ==
    LET claimed == Renewed(p, j, journal[j].state) IN
    /\ InPass(p) /\ j \in todo[p]
    /\ todo' = [todo EXCEPT ![p] = @ \ {j}]
    /\ \/ /\ Claimable(p, j) /\ journal' = claimed /\ NoFault
          /\ task' = [task EXCEPT ![p] = [Idle EXCEPT !.at = "read", !.job = j]]
       \/ ~Claimable(p, j) /\ UNCHANGED <<journal, task>> /\ NoFault
       \/ Claimable(p, j) /\ journal' \in {journal, claimed} /\ UNCHANGED task /\ Fault
    /\ UNCHANGED <<jobs, artifact, facts, files, phase, admitted, queue, doomed,
                   earlier, dropped>>

\* The snapshot of row, job and artifact; here and below an exception sends the
\* row to _mark_artifact_inconsistent.
ReadRow(p) ==
    LET j == J(p)
        published == j \in artifact /\ jobs[j] = journal[j].target
        place == IF journal[j].state = "allocating" THEN "look"
                 ELSE IF ~journal[j].known THEN "mark"
                 ELSE IF published THEN "verify"
                 ELSE IF Pinned(j) \/ j \in artifact THEN "mark"
                 ELSE "resolve"
        over  == ~Owns(p, j) \/ journal[j].resolution = "inconsistent"
    IN
    /\ At(p, "read")
    /\ \/ over /\ Leave(p) /\ NoFault
       \/ ~over /\ Go(p, place) /\ NoFault
       \/ Go(p, "mark") /\ Fault
    /\ UNCHANGED <<rows, files>> /\ WorkerOnly

\* Mutant of LookForStage: an allocation is closed without a look at its stage.
LookForNoStage(p) ==
    /\ At(p, "look")
    /\ Go(p, "interrupted")
    /\ UNCHANGED <<rows, files, faults>> /\ WorkerOnly

\* An allocation owns no file identity: it is closed only if no stage exists.
LookForStage(p) ==
    /\ At(p, "look")
    /\ \/ J(p) \notin stage /\ Go(p, "interrupted") /\ NoFault
       \/ J(p) \in stage /\ Go(p, "mark") /\ NoFault
       \/ Go(p, "mark") /\ Fault
    /\ UNCHANGED <<rows, files>> /\ WorkerOnly

\* _complete_interrupted_allocation
CloseAllocation(p) ==
    LET j    == J(p)
        mine == Owns(p, j) /\ journal[j].state = "allocating"
    IN
    /\ At(p, "interrupted")
    /\ \/ /\ mine /\ Leave(p) /\ NoFault
          /\ journal' = Closed(j, "rolled_back") /\ jobs' = Stopped(j)
       \/ ~mine /\ Leave(p) /\ UNCHANGED <<jobs, journal>> /\ NoFault
       \/ Go(p, "mark") /\ UNCHANGED <<jobs, journal>> /\ Fault
    /\ UNCHANGED <<artifact, facts, files>> /\ WorkerOnly

\* The bytes of a committed row are checked; a file that only has its stage name
\* is renamed (recover_promote) first.
Verify(p) ==
    LET j == J(p) IN
    /\ At(p, "verify")
    /\ \/ /\ j \in final /\ j \notin stage /\ Leave(p) /\ UNCHANGED files /\ NoFault
          /\ journal' = IF Owns(p, j) THEN Closed(j, "committed") ELSE journal
       \/ RecoverPromote(j) /\ UNCHANGED <<journal, task>> /\ NoFault
       \/ (j \in final) = (j \in stage) /\ Go(p, "mark") /\ UNCHANGED <<journal, files>> /\ NoFault
       \/ Fault /\ Go(p, "mark") /\ UNCHANGED <<journal, files>>
    /\ UNCHANGED <<jobs, artifact, facts>> /\ WorkerOnly

\* Mutant of Recover: the jobs of live allocations are protected as well.
RecoverBesideAllocations(p) ==
    LET protected == {j \in Job : /\ journal[j].state \in Unresolved
                                  /\ journal[j].owner # Nobody /\ journal[j].live}
    IN
    /\ phase[p] = "recover"
    /\ jobs' = [j \in Job |-> IF jobs[j] \in Active /\ j \notin protected
                              THEN "needs_human" ELSE jobs[j]]
    /\ phase' = [phase EXCEPT ![p] = "pass2"]
    /\ todo' = [todo EXCEPT ![p] = Listed]
    /\ UNCHANGED <<journal, artifact, facts, files, admitted, queue, task, doomed,
                   earlier, dropped, faults>>

\* recover_interrupted_workers protects the jobs of live finalizers, not those
\* of allocations.
Recover(p) ==
    LET protected == {j \in Job : /\ journal[j].state \in {"prepared", "promoted"}
                                  /\ journal[j].owner # Nobody /\ journal[j].live}
    IN
    /\ phase[p] = "recover"
    /\ jobs' = [j \in Job |-> IF jobs[j] \in Active /\ j \notin protected
                              THEN "needs_human" ELSE jobs[j]]
    /\ phase' = [phase EXCEPT ![p] = "pass2"]
    /\ todo' = [todo EXCEPT ![p] = Listed]
    /\ UNCHANGED <<journal, artifact, facts, files, admitted, queue, task, doomed,
                   earlier, dropped, faults>>

\* After the second pass, create_app also stops the running jobs whose own lease
\* has run out; which ones have is left open.
EndPass(p) ==
    /\ InPass(p) /\ todo[p] = {}
    /\ IF phase[p] = "pass1"
       THEN phase' = [phase EXCEPT ![p] = "recover"] /\ UNCHANGED jobs
       ELSE /\ phase' = [phase EXCEPT ![p] = "up"]
            /\ \E expired \in SUBSET {j \in Job : jobs[j] = "running"} :
                  jobs' = [j \in Job |-> IF j \in expired THEN "needs_human" ELSE jobs[j]]
    /\ UNCHANGED <<journal, artifact, facts, files, admitted, queue, task, todo,
                   doomed, earlier, dropped, faults>>

(***************************************************************************)
(* Time, close() and the end of a process                                  *)
(***************************************************************************)
\* Five minutes without a renewal, whether the owner is dead, slow or suspended:
\* only within an action, from a renewal to the next statement, is a lease certain.
LeaseLapses(j) ==
    /\ journal[j].live
    /\ journal' = [journal EXCEPT ![j].live = FALSE]
    /\ UNCHANGED <<jobs, artifact, facts, files, procs, faults>>

CloseOnly == UNCHANGED <<journal, artifact, facts, files, admitted, task, earlier>>

Fence(p) ==
    /\ Accepting(p)
    /\ phase' = [phase EXCEPT ![p] = "fenced"]
    /\ UNCHANGED <<jobs, queue, todo, doomed>> /\ NoDrop /\ CloseOnly

\* The futures known at the fence are cancelled, which may be all of the queue
\* or miss a late one, and the job table is listed.
CloseList(p) ==
    /\ phase[p] = "fenced"
    /\ queue' \in {queue, [queue EXCEPT ![p] = << >>]}
    /\ todo' = [todo EXCEPT ![p] = {j \in Job : jobs[j] \in Active}]
    /\ phase' = [phase EXCEPT ![p] = "draining"]
    /\ UNCHANGED <<jobs, doomed>> /\ NoDrop /\ CloseOnly

\* _cancel_running in two steps: the read, and an update conditional on the state
\* read.  An error of either is swallowed, and close() goes on to the next job.
CloseRead(p, j) ==
    /\ phase[p] = "draining" /\ doomed[p] = << >> /\ j \in todo[p]
    /\ todo' = [todo EXCEPT ![p] = @ \ {j}]
    /\ \/ /\ doomed' = [doomed EXCEPT ![p] =
                            IF jobs[j] \in Active THEN <<j, jobs[j]>> ELSE << >>]
          /\ NoDrop
       \/ UNCHANGED doomed /\ Drop(j)
    /\ UNCHANGED <<jobs, queue, phase>> /\ CloseOnly

CloseCancel(p) ==
    LET j == doomed[p][1] IN
    /\ phase[p] = "draining" /\ doomed[p] # << >>
    /\ \/ /\ jobs' = IF jobs[j] = doomed[p][2] THEN [jobs EXCEPT ![j] = "cancelled"]
                                               ELSE jobs
          /\ NoDrop
       \/ UNCHANGED jobs /\ Drop(j)
    /\ doomed' = [doomed EXCEPT ![p] = << >>]
    /\ UNCHANGED <<queue, todo, phase>> /\ CloseOnly

CloseWorker(p) ==
    /\ phase[p] = "draining" /\ doomed[p] = << >> /\ todo[p] = {}
    /\ queue' = [queue EXCEPT ![p] = << >>]
    /\ phase' = [phase EXCEPT ![p] = "waiting"]
    /\ UNCHANGED <<jobs, todo, doomed>> /\ NoDrop /\ CloseOnly

\* close() returns True when the worker has ended and no admission is open.  When
\* its budget of a quarter of a second is spent it returns False and leaves worker
\* and requests as they are: the phase stays "waiting".
CloseReturn(p) ==
    /\ phase[p] = "waiting"
    /\ task[p] = Idle
    /\ \A j \in Job : admitted[j].by = p => admitted[j].at = "ended"
    /\ phase' = [phase EXCEPT ![p] = "closed"]
    /\ UNCHANGED <<jobs, queue, todo, doomed>> /\ NoDrop /\ CloseOnly

\* The process ends: its threads end wherever they are.
Die(p) ==
    /\ Alive(p)
    /\ phase'  = [phase EXCEPT ![p] = "dead"]
    /\ queue'  = [queue EXCEPT ![p] = << >>]
    /\ task'   = [task EXCEPT ![p] = Idle]
    /\ todo'   = [todo EXCEPT ![p] = {}]
    /\ doomed' = [doomed EXCEPT ![p] = << >>]
    /\ UNCHANGED <<rows, files, admitted, earlier, dropped, faults>>

Worker(p) ==
    \/ Take(p) \/ Claim(p) \/ CheckShutdown(p) \/ Collect(p)
    \/ Allocate(p) \/ CreateStage(p) \/ Prepare(p)
    \/ Authorize(p) \/ Promote(p) \/ Record(p) \/ Commit(p)
    \/ Resolve(p) \/ Settle(p) \/ Mark(p)

Startup(p) ==
    \/ Start(p) \/ ReadRow(p) \/ LookForStage(p) \/ CloseAllocation(p)
    \/ Verify(p) \/ Recover(p) \/ EndPass(p)
    \/ \E j \in Job : ClaimRow(p, j)

Close(p) ==
    \/ Fence(p) \/ CloseList(p) \/ CloseCancel(p) \/ CloseWorker(p) \/ CloseReturn(p)
    \/ \E j \in Job : CloseRead(p, j)

Submit(p) ==
    \E j \in Job : Admit(p, j) \/ CreateJob(p, j) \/ ConfirmAdmission(p, j) \/ Enqueue(p, j)

Next ==
    \/ \E p \in Process : Submit(p) \/ Worker(p) \/ Startup(p) \/ Close(p) \/ Die(p)
    \/ \E j \in Job : OperatorCancel(j) \/ LeaseLapses(j)

Spec == Init /\ [][Next]_vars

(***************************************************************************)
(* Readers                                                                 *)
(***************************************************************************)
\* The shared gate: one artifact, one committed row that nobody holds, and the
\* file it names.
Trusted(j) ==
    /\ jobs[j] = "succeeded" /\ j \in artifact /\ Pinned(j)
    /\ journal[j].target = "succeeded" /\ journal[j].known
    /\ journal[j].owner = Nobody /\ ~journal[j].live
    /\ j \in final

\* _read_trusted_account_snapshot: the facts are those of that file.
Readable(j) == Trusted(j) /\ j \in facts

(***************************************************************************)
(* Properties                                                              *)
(***************************************************************************)
\* The CHECK constraints of the journal's table.
WellFormed(row) ==
    /\ (row.state = "completed") <=> (row.resolution # "none")
    /\ row.live => row.owner # Nobody
    /\ row.state \in {"prepared", "promoted"} => row.known
    /\ row.resolution = "committed" => row.known

TypeOK ==
    /\ \A j \in Job : WellFormed(journal[j])
    /\ jobs \in [Job -> JobStates]
    /\ journal \in [Job -> [state : Unresolved \union {"none", "completed"},
                            resolution : {"none", "committed", "rolled_back", "inconsistent"},
                            owner : Process \union {Nobody}, live : BOOLEAN,
                            target : Targets \union {"none"}, known : BOOLEAN]]
    /\ artifact \subseteq Job /\ facts \subseteq Job /\ dropped \subseteq Job
    /\ stage \subseteq Job /\ final \subseteq Job
    /\ \A p \in Process : task[p].at \in {"idle"} \union Working \union Inspecting
    /\ faults \in 0..MaxFaults

\* A committed row means the file under its final name only, its artifact and
\* the announced job state; success and facts are never there without it, unless
\* a start has found the evidence broken and asked for a person, who may cancel.
PublishedIsWhole ==
    \A j \in Job :
        /\ Pinned(j) => /\ jobs[j] = journal[j].target
                        /\ j \in artifact /\ j \in final /\ j \notin stage
        /\ jobs[j] = "succeeded" => Readable(j) \/ journal[j].owner # Nobody
        /\ j \in artifact \union facts =>
              \/ Pinned(j)
              \/ /\ journal[j].resolution = "inconsistent"
                 /\ jobs[j] \in {"needs_human", "cancelled"}

\* No file is without a row that still says so: the row is unresolved, or
\* committed, or tells a person that the evidence is inconsistent.  Only a stage may
\* be untracked, when a second process has resolved the allocation of a live one:
\* then its job has ended or waits for a person.
Overlapped == \E p \in Process : phase[p] # "unborn" /\ earlier[p] # 1..(p - 1)

BytesAreTracked ==
    \A j \in Job :
        LET tracked == \/ journal[j].state \in Unresolved
                       \/ journal[j].resolution \in {"committed", "inconsistent"}
        IN  /\ j \in final => tracked
            /\ j \in stage => tracked \/ (Overlapped /\ jobs[j] \in {"cancelled", "needs_human"})

\* Once a start has gone through its recovery, a job of a process that was dead
\* before it is active only while a journal row with a file identity is unresolved.
NoJobIsForgotten ==
    \A p \in Process, j \in Job :
        Accepting(p) /\ admitted[j].by \in earlier[p]
            /\ jobs[j] \in Active
        => journal[j].state \in {"prepared", "promoted"}

\* When close() reports a clean stop, a collection that process has reserved is
\* queued or running only if an error was swallowed that should have ended it: no
\* order of requests, worker and close() leaves one behind.
CleanStopIsClean ==
    \A p \in Process, j \in Job :
        phase[p] = "closed" /\ admitted[j].by = p /\ jobs[j] \in Active
            => j \in dropped

\* A resolved row keeps its resolution or becomes inconsistent; a job that has
\* ended stays, unless the evidence of its commit is found broken.
DecisionsAreFinal ==
    [][\A j \in Job :
        /\ journal[j].state = "completed" =>
              /\ journal'[j].state = "completed"
              /\ journal'[j].resolution \in {journal[j].resolution, "inconsistent"}
        /\ jobs[j] \in {"succeeded", "failed", "cancelled"} /\ jobs'[j] # jobs[j] =>
              Pinned(j) /\ journal'[j].resolution = "inconsistent"]_vars
=============================================================================
