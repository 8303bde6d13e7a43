# TLA+ models of the local workbench

This directory specifies the parts of the workbench whose correctness depends on the
order in which things happen: durable jobs, the worker threads, the files they write,
the cleanup of those files, and what a crash or a restart of the one backend process
does to all of them. The modules are translated from the code under `src/backend/app`;
`PROJECT.json` gives, for every definition, the lines it stands for. TLC checks small
instances, TLAPS proves what is said in "What is proved".

## 1. Inventory

The backend is one FastAPI process on one SQLite database (WAL, one writer at a time)
and one data directory. `create_app` (main.py) opens the database, which runs the
migrations and one recovery, runs the job recovery, and builds the services; the
lifespan starts the worker threads and closes them at the end.

| component | state | operations | talks to |
|---|---|---|---|
| durable jobs (`services/jobs.py`) | rows of `jobs`, `job_artifacts`, `job_logs` | create, claim, transition, finalise with an artifact, two recoveries | everything that runs in the background |
| jobs API (`api/jobs.py`) | none | claim and transition, restricted for reserved types | jobs |
| shop collection (`features/shops/service.py`) | executor, temporary and final results | enqueue, execute, finalise, close | jobs, device adapter |
| media runs (`features/media/`) | `content_media_runs`, a queue, one thread, an admission flag | submit, execute, cancel, close, start | jobs, provider, cleanup outbox, materials |
| cleanup worker (`features/content/cleanup.py`) | `artifact_gc_queue`, the quarantine directory | enqueue, cancel, make due, claim, quarantine, delete, recover | content writers, file system |
| content items, materials, packages (`features/content/service.py`, `export.py`) | items and revisions, materials, packages, files | create, review, regenerate, add material, export | cleanup outbox, jobs, provider |
| Xiaohongshu collection (`features/xhs/`) | the publication journal, staged and final files, fact tables, a serial worker | submit, collect, stage, publish, reconcile, close | jobs, CLI and browser adapters, another process on the same database |
| Qianfan ranks and demand radar (`features/radar/`) | batches of scopes, snapshots, opportunities | enqueue, execute, ingest, decide, score | jobs, browser adapter |
| analysis (`features/analysis/`) | sealed analyses, opportunity cards and their review | create, review, list | evidence of shops, accounts and ranks; provider |
| provider clients (`adapters/bailian*.py`) | none | submit, poll, retry | HTTP |
| device, browser, CLI adapters, bounded process | child processes | run, read with bounds, terminate | the machine |
| schema (`db.py`) | tables, markers, triggers | migrate, rebuild, validate, recover stranded builds | every start |
| frontend, scripts, documents | none that is durable | | API |

What is hard in each of them, and what makes it correct:

* **Jobs.** `transition()` is a read and a guarded UPDATE with other calls in between;
  finalisation renames a file inside a transaction; two recoveries look at the same
  rows one after the other. Correct: only permitted edges commit, columns follow the
  state, a success has its file, no job is left without somebody responsible for it.
* **Media runs.** Run and job are two rows moved together by the worker thread, by
  `close()` and by two recoveries; a provider call costs money and lasts minutes; an
  image is a reservation, a file and a transaction. Correct: the rows agree, one call
  at most, bound exactly when successful, no bytes and no run without an owner.
* **Cleanup.** A worker looks at files and references, renames, commits and deletes
  with a lease of five minutes that may run out at each of these steps, beside
  writers, new references, other programs, shutdown and crash. Correct: nothing that
  is referred to is removed, nothing moved is forgotten.
* **Content workflow.** Review and regeneration go by version; an export builds for a
  long time outside any transaction and commits only if nothing changed.
* **Qianfan.** Batches executed by a serial thread with cancellation between read and
  write; a snapshot and the success of its job are one fact.
* **Account collection.** A result is a stage file, a journal row with a lease, a
  rename, and a transaction with artifact, facts and job; a start may meet the journal
  of a process that still runs. Correct: published whole or not at all, no file
  without a row, no job without somebody responsible for it.
* **Analysis.** Evidence is read, shown to a model for minutes, read again under the
  write reservation and sealed. Correct: what is sealed is what was shown and still
  stood; a card rests on the own evidence of every account it speaks of; what a caller
  is told about a commit is true.
* **Schema.** DDL is durable statement by statement. Correct: whatever statement a
  start dies at, no history is lost or hidden, and old claims stay marked as old.
* **Adapters.** Deadlines, bounded output, termination of process trees.

The hazards found while reading are in `PROJECT.json`, each at its line.

## 2. Modules

```
JobLifecycle  <--- refined by ---  Jobs  <-- MCJobs,  JobsProofs
                                   MediaRuns       <-- MCMediaRuns,  MediaRunsProofs
                                   ArtifactCleanup <-- MCArtifactCleanup,  ArtifactProofs
                                   QianfanCollection <-- MCQianfanCollection,  QianfanProofs
                                   ContentWorkflow <-- MCContentWorkflow,  ContentProofs
                                   AccountCollection <-- MCAccountCollection,  AccountProofs
                                   AnalysisRuns <-- MCAnalysisRuns,  AnalysisProofs
                                   SchemaStart <-- MCSchemaStart,  SchemaProofs
```

Each module abstracts the others to what it needs of them: `MediaRuns` has the
reserved job of a run as a column guarded by the same transaction, and the cleanup row
of its file as a small state; `ArtifactCleanup` has the writers as the requests that
reserve, write and bind; `ContentWorkflow` has the state of an item and its package,
and takes the cleanup rows reserved with it as a reason for which a transaction may
fail; `QianfanCollection` has the jobs of its scopes, and `AccountCollection` those of
its collections with the recoveries of a start; `AnalysisRuns` has the journal of a
collected account as evidence that another process may take into its hands;
`SchemaStart` has the tables of all of them.

### JobLifecycle, Jobs (`services/jobs.py`, `api/jobs.py`, shop worker)

`JobLifecycle` is the promise: a graph of states per job, a lease exactly while
running, and the hand-over of unfinished jobs at a restart, in one commit. `Jobs` is
the code. One row per job (`state`, `lease`, `completed`, `error`, `retries`), three
sets for the files of a shop result (`temp`, `final`, `bound`), the thread of each
shop job (`worker`), the calls of `transition()` between their read and their UPDATE
(`inflight`), the process (`phase`), and a history of the shop jobs whose thread this
process has lost to a database error (`dropped`).

| code | action |
|---|---|
| `create`, `enqueue` | `Create`, with a task, with an executor that refuses it, or with the acknowledgement lost |
| `claim` by a client, by `execute`, by the except branch of `enqueue` | `ExternalClaim`, `WorkerClaim`, `ScheduleClaim` |
| `transition`: read, then guarded UPDATE | `RequestTransition`, `WorkerFail` or `ScheduleFail`, then `TransitionWrite` or `TransitionError` |
| `claim`, `append_log` or the read of the row raises in the thread, uncaught | `ThreadDies` |
| adapter raises / result is written to a temporary file | `WorkerRaise`, `PersistResult` |
| `finalize_running_with_artifact` | `FinalizeCommit`, `FinalizeRollback`, `FinalizeLost` |
| `recover_expired_running`, `recover_interrupted_workers` | the same names |
| end of the process | `Crash` |

The mapping to `JobLifecycle` keeps `state` and takes `leased` to be the running jobs,
which `ColumnsFollowState` shows to be the jobs that have a lease.

Abstracted: `append_log` changes no state of a job, so only its exception is there
(`ThreadDies`). An executor whose `submit` raised does not run the task; where the
operating system refused the thread after the task was queued, a later thread could,
but its claim and that of the except branch exclude each other.

### MediaRuns (`features/media/`)

Per run: `status` and `version` of the row, `job` and `lease` of the reserved job,
`calls` to the provider, `output` (a bound result), `file` and `cleanup` (its
reservation). Of the process: the `queue`, the thread (`pc`, `cur`, `seen`), the
submission that holds the lock, what `close()` has yet to cancel, `phase`, `now`. The
thread takes one step per commit, per lock region, per provider call and per file
write, so that close(), a crash or the cleanup worker may come between any two of
them. `_generation` and `_accepting` are the phase. The queue is a set: its order is
not part of any property.

Abstracted: the facts and their digest are "unchanged or not" (`Attempt`), the
provider fails or returns, an exceeded material limit or a refused transaction is
`CommitFails`. A lost acknowledgement of the binding commit is in `Commit`; a
transaction whose outcome cannot be read back (`MediaRunTransactionUnknown` of a
claim) and errors of single statements are not.

### ArtifactCleanup (`features/content/cleanup.py` and its writers)

Per managed path: the queue row (`state`, `due`, `token`, `live`, `moved`), the `type`
and generation that owns it (`owner`), references by other rows (`alias`), what is at
the path (`orig`) and in quarantine (`quar`): nothing, the expected bytes, other
bytes. `writer` is the request of `add_material` or `export_package` that reserves,
writes and binds. Per worker: `pc`, `row`, `owned`, what it `saw` last, `stop`; `lock`
is BEGIN IMMEDIATE with the deletion armed.

| code | action |
|---|---|
| `add_material`, `export_package` | `Reserve`, `Write`, `Bind` or `BindFails`, `GiveUp`; `Replace` for a rebuild |
| `claim_due`, `process_one` | `Claim`, `BeginBatch`, `Take`, `EndBatch` |
| `_quarantine` | `Look`, `Target`, `Issue`, `Verify`, `Move`, `Renamed`, `Moved`, `CommitQuarantine`, `RecordShutdown` |
| `_delete_quarantined` | `LookOriginal`, `LookQuarantine`, `References`, `OpenHandle`, `Arm`, `CommitDelete` or `Disarm` |
| `_needs_human`, `_mark_moved_needs_human`, `_mark_deleted` | `Decide` |
| exceptions of a step, of the database | `Raise`, `DatabaseError` |
| `close`, cancellation checks, end of the process, start | `Close`, `Notice`, `Crash`, `Start` |
| other rows, other programs, time | `Refer`, `Tamper`, `BecomeDue`, `Expire` |

Abstracted: hard links, junctions and path keys that differ in case are one `alias`;
an identity (volume, file id, size, time) is "the expected bytes". A token names its
worker. One file is written within a day of its reservation (the `not_before` of the
code); the database transaction that follows may be later. No request is under way
when a process starts: the start script runs one backend.

### QianfanCollection (`features/radar/qianfan_service.py`, `features/radar/service.py`)

Of the database: the `job` of each scope of each batch, the newest row of
`radar_qianfan_collections` (`active`), and the batch the `snapshot` of each scope is
bound to. Of the process: the queue of the serial thread (`batches`), the thread
(`cur`, `todo`, `scope`, `pc`), a request whose batch the thread did not take
(`refused`), and what `close()` saw in the job table (`listed`, `phase`).

| code | action |
|---|---|
| `enqueue` | `Enqueue`, `FailReserved` when the thread cannot be started |
| `execute_batch` | `Take`, `Start`, `Refuse`, `NextScope`, `EndBatch` |
| `_execute_scope` | `Claim`, `Collect`, `Returned`, `Finish`, `Build`, `Ingest` or `IngestFails` |
| its `except` clauses | `Untrusted` and `HandOver`, `Returned("raised", ...)` and `Report` |
| `close` | `Fence`, `ListJobs`, `CloseJob` |
| jobs API, upload of a snapshot, end of the process, start | `OperatorCancel`, `Upload`, `Stop`, `Restart` |

Abstracted: all batches are of one day; a `transition()` is one step, since its read
and its UPDATE raise alike; scopes come in any order; a snapshot is the batch it is
bound to. Of the statements that may fail, those of the ingest are modelled.

### ContentWorkflow (`features/content/service.py`, recoveries of `db.py`)

One item: `status`, the `current` revision, the number of `revisions`, the rows of
`reviews` in the order of their ids (reviews and regeneration attempts share the
table), the `package` of the revision with the token of its build, and the `file` of
each build. Each request makes one call: `pc`, the revision it expects (`base`), the
`number` and the `attempt` id it computed, the package it has `seen`.

| code | action |
|---|---|
| `create_content_item`, `review` | `Create`, `Review` |
| `regenerate` | `Reserve`, `Generate`, `Check`, `Commit` or `CommitFails` |
| a reservation commit that raises | `Resolve` |
| `_restore_rejected_reservation` and what follows | `Restore`, `Unproven`, `Normalize` |
| `export_package` | `Export`, `ReadEntries`, `Look`, `ReservePackage`, `Write`, `Finalize` or `FinalizeFails` |
| its commits that raise | `ResolvePackage`, `Prove`, `Fail` |
| end of the process, `_recover_stranded_content_packages`, `_recover_stranded_content_regenerations` | `Crash`, `RecoverPackages`, `RecoverRegenerations` |

Every commit has three outcomes: landed and acknowledged, landed with an error, not
landed with an error. An id given to a row that is rolled back is given again
(`Reserve` computes it from the length of the table), which is how SQLite does it and
what the proofs of `_resolve_regeneration_reservation_commit` meet. Abstracted: a
package of the same revision always has the same bytes (the review history of an
approved item and its materials are immutable), trust validation is a reason to fail,
other items share nothing but ids.

### AccountCollection (`features/xhs/service.py`, `features/xhs/staging_cleanup.py`)

Of the database: the state of each job (`jobs`), its row of
`xhs_artifact_promotion_journal` (`journal`: state, resolution, owner, whether the
lease is live, the job state it announces, whether the identity of the file is known),
its `artifact` row, and its `facts`. Of the disk: the `stage` file and the `final`
file. Of each process: `phase`, the jobs it admits (`admitted`), the `queue` of its
serial worker, the `task` of that worker or of the start, what a pass or close() has
still to look at (`todo`, `doomed`), and which processes were dead when it started
(`earlier`). `dropped` is a history of the jobs that an error took from whoever was to
end them.

| code | action |
|---|---|
| `_submit` | `Admit`, `CreateJob`, `ConfirmAdmission`, `Enqueue` |
| `execute` | `Take`, `Claim`, `CheckShutdown`, `Collect` |
| `_stage_artifact` | `Allocate`, `CreateStage`, `Prepare` |
| `_commit_staged_artifact` | `Authorize`, `Promote`, `Record`, `Commit` |
| `_resolve_rolled_back`, `_mark_artifact_inconsistent` | `Resolve`, `Settle`, `Mark` |
| `_reconcile_artifact_promotions`, before and after `recover_interrupted_workers` | `Start`, `ClaimRow`, `ReadRow`, `LookForStage`, `CloseAllocation`, `Verify`, `EndPass`, `Recover` |
| `close` | `Fence`, `CloseList`, `CloseRead`, `CloseCancel`, `CloseWorker`, `CloseReturn` |
| jobs API, time, end of a process | `OperatorCancel`, `LeaseLapses`, `Die` |

Every transaction may fail before its commit lands or after it, those whose exception
nobody hears of included (`_cancel_running` in `CancelRunning`, `CloseRead` and
`CloseCancel`, `_fail_scheduling` in `Enqueue`), and every probe of an outcome is an
action or a branch of one. An error that ends a start or `close()` itself leaves what
`Die` leaves. A lease may lapse at any time, also under its owner at work
(`LeaseLapses` asks for nothing but a live lease), so that a start or another process
may take a row whose finalizer goes on. One assumption about time is left: a renewal
outlives the statement right after it, where the two are one action (`Promote`,
`Record`, `Resolve`, `Mark`), and the lease `Commit` read outlives its first INSERT,
which takes the write lock. The trigger that pins the job of a committed row is the
guard of `OperatorCancel`. Abstracted: a lease is live or not; a file is there or not
and its identity "known"; parsing, ownership and redaction are an exception of the
collection.

### AnalysisRuns (`features/analysis/`)

Of the world: what each shop `result` says, the identity and the bytes of each bound
`file`, the files `beside` a result, the `journal` of each note. Of the service:
requests (`call`), analyses (`row`), opportunities (`card`), the review requests
(`review`), and who holds BEGIN IMMEDIATE (`writer`).

| code | action |
|---|---|
| `create`: resolve, ask the model, check its answer | `Begin`, `Resolve`, `Screen`, `AskModel`, `Persist` |
| reservation, second resolve, flush, comparison of the files | `Reserve`, `Reread`, `Flush`, `Compare` |
| commit, lost acknowledgement and probe | `Commit`, `Probe` |
| `review_opportunity` | `Look`, `Review`, `Decide` |
| files written by name, journals claimed by another process | `WriteResult`, `WriteBeside`, `ClaimJournal`, `SettleJournal` |

A model answers one of `Outputs`: claims that cite evidence and a card with shops and
notes per account. Numbers of a result keep their meaning, since exactness is
arithmetic on them. Prompts, wording and hashes are left out.

### SchemaStart (`db.py`)

The `disk` and the `view` of the connection: for each table its shape, whether its
history is in it, whether its rows are `aside` in a renamed table, and the marks of
the migrations. A migration is the sequence of statements `Script(i, v)` it runs on
what it finds; `Execute` performs one, `Fail` is an exception, `Proceed` the commit of
a migration, `Crash` comes between any two statements. The driver opens a transaction
before the first INSERT, UPDATE or DELETE and not before DDL, so `disk` follows `view`
until then. A rebuild of the notes or of the first journal thus has two durable steps
before a row moves: `Strip` drops the triggers and indexes, which leaves the table
`unguarded`, and only then `Renew` renames it (db.py:3888-3899, 3936-3947, 1297-1306).
The triggers that freeze the facts of the accounts are a table of their own, `facts`:
those of the binding are dropped and created by statements of their own, those of the
snapshots come with the mark. Whether the first are still looked for is `Bound`. The
constant `Origins` is the set of databases the first start may meet. Each must be
`Released`: every table absent or in a shape that some release gave it, full or empty,
with nothing renamed, and every mark vouched for by its validator. `MCSchemaStart`
gives it the releases of the program, built from the changes each brought, and two
databases with tables from before their first migration.

Abstracted: the contents of rows satisfy their validators, a shape is a name, and
several statements of one kind are one where the first makes the difference (the first
trigger that is gone is what a validator misses). The triggers of a table that was
just created, still empty, come with its indexes. The indexes of the reviews are
dropped IF EXISTS and no validator looks for them; those of the queue go in the
transaction of its rebuild. The branch of the snapshot migration that finds everything
valid and only sets the mark (db.py:1261-1272) is in `Snapshot`, though no start
reaches it: the triggers it asks for are committed with that mark.
`_migrate_content_schema` sees content and reviews only, and the recoveries inside the
migrations are in `ArtifactCleanup` and `ContentWorkflow`.

## 3. Runs

| run | module | question | answer |
|---|---|---|---|
| `jobs` | MCJobs | do races, crashes and recoveries keep the life cycle, the columns and the evidence? | passes |
| `media` | MCMediaRuns | do run, job, result, file and reservation stay consistent? | passes |
| `media_live` | MCMediaRuns | is every open run decided in the end? | passes, but for the runs of finding 1 |
| `media_overtaken` | MCMediaRuns | does a restart settle every running run? | no: finding 1 |
| `cleanup` | MCArtifactCleanup | does the worker remove only what is loose, and lose nothing? | passes |
| `cleanup_leftover` | MCArtifactCleanup | can every leftover build be recovered by a start? | no: finding 2 |
| `qianfan` | MCQianfanCollection | are snapshots and jobs one fact, and does `close()` settle every job? | passes |
| `content` | MCContentWorkflow | do review history, revisions, package and reservations stay consistent? | passes |
| `content_open_attempt` | MCContentWorkflow | does a regeneration end only its own reservation? | no: finding 3 |
| `accounts` | MCAccountCollection | is a collection published whole or not at all, and is no file or job forgotten? | passes |
| `analysis` | MCAnalysisRuns | is a sealed success true, its card backed, and the answer to the caller right? | passes |
| `schema` | MCSchemaStart | does any interrupted start lose or hide history, or serve old claims as new? | passes, but for the states named in `RefusalsAreKnown` and `HistoryIsServed` |

**Bounds.** `jobs`: one external and one shop job, the two kinds the API tells apart,
and two calls of `transition()` in progress, which is what a lost update needs; one
tick per lease and three ticks, so that a lease may be live or expired at each
restart; one resumption. Jobs interact through the recoveries only. `media`: two
generations of one plan entry (the unique index) and one analysis on one thread; two
ticks. `media_live` has one generation and one analysis. `cleanup`: one path with two
workers; paths share nothing but the database lock and the order within a batch, and
the two workers are the overlap of an old and a new process as well as two of the same
time. `qianfan`: two batches of two scopes; the newest batch and the one before are
what readers can confuse, and two scopes are one that is executed and one that waits.
`content`: four calls of any mix: two requests with one attempt id and a third that
succeeds them, then an export, is the longest story a property is about; requests are
interchangeable, so the run uses symmetry. `accounts`: one collection, since
collections share only the serial worker, and three processes of which two may run at
a time: the one that dies, the one that overlaps it, and the one that finds what both
left; one error, at any step. The same model was also checked with three processes and
two errors (4.1 million states) and with two processes and three errors: one each for
the operation, its probe and its recovery; these are too long to be kept as runs.
`analysis`: one request over one, two or three accounts (the boundaries of a report, a
card and a stronger card), one file written and one journal claimed behind its back,
three database errors, and two reviewers, who are interchangeable. With one request
nobody else holds the write reservation when it asks for it; a pass with two requests
and smaller bounds (2.8 million states, too long to be kept) met that branch of
`Reserve` and no violation, and the theorems hold for any number. `schema` has no
bounds in its guards: all releases, any number of starts, a crash at any statement.
`MaxCalls`, `MaxNow`, `MaxRetries`, `MaxStarts`, `MaxAtOnce`, `MaxWrites`, `MaxClaims`
and `MaxFaults` are the only bounds in the guards; `calls` and `version` are bounded
by the states a run can go through.

**Fairness.** Safety runs assume none. `media_live` assumes that the thread runs on,
that a provider call ends (the HTTP client has a timeout for each request and a
polling deadline), that a submission holding the lock goes on, and that `close()` and
`create_app` do. It does not assume that a process is started or stays up: the
property asks only about behaviours in which it does.

**Deadlock** is checked but in `accounts` and `analysis`, whose processes and requests
are used up. Elsewhere nothing ever stops: there is always a crash, a start, or, when
the start of `ArtifactCleanup` raises, another row that comes to refer to the path.

**Findings.** (1) The job recovery of a start takes the job of an interrupted media
run whose lease has expired, and the run recovery, which insists on a running job,
then skips the run: it stays running for good and blocks its plan entry. (2) A package
build whose failure could not be recorded is claimed a day later, found referenced by
itself and given to a person; from then on the recovery of stranded builds raises at
every start. (3) A regeneration whose failure is recorded, but not acknowledged,
normalises the item again and takes away the draft of the request that came next; the
audit row of that request stays pending, which no recovery repairs.

**Other observations**, which the models contain and no run restates:

* No code expires a lease while the process lives, and the recovery of a start looks
  once (`services/jobs.py:416`, called by `main.py:206`): a job of a client that is
  gone stays running when its lease ends after the start, against
  PROJECT_STATUS.md:351. The same holds for the claims of the cleanup worker
  (`content/cleanup.py:494`).
* An operator who cancels a Qianfan scope between the read and the transition of
  `_needs_human_after_error` makes it raise out of the batch
  (`radar/qianfan_service.py:452`): the scopes behind it stay queued with no thread
  until `close()` or a start. `_failed_after_error` swallows every exception, and a
  job whose evidence cannot be written stays running until a start.
* A Qianfan batch taken while `close()` fences admission becomes the newest of the day
  and collects nothing (`radar/qianfan_service.py:215`).
* The count and size limits of materials are checked before the insert
  (`media/service.py:597`); two requests may pass together. Two requests that advance
  the candidate funnel may create the same preflight job (`radar/api.py:138`).
* `_cancel_running` swallows every exception (`xhs/service.py:2099`), so that
  `close()` of the account collections returns True although a job it could not read
  or cancel is still queued or running. `CleanStopIsClean` excepts exactly the jobs
  such an error was about (`dropped`); a start recovers them.
* A shop job stays queued or running without a thread, until the next start, when the
  database fails where its thread does not catch it: the acknowledgement of `create`,
  the claim of `execute`, `append_log` before the transition, the transition itself,
  or the claim and the transition of the except branch of `enqueue`
  (`shops/service.py:346`, `633`, `659`, `676`). `NoStrandedShopJob` excepts exactly
  these.
* A start that dies after `content_reviews` was renamed (`db.py:1514`) is followed by
  one that creates an empty table, finds it valid and marks the migration: the reviews
  stay in `content_reviews_audit_old` and nothing reads them. The other renamed tables
  are looked for (`NoLeftovers`).
* After a crash between two statements of the migrations of the cleanup token
  (`db.py:1745`), of the analysis snapshot (`db.py:2005`) or of an indexed table that
  is created new, every later start is refused: the states of `Torn`. So it is after a
  crash between the drops of triggers and indexes and the rename that follows them, of
  the notes (`db.py:3888`, `1297`) and of the journal (`db.py:3936`), although nothing
  is renamed yet: the validators of the marks insist on what is gone. A crash of the
  snapshot migration after it dropped the triggers of the binding and its own empty
  tables (`db.py:1298-1300`) does the same, since nothing shows that the upgrade was
  begun. A cleanup queue created by the release without identity columns is refused by
  every start, crash or not, because an added column does not bring the CHECKs its
  validator wants (`db.py:4866`).
* A collection whose process starts again within five minutes of a crash cannot be
  claimed by the start, and its job stays running until another start; a single read
  error of a start makes a committed collection inconsistent.
* A created opportunity row carries the status the server computed, and the output of
  its analysis the one the model wrote; `_validate_opportunity`
  (`content/service.py:1404`) compares them, so that an approved card is refused for
  ever unless the model guessed it.

## 4. What is proved

`JobsProofs` proves, for any set of jobs, any split into external and shop jobs and
any bounds, that every behaviour of `Jobs!Spec` has the properties of run `jobs`:
`TypeCorrect`, `ColumnsCorrect`, `SuccessIsEvidenced`, `RestartIsLabelled`,
`NothingStranded`, `EvidenceIsKept`, and `RefinesLifecycle`, the refinement of
`JobLifecycle`. The assumptions are those of the module: `Shop \subseteq Jobs`, and
the bounds are natural numbers.

None of the invariants is inductive alone. A late UPDATE of a call in progress could
make a shop job successful or move it along an edge that is not permitted, unless its
call says otherwise; and a finalisation could meet a job that was never claimed.
`IInv` therefore adds `CallsLegal`, which says of every call in progress that it asks
for a permitted edge from the state it read and, for a shop job, only for an
unsuccessful end, and `WorkersLegal`, which ties each worker to the state of its row
and says that an unfinished shop job without a worker has a call that read its present
state and will fail it, or is in `dropped`. `NothingStranded` has that exception too:
what it promises of a process without database errors, it promises of every job an
error did not touch. The proof has one lemma per action, `NextIInv` puts them
together, and the temporal theorems follow from `Inductive`. The two action properties
are proved from the same invariant, step by step.

`MediaRunsProofs` proves every safety property of run `media`, for any runs, any split
into generations and assessments and any lease and clock bounds:
`RunAndJobAlwaysAgree`, `ProviderIsPaidOnce`, `SuccessIsAlwaysWhole`,
`LooseBytesAreAlwaysReserved`, `NoRunIsEverForgotten`, `ShutdownAlwaysSettles` and
`DecisionsStayFinal`. It assumes that generations are runs, that `None` is not one,
and that the bounds are natural numbers. The invariants need what the thread knows at
each place of its program: `Progress` says which state the run in its hands can have
there, given what it has read; `Bytes` which file and which cleanup row exist;
`PhasesExclude` what a closed, starting or dead process cannot hold; and
`ClosingCovers` that an open run the closing process has not yet dealt with is in the
list of `close()`, in the cancellation it is about to write, or with the thread.
Without the last, the two sides could each leave a run to the other.

`QianfanProofs` proves the three properties of run `qianfan` for any batches and
scopes: `SuccessIsAlwaysPublished`, `ShutdownAlwaysSettles`, `FinishedAlwaysStays`. It
assumes that `None` and the upload are no batch, no job and no scope, and that there
is a scope (the code has eight). `Waiting` says that a batch is in the queue once and
untouched, `Working` that the thread works on scopes its batch has not begun and for
the batch it calls the newest, and `Closing` which jobs are left to `close()` and
which to the thread, place by place, once admission is closed.

`ArtifactProofs` proves the three properties of run `cleanup` for any paths and any
number of worker processes: `TypesHold`, `BytesAreAlwaysTracked` and
`WantedBytesAlwaysStay`. It assumes only that `None` is neither a path nor a worker. A
worker whose lease has expired goes on, and another may have its row, so no argument
from the lease works. `Writers` says that a path whose row is pending and whose writer
is still at work was never claimed; hence what a worker finds unreferenced is not
bound later. `Looks` says that bytes a worker has seen missing stay missing, since
nothing writes a path a second time; and `Armed` that an armed deletion holds the lock
of the database, so that nobody begins to refer to it.

`ContentProofs` proves the four properties of run `content` for any number of calls at
once: `HistoryAlwaysConsistent`, `ReservationsAlwaysCarried`, `PackageAlwaysWhole` and
`NothingIsEverTakenBack`. It assumes only that `None` is not a request. The last
transaction of a regeneration writes its revision without looking at the status of the
item, so `History` must say why this is safe: a regeneration of a revision exists only
if that revision was rejected, and a revision has one terminal review, so nobody can
have approved it meanwhile (`WinnerIsRejected`). `Requested` says what a request in
progress knows of the revision it works on, `Carried` that a draft or a reservation is
held by the request whose attempt is the open row, and `Packaged` that a builder of a
package writes only its own.

`AnalysisProofs` proves the five properties of run `analysis` for any requests,
reviewers, evidence and answers: `ShapesAlwaysHold`, `SealsAreAlwaysTrue`,
`AnswersAreAlwaysTrue`, `CardsAreAlwaysBacked` and `TheReviewAlwaysStands`. It assumes
what the request and answer schemas and the type of a scope give: a scope is finite, a
card names a shop and a note for each account, and no card looks like the absence of
one. The heart of it is that files no lock covers, read one after the other,
nevertheless stood together when the row was flushed. `Read` says that what was read
under the reservation is no newer than what is there, and that its journal is closed
and stays so while the reservation is held; `Between` that at the flush each file lay
between what was read and what is there now. Identities only grow, so a file that
compares equal at the end was the same at the flush. `Rests` carries the checks of an
answer to the card, and `Reviewing` a decision to whoever made it.

`AccountProofs` proves the six properties of run `accounts` for any collections, any
number of processes, at once or one after the other, and any number of errors:
`TypesHold`, `CommitsAreWhole`, `FilesAreTracked`, `DeadLeaveRows`, `StopsAreClean`
and `DecisionsStand`. It assumes that a process can start and that the other bounds
are natural numbers. No argument from the lease works: it may lapse under an owner at
work and another process may take the row. But every transaction of a finalizer asks
for the owner, and an owner that was overtaken never is one again. So `Tasks` says
what row and files are at each place of a task only while its process is the owner,
and of the others nothing needs to be known (`Spares`: a step takes no row from an
owner but by making itself the owner). The writer of a stage is the one exception,
because it can hold a file no row knows of. `Lost` describes that writer and why he
does no harm: two processes ran, and whoever closes the row ends its job. `Rows` says
what row, job and files say of each other once the task is gone. `Admissions` says
that a collection is worked on once, by the process that admitted it; hence a job
whose process is dead comes back in nobody's hands, which `Deaths` and `Recoveries`
need. `Closings` follows an active job from the list of `close()` to the request or
the worker that will see the fence, unless an error took it on the way (`dropped`),
which `StopsAreClean` excepts.

`SchemaProofs` proves the four properties of run `schema`, not for the releases the
run starts from but for any `Origins` that are `Released`: `HistoryKept`,
`HistoryServed`, `ClaimsMarked` and `RefusalsKnown`. What one statement may do depends
on the statements before it, and a script can be fifteen statements long; there is no
induction over it. A pair of what is left of a script and a configuration (the disk,
the view and whether a transaction is open) is `Sound` if it belongs to a set of such
pairs in which every step stays and each pair is safe. `Inductive` carries that one
sentence from statement to statement, and each migration has a lemma that its script
is sound from whatever the one before hands over (`Between`), the branches that refuse
included. What the lemmas speak of is `Rest`, which holds of whatever the connection
sees at any statement: rows are in their table or aside, a half-made table is empty,
and each older shape still has the origin that explains it. `Settled` is what a crash
can leave on the disk: marks that the next start accepts or a state of `Torn`, to
which an unguarded table and missing triggers of the binding belong, unless the first
start met a database the program leaves to a person (`Manual`). `Calm` adds that only
a crash leaves a table torn or reviews aside, and `Known` lists what each migration
leaves for those after it. The parts of this invariant were checked with TLC on the
releases and on other released databases before they were proved.

Every safety and action property of the passing runs therefore has a theorem. Only
model-checked is the liveness property `EveryRunSettles`: it needs fairness and
`ENABLED`, which are out of the prover's reach.

## 5. Not modelled

* Frontend, start scripts, release tools, documents: no durable state.
* The adapters for device, browser, CLI and providers, and the bounded process runner:
  one call reads external programs and returns or raises, which is what every service
  module takes of it. Their deadlines and retries lie inside one call; the process
  tree and its pipes belong to the operating system.
* Parsing, validation and wording everywhere; a validation is a reason to fail, and
  where it decides what counts as evidence (`AnalysisRuns`) it is an operator.
* Scoring, prescreening, shop discovery and scope rules: functions of one input each.
* `close()` of the shop worker, the device lock and the scope gates: its cancellations
  are calls of `transition()`, of which `Jobs` has every interleaving, but that a
  close settles all of them is not stated.
* The order of the `close()` calls at the end of the lifespan.
* A second backend on one database, but for `AccountCollection`, whose code has leases
  for it: the start script runs one.
* Statements of SQLite are atomic and serialised at the commit; a torn database file
  is out of scope.
