--------------------------- MODULE ArtifactCleanup ---------------------------
(***************************************************************************)
(* Managed artifact files and their removal: the outbox rows that content  *)
(* writers reserve before they write a file (features/content/service.py), *)
(* the lease-driven quarantine and the final deletion                      *)
(* (features/content/cleanup.py), the two recoveries of a start (db.py,    *)
(* main.py), and the person or program that changes a file behind them.    *)
(*                                                                         *)
(* A row stands for one managed path with its open cleanup record, the     *)
(* material or package generation that owns it, and the two places its     *)
(* bytes can be in.  The workers are processes on one database: each       *)
(* commit, each look at the file system and each rename is a step.         *)
(***************************************************************************)
CONSTANTS Rows,     \* managed paths
          Workers,  \* processes that run the cleanup worker
          None      \* no row, no worker

ASSUME RowsAssumption    == None \notin Rows
ASSUME WorkersAssumption == None \notin Workers

VARIABLES
    state,   \* artifact_gc_queue.state, "absent" before the row exists
    type,    \* its owner_type
    due,     \* the rows whose not_before has passed
    token,   \* the worker whose lease_token the row carries
    live,    \* the rows whose lease_expires_at has not passed
    moved,   \* the rows with quarantine_path and quarantine identity recorded
    owner,   \* the material or package generation of the path
    alias,   \* the paths some other material or package row refers to
    orig,    \* what is at relative_path: the expected bytes, other bytes
    quar,    \* what is at artifacts-quarantine/<row>/<name>
    writer,  \* what the request that creates the artifact is about to do
    pc,      \* where each worker is in process_one
    row,     \* the row it processes
    owned,   \* the rows of its batch, claimed and not yet processed
    saw,     \* what its last look at a file showed
    stop,    \* the workers whose shutdown was requested
    lock     \* the worker in BEGIN IMMEDIATE with the deletion armed

record == <<state, type, due, token, live, moved>>
facts  == <<owner, alias>>
disk   == <<orig, quar>>
local  == <<pc, row, owned, saw>>
vars   == <<record, facts, disk, writer, local, stop, lock>>

States    == {"absent", "pending", "claimed", "quarantined", "needs_human",
              "deleted", "cancelled"}
OpenStates == {"pending", "claimed", "quarantined", "needs_human"}
Types      == {"material", "content_package"}
Claimable  == {"pending", "quarantined"}
Contents   == {"missing", "bytes", "other"}

\* process_one, before and after the artifact is in quarantine.
Quarantining == {"look", "target", "issue", "verify", "move", "moved", "commit"}
Deleting     == {"look_original", "look_quarantine", "references", "handle", "arm"}
Outcomes     == {"human", "moved_human", "missing"}
Processing   == Quarantining \union Deleting \union Outcomes
Places       == Processing \union {"down", "poll", "batch", "renamed", "shutdown",
                                   "armed", "stopped"}

Init ==
    /\ state  = [r \in Rows |-> "absent"]
    /\ type   \in [Rows -> Types]
    /\ due    = {}
    /\ token  = [r \in Rows |-> None]
    /\ live   = {}
    /\ moved  = {}
    /\ owner  = [r \in Rows |-> "none"]
    /\ alias  = {}
    /\ orig   = [r \in Rows |-> "missing"]
    /\ quar   = [r \in Rows |-> "missing"]
    /\ writer = [r \in Rows |-> "none"]
    /\ pc     = [w \in Workers |-> "poll"]
    /\ row    = [w \in Workers |-> None]
    /\ owned  = [w \in Workers |-> {}]
    /\ saw    = [w \in Workers |-> "missing"]
    /\ stop   = {}
    /\ lock   = None

\* SQLite admits one writer; the others wait.
CanWrite == lock = None

(***************************************************************************)
(* The writers: add_material and export_package.                           *)
(***************************************************************************)
WriterOnly == UNCHANGED <<type, token, live, alias, quar, local, stop, lock>>

IsPackage(r) == type[r] = "content_package"

\* The reservation, with not_before a day ahead; a package is "building".
Reserve(r) ==
    /\ CanWrite
    /\ state[r] = "absent"
    /\ state'  = [state EXCEPT ![r] = "pending"]
    /\ owner'  = [owner EXCEPT ![r] = IF IsPackage(r) THEN "building" ELSE "none"]
    /\ writer' = [writer EXCEPT ![r] = "write"]
    /\ UNCHANGED <<due, moved, orig>>
    /\ WriterOnly

\* write_contained_atomic, which never overwrites; a failure may leave what it
\* has written.
Write(r) ==
    /\ writer[r] = "write"
    /\ \/ /\ orig[r] = "missing"
          /\ orig'   = [orig EXCEPT ![r] = "bytes"]
          /\ writer' = [writer EXCEPT ![r] = "bind"]
       \/ /\ \/ UNCHANGED orig
             \/ /\ orig[r] = "missing"
                /\ \E c \in {"bytes", "other"} : orig' = [orig EXCEPT ![r] = c]
          /\ writer' = [writer EXCEPT ![r] = "give_up"]
    /\ UNCHANGED <<state, due, moved, owner>>
    /\ WriterOnly

\* The guarded UPDATEs of the final transaction: the package is still of this
\* build, and the reservation is still pending.
Bindable(r) == /\ IsPackage(r) => owner[r] = "building"
               /\ state[r] = "pending"

Bind(r) ==
    /\ CanWrite
    /\ writer[r] = "bind"
    /\ Bindable(r)
    /\ state'  = [state EXCEPT ![r] = "cancelled"]
    /\ owner'  = [owner EXCEPT ![r] = "live"]
    /\ writer' = [writer EXCEPT ![r] = "none"]
    /\ UNCHANGED <<due, moved, orig>>
    /\ WriterOnly

\* The transaction does not take effect.
BindFails(r) ==
    /\ writer[r] = "bind"
    /\ writer' = [writer EXCEPT ![r] = "give_up"]
    /\ UNCHANGED <<state, due, moved, owner, orig>>
    /\ WriterOnly

\* _fail_package_reservation and _make_material_cleanup_due: both UPDATEs, or
\* neither when one of them finds the row changed.
GivesUp(r) ==
    IF state[r] = "pending" /\ (IsPackage(r) => owner[r] = "building")
    THEN /\ owner' = [owner EXCEPT ![r] = IF IsPackage(r) THEN "failed" ELSE @]
         /\ due'   = due \union {r}
         /\ UNCHANGED state
    ELSE UNCHANGED <<state, due, owner>>

GiveUp(r) ==
    /\ CanWrite
    /\ writer[r] = "give_up"
    /\ writer' = [writer EXCEPT ![r] = "none"]
    /\ GivesUp(r)
    /\ UNCHANGED <<moved, orig>>
    /\ WriterOnly

\* Its process dies, or the database fails GiveUp as well.
WriterDies(r) ==
    /\ writer[r] # "none"
    /\ writer' = [writer EXCEPT ![r] = "none"]
    /\ UNCHANGED <<state, due, moved, owner, orig>>
    /\ WriterOnly

\* enqueue_in_session of a path that had a row: the open one, or a new one.
Enqueued(r) ==
    IF state[r] \in OpenStates
    THEN UNCHANGED <<state, moved>>
    ELSE /\ state' = [state EXCEPT ![r] = "pending"]
         /\ moved' = moved \ {r}

\* A rebuild moves the package to a fresh path; this one is to be removed now.
Replace(r) ==
    /\ CanWrite
    /\ IsPackage(r)
    /\ owner[r] \in {"live", "failed"}
    /\ Enqueued(r)
    /\ due'   = IF state[r] \in OpenStates THEN due ELSE due \union {r}
    /\ owner' = [owner EXCEPT ![r] = "none"]
    /\ UNCHANGED <<writer, orig>>
    /\ WriterOnly

(***************************************************************************)
(* What happens around them                                                *)
(***************************************************************************)
\* Another row comes to refer to the path.  The triggers refuse this for the
\* quarantine path only.
Refer(r) ==
    /\ CanWrite
    /\ alias' = alias \union {r}
    /\ UNCHANGED <<record, owner, disk, writer, local, stop, lock>>

HandleOpen(r) == \E w \in Workers : row[w] = r /\ pc[w] \in {"arm", "armed"}

\* A file is changed by somebody else; an open delete handle prevents that.
Tamper(r) ==
    /\ \/ orig[r] # "other" /\ orig' = [orig EXCEPT ![r] = "other"] /\ UNCHANGED quar
       \/ /\ quar[r] = "bytes"
          /\ ~HandleOpen(r)
          /\ quar' = [quar EXCEPT ![r] = "other"]
          /\ UNCHANGED orig
    /\ UNCHANGED <<record, facts, writer, local, stop, lock>>

\* not_before passes.  It is a day ahead; a file is written sooner, but its
\* database transaction may come later than that.
BecomeDue(r) ==
    /\ state[r] \in Claimable
    /\ r \notin due
    /\ writer[r] # "write"
    /\ due' = due \union {r}
    /\ UNCHANGED <<state, type, token, live, moved, facts, disk, writer, local, stop, lock>>

\* A lease of five minutes passes.
Expire(r) ==
    /\ r \in live
    /\ live' = live \ {r}
    /\ UNCHANGED <<state, type, due, token, moved, facts, disk, writer, local, stop, lock>>

(***************************************************************************)
(* The cleanup worker: run_due_once                                        *)
(***************************************************************************)
WorkerOnly == UNCHANGED <<facts, writer, stop>>
LookOnly   == UNCHANGED <<record, disk, lock>> /\ WorkerOnly
WriteOnly  == UNCHANGED <<disk, lock>> /\ WorkerOnly

Goto(w, p) == pc' = [pc EXCEPT ![w] = p] /\ UNCHANGED <<row, owned, saw>>

\* The lease check of every look, and the WHERE clause of every UPDATE.
Owned(w, r) == state[r] = "claimed" /\ token[r] = w /\ r \in live

Ref(r) == owner[r] \in {"building", "live"} \/ r \in alias

\* Mutant of Release: the lease columns are not cleared.
ReleaseKeepsLease(r, t) == /\ state' = [state EXCEPT ![r] = t]
                           /\ UNCHANGED <<type, token, live>>

\* The row leaves the worker's lease for state t.
Release(r, t) == /\ state' = [state EXCEPT ![r] = t]
                 /\ token' = [token EXCEPT ![r] = None]
                 /\ live'  = live \ {r}
                 /\ UNCHANGED type

\* _claim_specific, for the rows of claim_due.
Claim(w, r) ==
    /\ CanWrite
    /\ pc[w] = "poll"
    /\ w \notin stop
    /\ state[r] \in Claimable
    /\ r \in due
    /\ state' = [state EXCEPT ![r] = "claimed"]
    /\ token' = [token EXCEPT ![r] = w]
    /\ live'  = live \union {r}
    /\ owned' = [owned EXCEPT ![w] = @ \union {r}]
    /\ UNCHANGED <<type, due, moved, pc, row, saw>>
    /\ WriteOnly

BeginBatch(w) ==
    /\ pc[w] = "poll"
    /\ owned[w] # {}
    /\ Goto(w, "batch")
    /\ LookOnly

\* process_one of the next row: _load_claimed goes by state and token.
Take(w, r) ==
    /\ pc[w] = "batch"
    /\ r \in owned[w]
    /\ owned' = [owned EXCEPT ![w] = @ \ {r}]
    /\ row'   = [row EXCEPT ![w] = r]
    /\ pc'    = [pc EXCEPT ![w] =
                   IF ~(state[r] = "claimed" /\ token[r] = w) THEN "batch"
                   ELSE IF r \in moved THEN "look_original" ELSE "look"]
    /\ UNCHANGED saw
    /\ LookOnly

EndBatch(w) ==
    /\ pc[w] = "batch"
    /\ owned[w] = {}
    /\ pc'  = [pc EXCEPT ![w] = "poll"]
    /\ row' = [row EXCEPT ![w] = None]
    /\ UNCHANGED <<owned, saw>>
    /\ LookOnly

\* A step of the worker on its row that only reads: it goes on at p, and
\* remembers what it saw.
Step(w, from, p, s) ==
    /\ pc[w] = from
    /\ pc'  = [pc EXCEPT ![w] = p]
    /\ saw' = [saw EXCEPT ![w] = s]
    /\ UNCHANGED <<row, owned>>
    /\ LookOnly

\* _quarantine, up to the rename.
Look(w) == Step(w, "look", "target", orig[row[w]])

\* Mutant of AfterTarget: a file already in quarantine is not noticed.
AfterTargetBlind(w) == IF saw[w] = "other" THEN "human" ELSE "issue"

AfterTarget(w) ==
    IF quar[row[w]] # "missing"
    THEN IF quar[row[w]] = "bytes" /\ saw[w] = "missing" /\ Owned(w, row[w])
         THEN "moved_human" ELSE "human"
    ELSE IF saw[w] = "other" THEN "human" ELSE "issue"

Target(w) == Step(w, "target", AfterTarget(w), saw[w])

AfterIssue(w) ==
    IF ~Owned(w, row[w]) THEN "batch"
    ELSE IF Ref(row[w]) THEN "human"
    ELSE IF saw[w] = "missing" THEN "missing" ELSE "verify"

Issue(w) == Step(w, "issue", AfterIssue(w), saw[w])

Verify(w) ==
    Step(w, "verify",
         IF orig[row[w]] = "bytes" /\ Owned(w, row[w]) THEN "move" ELSE "human",
         saw[w])

\* rename_contained_regular_to_directory, bound to the identity of the file.
Move(w) ==
    LET r == row[w] IN
    /\ pc[w] = "move"
    /\ IF orig[r] = "bytes" /\ quar[r] = "missing"
       THEN /\ orig' = [orig EXCEPT ![r] = "missing"]
            /\ quar' = [quar EXCEPT ![r] = "bytes"]
            /\ Goto(w, "renamed")
       ELSE Goto(w, "human") /\ UNCHANGED disk
    /\ UNCHANGED <<record, lock>>
    /\ WorkerOnly

\* The first check for a shutdown after the rename.
Renamed(w) == Step(w, "renamed", IF w \in stop THEN "shutdown" ELSE "moved", saw[w])

Moved(w) ==
    Step(w, "moved",
         IF quar[row[w]] = "bytes" /\ ~Ref(row[w]) /\ Owned(w, row[w])
         THEN "commit" ELSE "moved_human",
         saw[w])

\* The final UPDATE, which finds the lease lost or does not take effect.
CommitQuarantine(w) ==
    LET r == row[w] IN
    /\ CanWrite
    /\ pc[w] = "commit"
    /\ \/ /\ Owned(w, r)
          /\ Release(r, "quarantined")
          /\ moved' = moved \union {r}
          /\ due'   = due \ {r}
          /\ Goto(w, "batch")
       \/ Goto(w, "moved_human") /\ UNCHANGED record
    /\ WriteOnly

\* _record_shutdown_after_atomic_move, whoever holds the lease by now.
RecordShutdown(w) ==
    LET r == row[w] IN
    /\ CanWrite
    /\ pc[w] = "shutdown"
    /\ Goto(w, "stopped")
    /\ IF state[r] \in {"pending", "claimed"} /\ r \notin moved
       THEN Release(r, "needs_human") /\ moved' = moved \union {r} /\ UNCHANGED due
       ELSE UNCHANGED record
    /\ WriteOnly

\* _needs_human, _mark_moved_needs_human, _mark_deleted: nothing happens to a
\* row whose lease is lost.
Decide(w, from, t) ==
    LET r == row[w] IN
    /\ CanWrite
    /\ pc[w] = from
    /\ Goto(w, "batch")
    /\ IF Owned(w, r)
       THEN /\ Release(r, t)
            /\ moved' = IF from = "moved_human" THEN moved \union {r} ELSE moved
            /\ UNCHANGED due
       ELSE UNCHANGED record
    /\ WriteOnly

(***************************************************************************)
(* _delete_quarantined                                                     *)
(***************************************************************************)
LookOriginal(w) ==
    Step(w, "look_original",
         IF ~Owned(w, row[w]) THEN "batch"
         ELSE IF orig[row[w]] # "missing" THEN "human" ELSE "look_quarantine",
         saw[w])

LookQuarantine(w) ==
    Step(w, "look_quarantine",
         IF quar[row[w]] = "other" THEN "human" ELSE "references",
         quar[row[w]])

References(w) ==
    Step(w, "references",
         IF Ref(row[w]) THEN "human"
         ELSE IF saw[w] = "missing" THEN "missing"
         ELSE IF Owned(w, row[w]) THEN "handle" ELSE "batch",
         saw[w])

\* open_contained_delete_handle, bound to the identity of the file.
OpenHandle(w) ==
    Step(w, "handle",
         IF quar[row[w]] = "bytes" /\ orig[row[w]] = "missing" THEN "arm" ELSE "human",
         saw[w])

\* Mutant of Authorized: the references are not read again under the lock.
AuthorizedByLease(w) == Owned(w, row[w])

\* The lease and the references, read again under the lock.
Authorized(w) == Owned(w, row[w]) /\ ~Ref(row[w])

\* BEGIN IMMEDIATE, the checks, and the delete disposition of the handle.  Any
\* change to the references of any row refuses as well.
Arm(w) ==
    /\ CanWrite
    /\ pc[w] = "arm"
    /\ \/ Authorized(w) /\ lock' = w /\ Goto(w, "armed")
       \/ UNCHANGED lock /\ Goto(w, "human")
    /\ UNCHANGED <<record, disk>>
    /\ WorkerOnly

Erase(r) == quar' = [quar EXCEPT ![r] = "missing"] /\ UNCHANGED orig

\* The commit, and the handle is closed.
CommitDelete(w) ==
    /\ pc[w] = "armed"
    /\ lock' = None
    /\ Release(row[w], "deleted")
    /\ Erase(row[w])
    /\ Goto(w, "batch")
    /\ UNCHANGED <<due, moved>>
    /\ WorkerOnly

\* The commit fails, or a shutdown is noticed: the disposition is taken back;
\* when that fails, or the commit had taken effect, the ambiguity is committed.
Disarm(w) ==
    /\ pc[w] = "armed"
    /\ lock' = None
    /\ \/ /\ Goto(w, IF w \in stop THEN "stopped" ELSE "batch")
          /\ UNCHANGED <<record, disk>>
       \/ /\ Goto(w, "batch")
          /\ Release(row[w], "needs_human")
          /\ Erase(row[w]) \/ UNCHANGED disk
          /\ UNCHANGED <<due, moved>>
    /\ WorkerOnly

\* An OSError or ValueError of any step gives the row to a person.
Raise(w) ==
    /\ pc[w] \in Quarantining \union Deleting
    /\ Goto(w, "human")
    /\ LookOnly

\* A database error leaves process_one and run_due_once; the rest of the batch
\* is forgotten.
DatabaseError(w) ==
    /\ pc[w] \in Processing
    /\ pc'    = [pc EXCEPT ![w] = "poll"]
    /\ row'   = [row EXCEPT ![w] = None]
    /\ owned' = [owned EXCEPT ![w] = {}]
    /\ UNCHANGED saw
    /\ LookOnly

(***************************************************************************)
(* Shutdown, crash and start                                               *)
(***************************************************************************)
Close(w) ==
    /\ pc[w] \notin {"down", "stopped"}
    /\ w \notin stop
    /\ stop' = stop \union {w}
    /\ UNCHANGED <<record, facts, disk, writer, local, lock>>

\* The worker notices it.
Notice(w) ==
    /\ w \in stop
    /\ pc[w] \in Processing \union {"poll", "batch"}
    /\ Goto(w, "stopped")
    /\ LookOnly

\* The process ends.  The operating system closes the handle, which deletes
\* the file if it is armed; SQLite rolls back.
Crash(w) ==
    /\ pc[w] # "down"
    /\ pc'    = [pc EXCEPT ![w] = "down"]
    /\ row'   = [row EXCEPT ![w] = None]
    /\ owned' = [owned EXCEPT ![w] = {}]
    /\ saw'   = [saw EXCEPT ![w] = "missing"]
    /\ stop'  = stop \ {w}
    /\ IF lock = w THEN lock' = None /\ Erase(row[w]) ELSE UNCHANGED <<lock, disk>>
    /\ UNCHANGED <<record, facts, writer>>

\* Where recover_expired_leases puts an expired claim.
RecoveredState(r) == IF r \in moved THEN "quarantined" ELSE "pending"

Building == {r \in Rows : owner[r] = "building"}

\* _recover_stranded_content_packages, which raises unless every building
\* package has a pending row or gets one, and then recover_expired_leases.  One backend
\* is started at a time (run-local.ps1), so that no request is being served.
Start(w) ==
    LET Expired == {r \in Rows : state[r] = "claimed" /\ r \notin live} IN
    /\ CanWrite
    /\ pc[w] = "down"
    /\ \A r \in Rows : writer[r] = "none"
    /\ \A r \in Building : state[r] \notin OpenStates \ {"pending"}
    /\ pc'    = [pc EXCEPT ![w] = "poll"]
    /\ owner' = [r \in Rows |-> IF r \in Building THEN "failed" ELSE owner[r]]
    /\ due'   = due \union Building
    /\ state' = [r \in Rows |-> IF r \in Building THEN "pending"
                                ELSE IF r \in Expired THEN RecoveredState(r)
                                ELSE state[r]]
    /\ token' = [r \in Rows |-> IF r \in Expired THEN None ELSE token[r]]
    /\ UNCHANGED <<type, live, moved, alias, disk, writer, row, owned, saw, stop, lock>>

(***************************************************************************)
(* Specification                                                           *)
(***************************************************************************)
Content(r) ==
    \/ Reserve(r) \/ Write(r) \/ Bind(r) \/ BindFails(r) \/ GiveUp(r)
    \/ WriterDies(r)
    \/ Replace(r)

Around(r) == Refer(r) \/ Tamper(r) \/ BecomeDue(r) \/ Expire(r)

Process(w) ==
    \/ \E r \in Rows : Claim(w, r) \/ Take(w, r)
    \/ BeginBatch(w) \/ EndBatch(w)
    \/ Look(w) \/ Target(w) \/ Issue(w) \/ Verify(w)
    \/ Move(w) \/ Renamed(w) \/ Moved(w)
    \/ CommitQuarantine(w) \/ RecordShutdown(w)
    \/ Decide(w, "human", "needs_human")
    \/ Decide(w, "moved_human", "needs_human")
    \/ Decide(w, "missing", "deleted")
    \/ LookOriginal(w) \/ LookQuarantine(w) \/ References(w) \/ OpenHandle(w)
    \/ Arm(w) \/ CommitDelete(w) \/ Disarm(w)
    \/ Notice(w)

Next ==
    \/ \E r \in Rows : Content(r) \/ Around(r)
    \/ \E w \in Workers :
          Process(w) \/ Raise(w) \/ DatabaseError(w) \/ Close(w) \/ Crash(w) \/ Start(w)

Spec == Init /\ [][Next]_vars
-----------------------------------------------------------------------------
(***************************************************************************)
(* Properties                                                              *)
(***************************************************************************)

\* A row carries a lease token exactly while it is claimed, however its claim
\* ended: recovery and every compare-and-set go by the token.
TokenMeansClaimed ==
    \A r \in Rows : /\ (token[r] # None) <=> (state[r] = "claimed")
                    /\ r \in live => state[r] = "claimed"

\* Every variable keeps its type, and the token goes with the claim.
TypeOK ==
    /\ state  \in [Rows -> States]
    /\ type   \in [Rows -> Types]
    /\ due    \subseteq Rows
    /\ token  \in [Rows -> Workers \union {None}]
    /\ live   \subseteq Rows
    /\ moved  \subseteq Rows
    /\ owner  \in [Rows -> {"none", "building", "failed", "live"}]
    /\ alias  \subseteq Rows
    /\ orig   \in [Rows -> Contents]
    /\ quar   \in [Rows -> Contents]
    /\ writer \in [Rows -> {"none", "write", "bind", "give_up"}]
    /\ pc     \in [Workers -> Places]
    /\ row    \in [Workers -> Rows \union {None}]
    /\ owned  \in [Workers -> SUBSET Rows]
    /\ saw    \in [Workers -> Contents]
    /\ stop   \subseteq Workers
    /\ lock   \in Workers \union {None}
    /\ TokenMeansClaimed

\* Bytes in quarantine stay the business of an open row, and a row that says
\* deleted has no bytes left in either place: no two workers, no crash between
\* the rename and its commit, and no shutdown lose track of a moved file.
MovedBytesAreTracked ==
    \A r \in Rows :
        /\ quar[r] = "bytes" => state[r] \in OpenStates
        /\ state[r] = "deleted" => quar[r] # "bytes" /\ orig[r] # "bytes"

\* Bytes at a managed path that nothing refers to have an open row: no failed
\* write, lost build or replaced package leaves a file nobody will remove.
LooseBytesAreQueued ==
    \A r \in Rows : orig[r] = "bytes" /\ ~Ref(r) => state[r] \in OpenStates

\* No byte of a managed path is lost sight of, in its place or in quarantine.
BytesAreTracked == MovedBytesAreTracked /\ LooseBytesAreQueued

\* Whoever writes, refers, tampers or dies between two looks of a worker: the file of
\* a bound artifact is never taken away, and bytes are erased only from quarantine and
\* only while no material or package row refers to them.
WantedBytesStay ==
    [][\A r \in Rows :
           /\ owner[r] = "live" /\ orig[r] = "bytes" => orig'[r] # "missing"
           /\ quar[r] = "bytes" /\ quar'[r] = "missing" => ~Ref(r) /\ r \in moved]_vars

\* "Leftover building packages become failed" at a start (quarantine design,
\* section 8).  A start raises while the row of one is with a person.
LeftoverBuildsAreRecoverable ==
    \A r \in Building : writer[r] = "none" => state[r] # "needs_human"
=============================================================================
