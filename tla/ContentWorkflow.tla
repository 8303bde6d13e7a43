-------------------------- MODULE ContentWorkflow --------------------------
(***************************************************************************)
(* The life of one content item (features/content/service.py): its         *)
(* revisions, their reviews, the regeneration of a rejected revision by    *)
(* the model, and the export of the approved one.  A regeneration and an   *)
(* export reserve a row, work for minutes outside any transaction and      *)
(* commit by comparing; several requests do so at once.  A commit whose    *)
(* acknowledgement is lost is resolved from what a fresh session reads.  A *)
(* crash loses the requests; a start repairs what they have reserved       *)
(* (db.py).                                                                *)
(*                                                                         *)
(* A revision is its number.  A request makes one call.  Validation of     *)
(* trust may fail whenever it runs.  The rows of the cleanup queue that    *)
(* are reserved and released with a package are in ArtifactCleanup; here   *)
(* they are a reason for which a transaction may fail.                     *)
(***************************************************************************)
EXTENDS Naturals, Sequences

CONSTANTS Requests, None

ASSUME NoneAssumption == None \notin Requests

VARIABLES
    status,    \* content_items.status
    current,   \* content_items.current_revision_id
    revisions, \* the highest content_revisions.number
    reviews,   \* content_reviews, by id
    package,   \* content_packages of the revision: status and build token
    file,      \* what is at the path of a build
    pc,        \* where a request is
    base,      \* the revision it expects
    number,    \* the number of the revision it generates
    attempt,   \* the id of its audit row
    seen,      \* the package it has read
    phase      \* of the process: up, down, or starting with packages repaired

content == <<status, current, revisions, reviews>>
local   == <<base, number, attempt, seen>>
vars    == <<content, package, file, pc, local, phase>>

Regenerating == {"generate", "resolve", "check", "commit", "restore",
                 "unproven", "normalize_1", "normalize_2"}
Building     == {"resolve_package", "write", "finalize", "prove", "fail"}
Places       == Regenerating \union Building \union
                {"new", "read_entries", "look", "reserve", "done", "unknown"}
NoPackage    == [status |-> "none", token |-> None]

Init ==
    /\ status = "none" /\ current = 0 /\ revisions = 0
    /\ reviews = << >>
    /\ package = NoPackage
    /\ file    = [r \in Requests |-> "none"]
    /\ pc      = [r \in Requests |-> "new"]
    /\ base    = [r \in Requests |-> 0]
    /\ number  = [r \in Requests |-> 0]
    /\ attempt = [r \in Requests |-> 0]
    /\ seen    = [r \in Requests |-> NoPackage]
    /\ phase   = "up"

Goto(r, p) == pc' = [pc EXCEPT ![r] = p]
At(r, p)   == pc[r] = p

\* After a commit: the caller learns that it has landed, or an error.
Landed(r, ok, open) == Goto(r, ok) \/ Goto(r, open)

Row(rev, d, o) == [rev |-> rev, decision |-> d, outcome |-> o]
Terminal(rev)  == \E i \in 1..Len(reviews) :
                      reviews[i].rev = rev /\ reviews[i].decision # "regenerate"

(***************************************************************************)
(* create_content_item and review                                          *)
(***************************************************************************)
Create ==
    /\ phase = "up"
    /\ status = "none"
    /\ status' = "review" /\ current' = 1 /\ revisions' = 1
    /\ UNCHANGED <<reviews, package, file, pc, local, phase>>

\* The guarded UPDATE, and the unique index of terminal reviews.
Review(rev, d) ==
    /\ phase = "up"
    /\ status = "review" /\ current = rev
    /\ ~Terminal(rev)
    /\ status'  = IF d = "approve" THEN "approved" ELSE "rejected"
    /\ reviews' = Append(reviews, Row(rev, d, "succeeded"))
    /\ UNCHANGED <<current, revisions, package, file, pc, local, phase>>

(***************************************************************************)
(* regenerate                                                              *)
(***************************************************************************)
ContentOnly == UNCHANGED <<package, file, seen, phase>>
RequestOnly == UNCHANGED <<content, local>> /\ ContentOnly

\* Mutant of Regenerable: the UPDATE compares the revision only.
RegenerableAnyway == status # "none"

\* The guarded UPDATE of the reservation.
Regenerable == status = "rejected"

\* The id of a row that is rolled back is given to the next row.
Reserve(r) ==
    /\ phase = "up"
    /\ At(r, "new")
    /\ Regenerable
    /\ base'    = [base EXCEPT ![r] = current]
    /\ number'  = [number EXCEPT ![r] = revisions + 1]
    /\ attempt' = [attempt EXCEPT ![r] = Len(reviews) + 1]
    /\ \/ /\ status'  = "draft"
          /\ reviews' = Append(reviews, Row(current, "regenerate", "pending"))
          /\ Landed(r, "generate", "resolve")
       \/ /\ UNCHANGED <<status, reviews>>
          /\ Goto(r, "resolve")
    /\ UNCHANGED <<current, revisions>>
    /\ ContentOnly

Exact(r) == /\ attempt[r] \in 1..Len(reviews)
            /\ reviews[attempt[r]].rev = base[r]
            /\ reviews[attempt[r]].decision = "regenerate"

Audit(r, o)   == Exact(r) /\ reviews[attempt[r]].outcome = o
ItemIs(r, s)  == status = s /\ current = base[r]
SetAudit(r, o) == reviews' = [reviews EXCEPT ![attempt[r]].outcome = o]

\* _resolve_regeneration_reservation_commit
Resolve(r) ==
    /\ At(r, "resolve")
    /\ \/ Goto(r, "unknown")                                  \* the read fails
       \/ Goto(r, IF ItemIs(r, "draft") /\ Audit(r, "pending") THEN "generate"
                  ELSE IF ItemIs(r, "rejected") /\ attempt[r] > Len(reviews) THEN "done"
                  ELSE "normalize_1")
    /\ RequestOnly

\* The model call, and _validate_output.
Generate(r) ==
    /\ At(r, "generate")
    /\ Goto(r, "check") \/ Goto(r, "restore")
    /\ RequestOnly

\* The reads of the final transaction.
Check(r) ==
    /\ At(r, "check")
    /\ \/ ItemIs(r, "draft") /\ Goto(r, "commit")
       \/ Goto(r, "restore")
    /\ RequestOnly

\* Mutant of Wins: any audit row of the revision will do.
WinsByRevision(r) == Exact(r)

\* The unique number, and the guarded UPDATE of the audit row.
Wins(r) == number[r] > revisions /\ Audit(r, "pending")

\* The item itself is written without a guard.
Commit(r) ==
    /\ At(r, "commit")
    /\ Wins(r)
    /\ status' = "review" /\ current' = number[r] /\ revisions' = number[r]
    /\ SetAudit(r, "succeeded")
    /\ Landed(r, "done", "restore")
    /\ UNCHANGED local
    /\ ContentOnly

CommitFails(r) ==
    /\ At(r, "commit")
    /\ Goto(r, "restore")
    /\ RequestOnly

\* Both UPDATEs of a failed regeneration.
Rejected(r) == /\ status' = "rejected"
               /\ SetAudit(r, "failed")
               /\ UNCHANGED <<current, revisions, local>>
               /\ ContentOnly

\* _restore_rejected_reservation: both rows, or an error.  A statement that
\* fails, unlike a commit that does, is not resolved.
Restore(r) ==
    /\ At(r, "restore")
    /\ \/ /\ ItemIs(r, "draft") /\ Audit(r, "pending")
          /\ Rejected(r)
          /\ Landed(r, "done", "unproven")
       \/ /\ Goto(r, IF ItemIs(r, "draft") /\ Audit(r, "pending") THEN "unproven" ELSE "done")
          /\ RequestOnly
       \/ Goto(r, "unknown") /\ RequestOnly

\* Mutant of Proven: what is left of the reservation is taken for its end.
ProvenByItem(r) == current = base[r] /\ Exact(r)

\* _regeneration_failure_after_unknown
Proven(r) == ItemIs(r, "rejected") /\ Audit(r, "failed")

Unproven(r) ==
    /\ At(r, "unproven")
    /\ \/ Proven(r) /\ Goto(r, "done")
       \/ Goto(r, "normalize_1")                   \* not proven, or not read
    /\ RequestOnly

\* _normalize_regeneration_failure, twice at most.  Whatever comes of it, the
\* request ends with transaction_unknown.
Normalize(r, try, next) ==
    /\ At(r, try)
    /\ \/ /\ ItemIs(r, "draft") \/ ItemIs(r, "rejected")
          /\ Audit(r, "pending") \/ Audit(r, "failed")
          /\ \/ Rejected(r) /\ Goto(r, "unknown")
             \/ /\ ~(ItemIs(r, "rejected") /\ Audit(r, "failed"))
                /\ Goto(r, next) /\ RequestOnly
       \/ Goto(r, "unknown") /\ RequestOnly        \* other facts, or no read

(***************************************************************************)
(* export_package                                                          *)
(***************************************************************************)
PackageOnly == UNCHANGED <<revisions, current, reviews, base, number, attempt, phase>>
ExportStep  == UNCHANGED <<status, package, file, seen>> /\ PackageOnly

Exportable == status \in {"approved", "exported"}
Mine(r, s) == package = [status |-> s, token |-> r]

\* The first session.
Export(r) ==
    /\ phase = "up"
    /\ At(r, "new")
    /\ Exportable
    /\ \E i \in 1..Len(reviews) : reviews[i].rev = current /\ reviews[i].decision = "approve"
    /\ package.status # "building"
    /\ base' = [base EXCEPT ![r] = current]
    /\ Goto(r, "read_entries")
    /\ UNCHANGED <<content, package, file, number, attempt, seen, phase>>

\* _read_package_entries, deterministic_zip
ReadEntries(r) ==
    /\ At(r, "read_entries")
    /\ Goto(r, "look") \/ Goto(r, "done")
    /\ ExportStep

\* The reads of the second session: a package that is whole is returned.
Look(r) ==
    /\ At(r, "look")
    /\ LET Whole == package.status = "ready" /\ file[package.token] = "good"
       IN  \/ /\ Exportable /\ current = base[r]
              /\ ~Whole /\ package.status # "building"
              /\ seen' = [seen EXCEPT ![r] = package]
              /\ Goto(r, "reserve")
           \/ UNCHANGED seen /\ Goto(r, "done")
    /\ UNCHANGED <<status, package, file>>
    /\ PackageOnly

\* Mutant of Unreserved: the UPDATE compares the id.
UnreservedById(r) == TRUE

\* The guarded UPDATE by status and path, or the unique revision of an INSERT.
Unreserved(r) == package = seen[r]

\* Every build has a path of its own.
ReservePackage(r) ==
    /\ At(r, "reserve")
    /\ \/ /\ Unreserved(r)
          /\ package' = [status |-> "building", token |-> r]
          /\ Landed(r, "write", "resolve_package")
       \/ /\ Unreserved(r) /\ Goto(r, "resolve_package")     \* not landed
          /\ UNCHANGED package
       \/ Goto(r, "done") /\ UNCHANGED package              \* refused
    /\ UNCHANGED <<status, file, seen>>
    /\ PackageOnly

\* _package_reservation_after_unknown
ResolvePackage(r) ==
    /\ At(r, "resolve_package")
    /\ \/ Mine(r, "building") /\ Goto(r, "write")
       \/ package = seen[r] /\ Goto(r, "done")
       \/ Goto(r, "unknown")
    /\ ExportStep

\* write_contained_atomic
Write(r) ==
    /\ At(r, "write")
    /\ \/ file' = [file EXCEPT ![r] = "good"] /\ Goto(r, "finalize")
       \/ /\ \E c \in {"none", "good", "bad"} : file' = [file EXCEPT ![r] = c]
          /\ Goto(r, "fail")
    /\ UNCHANGED <<status, package, seen>>
    /\ PackageOnly

\* The guarded UPDATEs of the last transaction.
Finalizable(r) == Mine(r, "building") /\ Exportable /\ current = base[r]

Finalize(r) ==
    /\ At(r, "finalize")
    /\ Finalizable(r)
    /\ package' = [status |-> "ready", token |-> r]
    /\ status'  = "exported"
    /\ Landed(r, "done", "prove")
    /\ UNCHANGED <<file, seen>>
    /\ PackageOnly

\* The commit does not land, or the transaction is refused: the trust, the
\* package or its cleanup row has changed.
FinalizeFails(r) ==
    /\ At(r, "finalize")
    /\ (Finalizable(r) /\ Goto(r, "prove")) \/ Goto(r, "fail")
    /\ ExportStep

\* _package_after_unknown
Prove(r) ==
    /\ At(r, "prove")
    /\ \/ Mine(r, "ready") /\ ItemIs(r, "exported") /\ Goto(r, "done")
       \/ Goto(r, "fail")
    /\ ExportStep

\* The guarded UPDATE of _fail_package_reservation.  The transaction also makes
\* the cleanup row due; when that row is gone, or the commit cannot be proven,
\* the request ends with transaction_unknown.
Fail(r) ==
    /\ At(r, "fail")
    /\ IF Mine(r, "building")
       THEN \/ package' = [package EXCEPT !.status = "failed"] /\ Landed(r, "done", "unknown")
            \/ UNCHANGED package /\ Goto(r, "unknown")
       ELSE UNCHANGED package /\ (Goto(r, "done") \/ Goto(r, "unknown"))
    /\ UNCHANGED <<status, file, seen>>
    /\ PackageOnly

\* Somebody changes or removes a file.
Corrupt(r) ==
    /\ file[r] = "good"
    /\ file' = [file EXCEPT ![r] = "bad"]
    /\ UNCHANGED <<content, package, pc, local, phase>>

(***************************************************************************)
(* Crash and start                                                         *)
(***************************************************************************)
Crash ==
    /\ phase' = "down"
    /\ phase # "down"
    /\ pc' = [r \in Requests |-> IF pc[r] = "new" THEN "new" ELSE "done"]
    /\ UNCHANGED <<content, package, file, local>>

\* _recover_stranded_content_packages
RecoverPackages ==
    /\ phase = "down"
    /\ phase'   = "packages"
    /\ package' = IF package.status = "building" THEN [package EXCEPT !.status = "failed"]
                                                 ELSE package
    /\ UNCHANGED <<content, file, pc, local>>

Stranded(row) == /\ row.decision = "regenerate" /\ row.outcome = "pending"
                 /\ status = "draft" /\ row.rev = current

\* The second UPDATE of _recover_stranded_content_regenerations goes by what
\* the first has made of the rows.
RecoverRegenerations ==
    /\ phase = "packages"
    /\ phase'   = "up"
    /\ reviews' = [i \in 1..Len(reviews) |->
                      IF Stranded(reviews[i]) THEN [reviews[i] EXCEPT !.outcome = "failed"]
                                              ELSE reviews[i]]
    /\ status'  = IF status = "draft" /\ \E i \in 1..Len(reviews) :
                        reviews'[i] = Row(current, "regenerate", "failed")
                  THEN "rejected" ELSE status
    /\ UNCHANGED <<current, revisions, package, file, pc, local>>

(***************************************************************************)
(* Specification                                                           *)
(***************************************************************************)
Regenerate(r) ==
    \/ Reserve(r) \/ Resolve(r) \/ Generate(r) \/ Check(r)
    \/ Commit(r) \/ CommitFails(r) \/ Restore(r) \/ Unproven(r)
    \/ Normalize(r, "normalize_1", "normalize_2")
    \/ Normalize(r, "normalize_2", "unknown")

ExportPackage(r) ==
    \/ Export(r) \/ ReadEntries(r) \/ Look(r)
    \/ ReservePackage(r) \/ ResolvePackage(r)
    \/ Write(r) \/ Finalize(r) \/ FinalizeFails(r) \/ Prove(r) \/ Fail(r)

Next ==
    \/ Create
    \/ \E rev \in 1..revisions, d \in {"approve", "reject"} : Review(rev, d)
    \/ \E r \in Requests : Regenerate(r) \/ ExportPackage(r) \/ Corrupt(r)
    \/ Crash \/ RecoverPackages \/ RecoverRegenerations

Spec == Init /\ [][Next]_vars
-----------------------------------------------------------------------------
(***************************************************************************)
(* Properties                                                              *)
(***************************************************************************)
Rows(d, o) == {i \in 1..Len(reviews) : reviews[i].decision = d /\ reviews[i].outcome = o}

\* Every variable keeps its type.
TypeOK ==
    /\ status    \in {"none", "review", "draft", "rejected", "approved", "exported"}
    /\ current   \in Nat
    /\ revisions \in Nat
    /\ reviews   \in Seq([rev : Nat, decision : {"approve", "reject", "regenerate"},
                          outcome : {"pending", "succeeded", "failed"}])
    /\ package   \in [status : {"none", "building", "ready", "failed"},
                      token  : Requests \union {None}]
    /\ file      \in [Requests -> {"none", "good", "bad"}]
    /\ pc        \in [Requests -> Places]
    /\ base      \in [Requests -> Nat]
    /\ number    \in [Requests -> Nat]
    /\ attempt   \in [Requests -> Nat]
    /\ seen      \in [Requests -> [status : {"none", "building", "ready", "failed"},
                                   token  : Requests \union {None}]]
    /\ phase     \in {"up", "down", "packages"}

\* The variables keep their types.  The newest revision is the current one; each
\* earlier one was rejected and replaced by exactly one successful regeneration
\* of it; a decided item has the decision on record, and a draft an open attempt
\* on its current revision.  Two requests that both hold the same attempt,
\* because its id was given twice, change nothing about it.
HistoryIsConsistent ==
    /\ TypeOK
    /\ current = revisions
    /\ \A n \in 1..revisions :
          n < revisions =>
              /\ \E i \in Rows("reject", "succeeded") : reviews[i].rev = n
              /\ \E i \in Rows("regenerate", "succeeded") :
                    \A j \in Rows("regenerate", "succeeded") :
                        (reviews[j].rev = n) <=> (j = i)
    /\ status \in {"approved", "exported"} =>
          \E i \in Rows("approve", "succeeded") : reviews[i].rev = current
    /\ status \in {"rejected", "draft"} =>
          \E i \in Rows("reject", "succeeded") : reviews[i].rev = current
    /\ status = "draft" =>
          \E i \in Rows("regenerate", "pending") : reviews[i].rev = current

\* While the process serves, a draft and a package under construction are in
\* the hands of a request, or one has ended with an error that says so
\* (transaction_unknown, or the database's own): no failed or unacknowledged
\* commit, no two requests with one attempt, and no crash strands them silently.
ReservationsAreCarried ==
    phase = "up" =>
        /\ status = "draft" => \E r \in Requests : pc[r] \in Regenerating \union {"unknown"}
        /\ package.status = "building" =>
              \E r \in Requests : /\ package.token = r
                                  /\ pc[r] \in Building \union {"unknown"}

\* One request at a time builds; a package is ready only with its own file and
\* only for an item that is exported, and an item is exported only when its
\* package has been ready.
PackageIsWhole ==
    /\ \A r1, r2 \in Requests :
          pc[r1] \in {"write", "finalize"} /\ pc[r2] \in {"write", "finalize"} => r1 = r2
    /\ package.status = "ready" => status = "exported" /\ file[package.token] # "none"
    /\ status = "exported" => package.token # None
    /\ package # NoPackage => status \in {"approved", "exported"}

\* An approved item keeps its revision and stays approved or exported, and a
\* package that is ready is rebuilt, never failed: late regenerations, failed
\* builders and proofs that cannot be read take nothing back.
NothingIsTakenBack ==
    [][/\ status \in {"approved", "exported"} =>
              status' \in {"approved", "exported"} /\ current' = current
       /\ package.status = "ready" => package'.status # "failed"]_vars

\* Restoration and normalisation match "the original item, current revision and
\* regeneration attempt before changing any row" (task-8-report.md:1076): what
\* they end is their own reservation, so that an open attempt still has its draft.
OpenAttemptHasItsDraft ==
    \A i \in Rows("regenerate", "pending") : status = "draft" /\ reviews[i].rev = current
=============================================================================
