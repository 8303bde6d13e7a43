----------------------------- MODULE SchemaStart -----------------------------
(***************************************************************************)
(* Database.initialize (db.py): what a start does to a database that some  *)
(* release of the program left behind, statement by statement.             *)
(*                                                                         *)
(* The driver opens a transaction before the first INSERT, UPDATE or       *)
(* DELETE, never before DDL.  So the CREATE, ALTER and DROP statements of a *)
(* migration are durable one by one until it writes its first row, and all *)
(* or nothing from there to the commit.  A process may die between any two *)
(* statements, and the next start meets what is on the disk.               *)
(*                                                                         *)
(* A table is a shape and whether the rows of its history are in it; the   *)
(* contents of the rows are taken to satisfy their validators.             *)
(***************************************************************************)
EXTENDS Naturals, Sequences

CONSTANT Origins  \* the databases the first start may meet

\* The shapes of each table, from absent over those a start leaves half done to the
\* one the program has now.  A table is unguarded when it is as it was but for its
\* triggers and indexes.  The triggers that freeze the facts of the accounts are one
\* more table, without rows: first those of the binding, then those of the snapshots.
Forms ==
    [artifacts     |-> {"none", "plain", "produced"},
     analyses      |-> {"none", "bare", "scoped", "sealed"},
     opportunities |-> {"none", "plain", "part", "graded"},
     content       |-> {"none", "old", "whole"},
     reviews       |-> {"none", "torn", "old", "plain", "audited"},
     queue         |-> {"none", "torn", "base", "part", "widened", "identified", "tokened", "token"},
     notes         |-> {"none", "torn", "unguarded", "weak", "evidence", "permanent", "canonical",
                        "versioned"},
     snapshots     |-> {"none", "whole"},
     facts         |-> {"none", "bound", "sealed"},
     journal       |-> {"none", "torn", "unguarded", "v1", "v2"},
     media         |-> {"none", "torn", "whole"}]
HalfDone == {"torn", "unguarded", "part", "widened", "tokened"}
Table    == DOMAIN Forms

\* The shape that Base.metadata gives a table.
Current ==
    [artifacts |-> "produced", analyses |-> "sealed", opportunities |-> "graded",
     content |-> "whole", reviews |-> "audited", queue |-> "token", notes |-> "versioned",
     snapshots |-> "whole", facts |-> "sealed", journal |-> "v2", media |-> "whole"]

\* What is in a table: nothing, its history, or for claims what they rest on.
Rows  == {"none", "here", "claimed", "withdrawn", "unsealed", "sealed", "rejected"}
Marks == {"scope", "content", "quarantine", "identity", "guard", "token", "audit", "evidence",
          "note_ids", "canonical", "journal_v1", "binding", "journal", "snapshot", "sealing",
          "media", "phase_a"}

VARIABLES
    origin,  \* history variable: the database the first start of this release met
    disk,    \* what is durable
    view,    \* what the connection sees: differs from the disk inside a transaction
    open,    \* a transaction is open
    phase,   \* down, starting, refused, serving
    at, todo, \* the migration under way and what is left of its statements
    seen, begun, \* the marks that were read first; the snapshot upgrade was begun
    crashed  \* history variable

vars == <<origin, disk, view, open, phase, at, todo, seen, begun, crashed>>

(***************************************************************************)
(* Statements                                                              *)
(***************************************************************************)
Stmt(do, t, to) == [do |-> do, on |-> t, to |-> to]
Create(t, s)    == Stmt("create", t, s)  \* CREATE TABLE, and CREATE TRIGGER of the facts
Alter(t, s)     == Stmt("alter", t, s)   \* ADD COLUMN, CREATE INDEX, DROP INDEX, DROP TRIGGER
Drop(t)         == Stmt("drop", t, "none")
Aside(t)        == Stmt("aside", t, "none")  \* RENAME TO its temporary name
Copy(t)         == Stmt("copy", t, "none")   \* INSERT INTO ... SELECT
Forget(t)       == Stmt("forget", t, "none") \* DROP TABLE of the temporary name
Put(t, rows)    == Stmt("put", t, rows)      \* UPDATE, DELETE
Mark(m)         == Stmt("mark", m, "none")
Check(m)        == Stmt("check", m, "none")
Commit          == Stmt("commit", "none", "none")
Refuse          == Stmt("refuse", "none", "none")

WritesRows(s) == s.do \in {"copy", "put", "mark"}

Effect(s, d) ==
    CASE s.do = "create" -> [d EXCEPT !.shape[s.on] = s.to, !.rows[s.on] = "none"]
      [] s.do = "alter"  -> [d EXCEPT !.shape[s.on] = s.to]
      [] s.do = "drop"   -> [d EXCEPT !.shape[s.on] = "none", !.rows[s.on] = "none"]
      [] s.do = "aside"  -> [d EXCEPT !.aside[s.on] = d.rows[s.on],
                                      !.shape[s.on] = "none", !.rows[s.on] = "none"]
      [] s.do = "copy"   -> [d EXCEPT !.rows[s.on] = d.aside[s.on]]
      [] s.do = "forget" -> [d EXCEPT !.aside[s.on] = "no"]
      [] s.do = "put"    -> [d EXCEPT !.rows[s.on] = s.to]
      [] s.do = "mark"   -> [d EXCEPT !.marks = @ \union {s.on}]
      [] OTHER           -> d

(***************************************************************************)
(* What a validator accepts                                                *)
(***************************************************************************)
NotesFrom == <<"evidence", "permanent", "canonical", "versioned">>
NotesAtLeast(level, d) ==
    \E i \in level..4 : d.shape["notes"] = NotesFrom[i]

NoteEvidenceValid(d)  == NotesAtLeast(1, d)
NoteIdentityValid(d)  == NotesAtLeast(2, d) /\ d.aside["notes"] = "no"
NoteCanonicalValid(d) == NotesAtLeast(3, d) /\ d.aside["notes"] = "no"
NoteVersioned(d)      == NotesAtLeast(4, d)

\* Every note belongs to a snapshot of its profile, and nothing can change them.
SnapshotValid(d) == /\ NoteVersioned(d) /\ d.aside["notes"] = "no"
                    /\ d.shape["snapshots"] = "whole" /\ d.shape["facts"] = "sealed"
                    /\ d.rows["snapshots"] = d.rows["notes"]

JournalV1Valid(d) == d.shape["journal"] = "v1"
JournalValid(d)   == d.shape["journal"] = "v2" /\ d.aside["journal"] = "no"

\* The CHECKs of the queue are those of the release that created it: a column that was
\* added to it does not bring its own.
QueueValid(d, identity, token) ==
    \/ d.shape["queue"] = "token"
    \/ d.shape["queue"] = "identified" /\ ~token
    \/ d.shape["queue"] = "base" /\ ~identity /\ ~token

\* The columns of the audit, whether the indexes are there or not.
ReviewAuditValid(d) == d.shape["reviews"] \in {"torn", "audited"}
ContentValid(d)     == d.shape["content"] = "whole" /\ d.shape["reviews"] = "audited"
MediaValid(d)       == d.shape["media"] = "whole"
GradesValid(d)      == d.shape["opportunities"] = "graded"

\* Mutant of SealValid: the rows are not looked at.
ColumnThere(d) == d.shape["analyses"] = "sealed"

\* A success carries a snapshot, or says that it is from before them.
SealValid(d) == d.shape["analyses"] = "sealed" /\ d.rows["analyses"] # "claimed"

\* The marks under which a start looks for the triggers of the binding.
BindingMarks == {"binding", "evidence", "note_ids", "canonical"}

Valid(m, d) ==
    CASE m = "scope"      -> d.shape["analyses"] # "bare"
      [] m = "audit"      -> ReviewAuditValid(d)
      [] m = "content"    -> ContentValid(d)
      [] m = "quarantine" -> QueueValid(d, "identity" \in d.marks, "token" \in d.marks)
      [] m = "identity"   -> QueueValid(d, TRUE, FALSE)
      [] m = "token"      -> QueueValid(d, TRUE, TRUE)
      [] m = "evidence"   -> NoteEvidenceValid(d)
      [] m = "note_ids"   -> NoteIdentityValid(d)
      [] m = "canonical"  -> NoteCanonicalValid(d)
      [] m = "journal_v1" -> JournalV1Valid(d)
      [] m = "binding"    -> d.shape["facts"] = "bound"
      [] m = "journal"    -> JournalValid(d)
      [] m = "snapshot"   -> SnapshotValid(d)
      [] m = "sealing"    -> SealValid(d)
      [] m = "media"      -> MediaValid(d)
      [] m = "phase_a"    -> GradesValid(d)
      [] OTHER            -> TRUE

(***************************************************************************)
(* The migrations: the statements each runs on what it finds.  v is what   *)
(* the connection sees when the migration begins.                          *)
(***************************************************************************)
None == << >>
When(condition, statements) == IF condition THEN statements ELSE None

\* Tables whose validators look for the indexes that are created after them.
Indexed == {"reviews", "queue", "notes", "journal", "media"}
Make(t) == IF t \in Indexed THEN <<Create(t, "torn"), Alter(t, Current[t])>>
                            ELSE <<Create(t, Current[t])>>

\* Base.metadata.create_all: a table that is there is left as it is.
Missing(t, v) == When(v.shape[t] = "none", Make(t))
CreateAll(v) ==
    Missing("artifacts", v) \o Missing("analyses", v) \o Missing("opportunities", v)
    \o Missing("content", v) \o Missing("reviews", v) \o Missing("queue", v)
    \o Missing("notes", v) \o Missing("snapshots", v) \o Missing("journal", v)
    \o Missing("media", v)

\* The notes and the journal lose their triggers and indexes one by one before they are
\* renamed, and the first that is gone is what their validators miss.  None looks for the
\* indexes of the reviews, and those of the queue go in the transaction of its rebuild.
Guarded  == {"notes", "journal"}
Strip(t) == When(t \in Guarded, <<Alter(t, "unguarded")>>)

\* Mutant of Rebuild: the old table is gone before its rows are copied.
RebuildForgetful(t) == Strip(t) \o <<Aside(t)>> \o Make(t) \o <<Forget(t), Copy(t)>>

\* The table is renamed, created as the program has it now, filled, and dropped.
Renew(t)   == <<Aside(t)>> \o Make(t) \o <<Copy(t), Forget(t)>>
Rebuild(t) == Strip(t) \o Renew(t)

Provenance(v) == When(v.shape["artifacts"] = "plain", <<Alter("artifacts", "produced")>>)

\* Mutant of Scope: a column that an interrupted start has added is added again.
ScopeOnce(v) ==
    IF "scope" \in v.marks THEN <<Check("scope")>>
    ELSE <<Alter("analyses", "scoped")>>
         \o When(v.rows["analyses"] = "claimed",
                 <<Put("opportunities", "none"), Put("analyses", "withdrawn")>>)
         \o <<Mark("scope")>>

\* The successes of before are withdrawn, and their opportunities with them.
Scope(v) ==
    IF "scope" \in v.marks THEN <<Check("scope")>>
    ELSE When(v.shape["analyses"] = "bare", <<Alter("analyses", "scoped")>>)
         \o When(v.rows["analyses"] = "claimed",
                 <<Put("opportunities", "none"), Put("analyses", "withdrawn")>>)
         \o <<Mark("scope")>>

\* A review table without its first columns is left to the next migration.
Audit(v) ==
    IF "audit" \in v.marks THEN <<Check("audit")>>
    ELSE IF v.shape["reviews"] = "old" THEN None
    ELSE When(v.shape["reviews"] = "plain", Rebuild("reviews"))
         \o <<Check("audit"), Mark("audit")>>

Content(v) ==
    IF ContentValid(v) THEN <<Mark("content")>>
    ELSE IF v.rows["content"] # "none" \/ v.rows["reviews"] # "none" THEN <<Refuse>>
    ELSE <<Drop("reviews"), Drop("content")>> \o Make("content") \o Make("reviews")
         \o <<Mark("content")>>

\* The packages that were being built are failed, and their files queued, in the
\* transaction of the mark (ArtifactCleanup, ContentWorkflow).
Quarantine(v) ==
    IF "quarantine" \in seen THEN <<Check("quarantine")>>
    ELSE (IF QueueValid(v, FALSE, FALSE) THEN None
          ELSE IF v.rows["queue"] # "none" THEN <<Refuse>>
          ELSE <<Drop("queue")>> \o Make("queue"))
         \o <<Commit, Mark("quarantine")>>

Identity(v) ==
    IF "identity" \in seen THEN <<Check("identity")>>
    ELSE IF v.shape["queue"] = "part" THEN <<Refuse>>
    ELSE When(v.shape["queue"] = "base", <<Alter("queue", "part"), Alter("queue", "widened")>>)
         \o <<Check("identity"), Mark("identity")>>

\* The rows are given their token before the table is renamed, so that the whole
\* rebuild is in one transaction.
Token(v) ==
    IF "token" \in seen THEN <<Check("token")>>
    ELSE When(v.shape["queue"] = "identified", <<Alter("queue", "tokened")>>)
         \o <<Put("queue", v.rows["queue"])>> \o Rebuild("queue")
         \o <<Mark("token"), Commit, Check("token")>>

Guard(v) == When("guard" \notin seen, <<Mark("guard")>>)

\* Mutant of Evidence: the rows of a table that is made again are not looked for.
EvidenceUnasked(v) ==
    IF "evidence" \in seen THEN <<Check("evidence")>>
    ELSE When(~NoteEvidenceValid(v), <<Drop("notes")>> \o Make("notes"))
         \o <<Check("evidence"), Mark("evidence")>>

\* An empty table that is not as it should be is made again; history is never guessed.
Evidence(v) ==
    IF "evidence" \in seen THEN <<Check("evidence")>>
    ELSE (IF NoteEvidenceValid(v) THEN None
          ELSE IF v.rows["notes"] # "none" THEN <<Refuse>>
          ELSE <<Drop("notes")>> \o Make("notes"))
         \o <<Check("evidence"), Mark("evidence")>>

NoteIdentity(v) ==
    IF "note_ids" \in seen THEN <<Check("note_ids")>>
    ELSE <<Check("evidence")>> \o When(~NotesAtLeast(2, v), Rebuild("notes"))
         \o <<Check("note_ids"), Mark("note_ids")>>

NoteCanonical(v) ==
    IF "canonical" \in seen THEN <<Check("canonical")>>
    ELSE <<Check("note_ids")>> \o When(~NotesAtLeast(3, v), Rebuild("notes"))
         \o <<Check("canonical"), Mark("canonical")>>

Journal(v) ==
    IF "journal" \in seen THEN <<Check("journal")>>
    ELSE (IF "journal_v1" \in v.marks
          THEN <<Check("journal_v1")>> \o Rebuild("journal")
          ELSE IF JournalValid(v) THEN None
          ELSE IF v.rows["journal"] # "none" THEN <<Refuse>>
          ELSE <<Drop("journal")>> \o Make("journal"))
         \o <<Check("journal"), Mark("journal")>>

\* Not when the snapshot migration supersedes it.  The triggers are durable before the
\* mark, and made again if they are there.
Binding(v) ==
    IF "snapshot" \in seen \/ begun THEN None
    ELSE IF BindingMarks \subseteq seen THEN <<Check("binding")>>
    ELSE <<Check("canonical"), Drop("facts"), Create("facts", "bound"), Check("binding"),
           Mark("binding")>>

\* The triggers and the empty tables of the snapshots go one by one; the new ones come
\* in the transaction of the mark.
Snapshot(v) ==
    IF "snapshot" \in seen THEN <<Check("snapshot")>>
    ELSE IF SnapshotValid(v) THEN <<Mark("snapshot")>>
    ELSE <<Check("canonical")>>
         \o When(v.rows["snapshots"] # "none", <<Refuse>>)
         \o <<Drop("facts"), Drop("snapshots")>>
         \o When(~NoteVersioned(v), Rebuild("notes"))
         \o Make("snapshots") \o <<Put("snapshots", v.rows["notes"]), Create("facts", "sealed")>>
         \o <<Check("snapshot"), Mark("snapshot")>>

Sealing(v) ==
    IF "sealing" \in seen THEN <<Check("sealing")>>
    ELSE When(v.shape["analyses"] = "scoped",
              <<Alter("analyses", "sealed"),
                Put("analyses", IF v.rows["analyses"] = "claimed" THEN "unsealed"
                                                                  ELSE v.rows["analyses"])>>)
         \o <<Check("sealing"), Mark("sealing")>>

\* Each column is added if it is not there.
PhaseA(v) ==
    IF "phase_a" \in seen THEN <<Check("phase_a")>>
    ELSE When(v.shape["opportunities"] = "plain", <<Alter("opportunities", "part")>>)
         \o When(v.shape["opportunities"] \in {"plain", "part"}, <<Alter("opportunities", "graded")>>)
         \o When(v.rows["opportunities"] = "here", <<Put("opportunities", "rejected")>>)
         \o <<Check("phase_a"), Mark("phase_a")>>

Media(v) == IF "media" \in seen THEN <<Check("media")>>
                                ELSE <<Check("media"), Mark("media")>>

\* The order of initialize().
Script(i, v) ==
    CASE i = 1  -> CreateAll(v)    [] i = 2  -> Provenance(v)    [] i = 3  -> Scope(v)
      [] i = 4  -> Audit(v)        [] i = 5  -> Content(v)       [] i = 6  -> Audit(v)
      [] i = 7  -> Quarantine(v)   [] i = 8  -> Identity(v)      [] i = 9  -> Token(v)
      [] i = 10 -> Guard(v)        [] i = 11 -> Evidence(v)      [] i = 12 -> NoteIdentity(v)
      [] i = 13 -> NoteCanonical(v) [] i = 14 -> Journal(v)      [] i = 15 -> Binding(v)
      [] i = 16 -> Snapshot(v)     [] i = 17 -> Sealing(v)       [] i = 18 -> PhaseA(v)
      [] i = 19 -> Media(v)
LastScript == 19

(***************************************************************************)
(* What the first start may meet: the tables in a shape some release gave  *)
(* them, their rows inside, and each mark vouched for by its validator.    *)
(***************************************************************************)
Histories == {"content", "reviews", "queue", "notes", "journal"}

WellFormed(d) ==
    /\ d \in [shape : [Table -> UNION {Forms[t] : t \in Table}], rows : [Table -> Rows],
              aside : [Table -> Rows \union {"no"}], marks : SUBSET Marks]
    /\ \A t \in Table : d.shape[t] \in Forms[t]
    /\ \A t \in Histories : /\ d.rows[t] \in {"none", "here"}
                            /\ d.aside[t] \in {"no", "none", "here"}

\* A review is of a content item, an opportunity of an analysis.
Released(d) ==
    /\ WellFormed(d)
    /\ \A t \in Table : /\ d.shape[t] \notin HalfDone /\ d.aside[t] = "no"
                        /\ d.shape[t] = "none" => d.rows[t] = "none"
    /\ \A m \in d.marks \ {"content", "journal_v1", "binding"} : Valid(m, d)
    /\ "evidence" \notin d.marks => d.shape["notes"] \in {"none", "weak"}
    /\ "binding" \in d.marks => BindingMarks \subseteq d.marks
    /\ d.shape["facts"] = IF "snapshot" \in d.marks THEN "sealed"
                          ELSE IF "binding" \in d.marks THEN "bound" ELSE "none"
    /\ d.shape["journal"] = "v2" => "journal" \in d.marks
    /\ d.shape["journal"] = "v1" <=> "journal_v1" \in d.marks /\ "journal" \notin d.marks
    /\ d.shape["reviews"] = "old" => d.shape["content"] = "old"
    /\ d.rows["reviews"] # "none" => d.rows["content"] # "none"
    /\ "snapshot" \notin d.marks => d.rows["snapshots"] = "none"
    /\ d.shape["analyses"] = "sealed" => d.rows["analyses"] # "claimed"
    /\ "sealing" \notin d.marks => d.rows["analyses"] # "sealed"
    /\ "scope" \notin d.marks /\ d.rows["opportunities"] # "none" => d.rows["analyses"] = "claimed"

ASSUME OriginsAssumption == \A d \in Origins : Released(d)

(***************************************************************************)
(* The start                                                               *)
(***************************************************************************)
NoLeftovers(d) == d.aside["notes"] = "no" /\ d.aside["journal"] = "no"

\* Snapshot tables that no mark vouches for are empty, or as it would have them.
SnapshotsAreNew(d) ==
    "snapshot" \notin d.marks => d.rows["snapshots"] = "none" \/ SnapshotValid(d)

\* The snapshot migration was begun.
Upgrading(d) == /\ "snapshot" \notin d.marks
                /\ NoteVersioned(d) \/ d.shape["snapshots"] # "none"

\* Until then a binding that was marked is looked for.
Bound(d) ==
    BindingMarks \subseteq d.marks /\ "snapshot" \notin d.marks /\ ~Upgrading(d) => Valid("binding", d)

\* Read before the first write; the checks of the marks need no order.
Startable(d) ==
    /\ NoLeftovers(d)
    /\ SnapshotsAreNew(d)
    /\ Bound(d)
    /\ \A m \in d.marks \ {"journal_v1", "content", "scope", "binding"} : Valid(m, d)

Init ==
    /\ origin \in Origins /\ disk = origin /\ view = origin
    /\ open = FALSE /\ phase = "down" /\ at = 0 /\ todo = None
    /\ seen = {} /\ begun = FALSE /\ crashed = FALSE

Start ==
    /\ phase = "down" /\ view' = disk
    /\ seen' = disk.marks
    /\ begun' = Upgrading(disk)
    /\ IF Startable(disk) THEN phase' = "starting" /\ at' = 1 /\ todo' = CreateAll(disk)
                          ELSE phase' = "refused" /\ at' = 0 /\ todo' = None
    /\ UNCHANGED <<origin, disk, open, crashed>>

\* A rename needs the temporary name, an added column must not be there, and a
\* validator may object.
Fails(s, d) == \/ s.do = "refuse"
               \/ s.do = "check" /\ ~Valid(s.on, d)
               \/ s.do = "aside" /\ d.aside[s.on] # "no"
               \/ s.do = "alter" /\ d.shape[s.on] \in {s.to, Current[s.on]}

Execute ==
    /\ phase = "starting" /\ todo # None /\ ~Fails(Head(todo), view)
    /\ LET s == Head(todo) new == Effect(s, view)
       IN  /\ view' = new /\ todo' = Tail(todo)
           /\ open' = (s.do # "commit" /\ (open \/ WritesRows(s)))
           /\ disk' = IF open' THEN disk ELSE new
    /\ UNCHANGED <<origin, phase, at, seen, begun, crashed>>

\* The transaction is rolled back; what was durable stays.
Fail ==
    /\ phase = "starting" /\ todo # None /\ Fails(Head(todo), view)
    /\ phase' = "refused" /\ view' = disk /\ open' = FALSE /\ todo' = None /\ at' = 0
    /\ UNCHANGED <<origin, disk, seen, begun, crashed>>

\* The migration commits and the next one reads what it finds.
Proceed ==
    /\ phase = "starting" /\ todo = None
    /\ disk' = view /\ open' = FALSE
    /\ IF at = LastScript
       THEN phase' = "serving" /\ at' = 0 /\ UNCHANGED todo
       ELSE at' = at + 1 /\ todo' = Script(at + 1, view) /\ UNCHANGED phase
    /\ UNCHANGED <<origin, view, seen, begun, crashed>>

Crash ==
    /\ phase = "starting" /\ crashed' = TRUE
    /\ phase' = "down" /\ view' = disk /\ open' = FALSE /\ todo' = None /\ at' = 0
    /\ UNCHANGED <<origin, disk, seen, begun>>

Stop == /\ phase \in {"serving", "refused"} /\ phase' = "down"
        /\ UNCHANGED <<origin, disk, view, open, at, todo, seen, begun, crashed>>

Next == Start \/ Execute \/ Fail \/ Proceed \/ Crash \/ Stop
Spec == Init /\ [][Next]_vars

(***************************************************************************)
(* Properties                                                              *)
(***************************************************************************)
\* The variables keep their shape, and the connection sees something else than the
\* disk only inside a transaction of a start.
TypeOK ==
    /\ WellFormed(disk) /\ WellFormed(view)
    /\ phase \in {"down", "starting", "refused", "serving"} /\ at \in 0..LastScript
    /\ seen \subseteq Marks /\ open \in BOOLEAN /\ begun \in BOOLEAN
    /\ open => phase = "starting"
    /\ view # disk => open

\* The variables keep their shape, and whatever statement a start dies at, the rows it
\* found are in their table or in the one it was renamed to: no migration, and no
\* rebuild of an empty table, destroys history (_migrate_*, _rebuild_* of db.py).
HistoryIsKept ==
    /\ TypeOK
    /\ \A t \in Histories : origin.rows[t] = "here" =>
           "here" \in {disk.rows[t], disk.aside[t]}

\* A process that serves has the notes, the journal, the cleanup queue and the content
\* of before in their tables: none of them is empty because its rows are in a table
\* that an interrupted start left behind.  The reviews are the exception.  A start that
\* dies after their table was renamed is followed by one that creates an empty table,
\* finds it as it should be, and marks the migration (_migrate_content_review_audit).
HistoryIsServed ==
    phase = "serving" =>
        \A t \in Histories : origin.rows[t] = "here" =>
            \/ disk.rows[t] = "here"
            \/ t = "reviews" /\ crashed /\ disk.aside[t] = "here"

\* No claim of a release that did not seal its evidence is served as if it were
\* sealed: a success is withdrawn or says that it is from before, and an ungraded
\* opportunity is rejected or gone (_migrate_analysis_scope,
\* _migrate_analysis_evidence_snapshot, _migrate_phase_a_opportunities).
OldClaimsAreMarked ==
    phase = "serving" =>
        /\ disk.rows["analyses"] # "claimed"
        /\ "sealing" \notin origin.marks => disk.rows["analyses"] # "sealed"
        /\ "phase_a" \notin origin.marks => disk.rows["opportunities"] # "here"
        /\ "scope" \notin origin.marks => disk.rows["opportunities"] = "none"

\* What the program says it leaves to a person: tables with rows from before their
\* first migration.  And the queue of the release that had no identity columns: the
\* columns can be added and the CHECKs that go with them cannot, so every start fails.
Manual(d) == \/ d.rows["notes"] = "here" /\ d.shape["notes"] = "weak"
             \/ d.rows["content"] = "here" /\ d.shape["content"] = "old"
             \/ d.shape["queue"] = "base"

\* What an interrupted start may leave that no later start repairs: a table that was
\* renamed, or was about to be and has lost its guards, or is there without its indexes;
\* facts that were to be frozen anew; and columns without what goes with them.
Torn(d) == \/ \E t \in Guarded : d.aside[t] # "no" \/ d.shape[t] = "unguarded"
           \/ ~Bound(d)
           \/ d.shape["queue"] = "tokened"
           \/ d.shape["reviews"] = "torn" \/ d.shape["media"] = "torn"
           \/ "audit" \in d.marks /\ ~ReviewAuditValid(d)
           \/ d.shape["analyses"] = "sealed" /\ d.rows["analyses"] = "claimed"

\* Every release is upgraded by one start that is left alone.  If starts are
\* interrupted, a later one finishes the work unless the disk shows one of the torn
\* states: everywhere else a migration can be repeated.
RefusalsAreKnown ==
    phase = "refused" => Manual(origin) \/ (crashed /\ Torn(disk))
=============================================================================
